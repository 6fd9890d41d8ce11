------------------------------ MODULE AkTimer ------------------------------
(***************************************************************************)
(* ak/timer.cpp: the list of armed timers.  tail is the newest node, next  *)
(* leads to older ones.  POSIX starts one timer_handler thread per expiry  *)
(* of the interval timer; each walks the list under mt_timer_service and   *)
(* posts to the mailboxes as it goes.  Any thread calls timer_set and      *)
(* timer_remove_attr, under the same lock.                                 *)
(*                                                                         *)
(* order is a history variable: the nodes of the list, newest first.       *)
(***************************************************************************)
EXTENDS Pointers, Integers, Sequences, FiniteSets

CONSTANTS
  Keys,         \* (des_task_id, sig)
  Nodes,        \* the timer_msg_t objects the heap can hold
  Duties,       \* the duty arguments of timer_set
  Unit,         \* AK_TIMER_UNIT
  MaxBacklog,   \* bound: handler threads that wait for the lock
  MaxMail       \* bound: a pass starts only if its timeouts still fit in

ASSUME TimerAssumption ==
  /\ Unit \in Nat \ {0}
  /\ Duties \subseteq Nat
  /\ IsFiniteSet(Nodes)
  /\ NULL \notin Nodes \cup [period : Nat, counter : Nat]
  /\ MaxBacklog \in Nat /\ MaxMail \in Nat

VARIABLES
  head, tail, next, prev,   \* timer_service and the links of every node
  data,                     \* timer_data_t of every node
  backlog,                  \* timer_handler threads that wait for the lock
  locked,                   \* a timer_handler holds mt_timer_service
  cursor,                   \* its timer_node_temp
  mail,                     \* the timeouts in the mailboxes
  fatal,                    \* FATAL ended the process
  order

listVars == <<head, tail, next, prev, order>>
vars == <<listVars, data, backlog, locked, cursor, mail, fatal>>

NoData == [key |-> NULL, period |-> 0, counter |-> 0]

Init ==
  /\ head = NULL
  /\ tail = NULL
  /\ next = [n \in Nodes |-> NULL]
  /\ prev = [n \in Nodes |-> NULL]
  /\ data = [n \in Nodes |-> NoData]
  /\ backlog = 0
  /\ locked = FALSE
  /\ cursor = NULL
  /\ mail = <<>>
  /\ fatal = FALSE
  /\ order = <<>>

Live == {order[i] : i \in 1..Len(order)}

\* The nodes met on the way from n along next: the loop of every function here.
From(n) ==
  LET node[i \in 0..Cardinality(Nodes)] ==
        IF i = 0 THEN n ELSE LET m == node[i - 1] IN IF m = NULL THEN NULL ELSE next[m]
  IN {node[i] : i \in 0..Cardinality(Nodes)} \ {NULL}

Found(k) == {n \in From(tail) : data[n].key = k}

\* The other nodes of the list.
Without(n) ==
  LET p == CHOOSE i \in 1..Len(order) : order[i] = n
  IN [i \in 1..(Len(order) - 1) |-> IF i < p THEN order[i] ELSE order[i + 1]]

\* free: what a returned node held no longer counts.
Freed(f, n, none) == [f EXCEPT ![n] = none]
-----------------------------------------------------------------------------
\* Defective variants of operations below.

\* The tail case of the removal forgets to clear prev of the new tail.
UnlinkDirtyTail(n) ==
  /\ \/ /\ next[n] = NULL /\ prev[n] = NULL
        /\ head' = NULL /\ tail' = NULL
        /\ UNCHANGED <<next, prev>>
     \/ /\ next[n] # NULL /\ prev[n] # NULL
        /\ prev' = Freed([prev EXCEPT ![next[n]] = prev[n]], n, NULL)
        /\ next' = Freed([next EXCEPT ![prev[n]] = next[n]], n, NULL)
        /\ UNCHANGED <<head, tail>>
     \/ /\ next[n] # NULL /\ prev[n] = NULL
        /\ tail' = next[tail]
        /\ next' = Freed(next, n, NULL)
        /\ UNCHANGED <<head, prev>>
     \/ /\ next[n] = NULL /\ prev[n] # NULL
        /\ head' = prev[head]
        /\ next' = [next EXCEPT ![prev[head]] = NULL]
        /\ prev' = Freed(prev, n, NULL)
        /\ UNCHANGED tail
  /\ order' = Without(n)

\* The walk starts at the wrong end.
HandlerLockAtHead ==
  /\ backlog > 0
  /\ ~locked
  /\ Len(mail) + Len(order) <= MaxMail
  /\ backlog' = backlog - 1
  /\ locked' = TRUE
  /\ cursor' = head
  /\ UNCHANGED <<listVars, data, mail, fatal>>
-----------------------------------------------------------------------------
\* timer_service_remove_node: by position in the list, in the order of the code.
Unlink(n) ==
  /\ \/ /\ next[n] = NULL /\ prev[n] = NULL
        /\ head' = NULL /\ tail' = NULL
        /\ UNCHANGED <<next, prev>>
     \/ /\ next[n] # NULL /\ prev[n] # NULL
        /\ prev' = Freed([prev EXCEPT ![next[n]] = prev[n]], n, NULL)
        /\ next' = Freed([next EXCEPT ![prev[n]] = next[n]], n, NULL)
        /\ UNCHANGED <<head, tail>>
     \/ /\ next[n] # NULL /\ prev[n] = NULL
        /\ tail' = next[tail]
        /\ prev' = [prev EXCEPT ![next[tail]] = NULL]
        /\ next' = Freed(next, n, NULL)
        /\ UNCHANGED head
     \/ /\ next[n] = NULL /\ prev[n] # NULL
        /\ head' = prev[head]
        /\ next' = [next EXCEPT ![prev[head]] = NULL]
        /\ prev' = Freed(prev, n, NULL)
        /\ UNCHANGED tail
  /\ order' = Without(n)

Refresh(k, duty) ==
  /\ data' = [data EXCEPT ![CHOOSE n \in Found(k) : TRUE].counter = duty]
  /\ UNCHANGED listVars

\* malloc returned n; it becomes the tail.
Insert(k, duty, periodic, n) ==
  /\ n \notin Live
  /\ data' = [data EXCEPT ![n] =
               [key |-> k, counter |-> duty, period |-> IF periodic THEN duty ELSE 0]]
  /\ next' = [next EXCEPT ![n] = tail]
  /\ prev' = [m \in Nodes |-> IF m = n THEN NULL ELSE IF m = tail THEN n ELSE prev[m]]
  /\ head' = IF tail = NULL THEN n ELSE head
  /\ tail' = n
  /\ order' = <<n>> \o order

TimerSet(k, duty, periodic) ==
  IF duty < Unit
    THEN /\ fatal' = TRUE
         /\ UNCHANGED <<listVars, data, backlog, locked, cursor, mail>>
    ELSE /\ ~locked
         /\ \/ Found(k) # {} /\ Refresh(k, duty)
            \/ Found(k) = {} /\ \E n \in Nodes : Insert(k, duty, periodic, n)
         /\ UNCHANGED <<backlog, locked, cursor, mail, fatal>>

TimerRemoveAttr(k) ==
  /\ ~locked
  /\ Found(k) # {}
  /\ LET n == CHOOSE n \in Found(k) : TRUE
     IN Unlink(n) /\ data' = Freed(data, n, NoData)
  /\ UNCHANGED <<backlog, locked, cursor, mail, fatal>>
-----------------------------------------------------------------------------
\* The interval timer expires: a thread starts timer_handler.
Expire ==
  /\ backlog < MaxBacklog
  /\ backlog' = backlog + 1
  /\ UNCHANGED <<listVars, data, locked, cursor, mail, fatal>>

HandlerLock ==
  /\ backlog > 0
  /\ ~locked
  /\ Len(mail) + Len(order) <= MaxMail
  /\ backlog' = backlog - 1
  /\ locked' = TRUE
  /\ cursor' = tail
  /\ UNCHANGED <<listVars, data, mail, fatal>>

\* One turn of the loop: the next node is read before this one may be freed.
HandlerNode ==
  /\ locked
  /\ cursor # NULL
  /\ LET d == [data[cursor] EXCEPT !.counter = @ - Unit]
     IN IF d.counter > 0
          THEN /\ data' = [data EXCEPT ![cursor] = d]
               /\ UNCHANGED <<listVars, mail>>
          ELSE /\ mail' = Append(mail, d.key)
               /\ IF d.period # 0
                    THEN /\ data' = [data EXCEPT ![cursor] = [d EXCEPT !.counter = d.period]]
                         /\ UNCHANGED listVars
                    ELSE LET n == CHOOSE n \in Found(d.key) : TRUE
                         IN Unlink(n) /\ data' = Freed(data, n, NoData)
  /\ cursor' = next[cursor]
  /\ UNCHANGED <<backlog, locked, fatal>>

HandlerUnlock ==
  /\ locked
  /\ cursor = NULL
  /\ locked' = FALSE
  /\ UNCHANGED <<listVars, data, backlog, cursor, mail, fatal>>

\* A task takes the oldest timeout from its mailbox.
Receive ==
  /\ mail # <<>>
  /\ mail' = Tail(mail)
  /\ UNCHANGED <<listVars, data, backlog, locked, cursor, fatal>>

Handler == HandlerLock \/ HandlerNode \/ HandlerUnlock

Next ==
  /\ ~fatal
  /\ \/ Expire
     \/ Handler
     \/ Receive
     \/ \E k \in Keys : TimerRemoveAttr(k)
     \/ \E k \in Keys, d \in Duties, p \in BOOLEAN : TimerSet(k, d, p)

Spec == Init /\ [][Next]_vars

\* POSIX keeps expiring the timer, its threads get the lock, tasks read mail.
Fairness ==
  /\ WF_vars(~fatal /\ Expire)
  /\ WF_vars(~fatal /\ Handler)
  /\ WF_vars(~fatal /\ Receive)

FairSpec == Spec /\ Fairness
-----------------------------------------------------------------------------
Timer == [key : Keys \cup {NULL}, period : Nat, counter : Nat]

TypeOK ==
  /\ {head, tail, cursor} \subseteq Nodes \cup {NULL}
  /\ next \in [Nodes -> Nodes \cup {NULL}]
  /\ prev \in [Nodes -> Nodes \cup {NULL}]
  /\ data \in [Nodes -> Timer]
  /\ backlog \in 0..MaxBacklog
  /\ locked \in BOOLEAN
  /\ mail \in Seq(Keys)
  /\ fatal \in BOOLEAN
  /\ order \in Seq(Nodes)

\* The links are those of the list of armed timers, newest at tail, whatever was
\* removed by a caller or by the handler in the middle of its walk; a timer that
\* has expired is not in it.
ListRepresentsTimers ==
  /\ TypeOK
  /\ order = <<>> => head = NULL /\ tail = NULL
  /\ order # <<>> => /\ tail = order[1] /\ prev[tail] = NULL
                     /\ head = order[Len(order)] /\ next[head] = NULL
  /\ \A i \in 1..(Len(order) - 1) : /\ next[order[i]] = order[i + 1]
                                    /\ prev[order[i + 1]] = order[i]
  /\ \A n \in Live : data[n].counter > 0
  /\ cursor # NULL => cursor \in Live

\* The nodes of a key are looked up in order, which ListRepresentsTimers ties to the links.
ArmedTimers ==
  [k \in Keys |->
     LET mine == {n \in Live : data[n].key = k}
     IN IF mine = {} THEN NULL
        ELSE LET d == data[CHOOSE n \in mine : TRUE]
             IN [period |-> d.period, counter |-> d.counter]]
PassLeft == {data[n].key : n \in From(cursor)}

\* Each pass of timer_handler counts every armed timer down exactly once although
\* it frees nodes on its way, and a task has at most one timer for a signal.
TheTimers ==
  INSTANCE Timers
    WITH Key <- Keys, Duty <- {d \in Duties : d >= Unit}, None <- NULL,
         armed <- ArmedTimers,
         pass <- PassLeft
ImplementsTimers == TheTimers!Spec

\* A timer nobody sets or removes any more does not stay armed without firing.
Touch(k) == TimerRemoveAttr(k) \/ \E d \in Duties, p \in BOOLEAN : TimerSet(k, d, p)
ArmedFires ==
  \A k \in Keys :
    <>[][~Touch(k)]_vars
      => []<>(fatal \/ Found(k) = {} \/ \E i \in 1..Len(mail) : mail[i] = k)
=============================================================================
