---------------------------- MODULE ActiveKernel ----------------------------
(***************************************************************************)
(* ak/ak.cpp: the threads of the active kernel, their start-up and the     *)
(* exchange of messages through mailboxes guarded by a mutex and a         *)
(* condition variable.  A mailbox is the sequence that MsgQueue shows the  *)
(* linked list of message.cpp to be.                                       *)
(*                                                                         *)
(* Task 0 is AK_TASK_TIMER_ID: its thread ends once the barrier is passed  *)
(* and nobody posts to it.  The other tasks loop in                        *)
(* msg = ak_msg_rev(id); switch (msg->header->sig) ...; ak_msg_free(msg).  *)
(* Callbacks are the threads that the handlers start (MQTT, WebRTC, the    *)
(* timer's SIGEV threads, dispatch queues): they only post.                *)
(***************************************************************************)
EXTENDS Integers, Sequences, FiniteSets

CONSTANTS
  N,           \* ak_thread_table_len
  Callbacks,   \* threads that post and own no mailbox
  Msgs,        \* the messages the heap can hold at once: the bound of the model
  NONE

ASSUME ConstantsAssumption ==
  /\ N \in Nat /\ N >= 2
  /\ NONE \notin Msgs
  /\ \A c \in Callbacks : c # NONE /\ c \notin 0..N
  /\ NONE \notin 0..N

Tasks == 0..(N - 1)
Workers == 1..(N - 1)      \* the tasks that receive
LastTask == N - 1          \* the one created last
Threads == Tasks \cup Callbacks

VARIABLES
  idx, mainpc,       \* main: the loop index and the next call of its body
  started,           \* ak_thread_started
  condReady,         \* the tasks whose mailbox_cond is initialised
  pc,                \* where each thread is
  mutex,             \* mutex[t]: the thread that holds mt_mailbox_cond of t
  queue,             \* queue[t]: the mailbox of t, oldest message first
  wake,              \* wake[t]: what t's pthread_cond_wait has seen
  msg,               \* msg[t]: the message t has received
  out, dst           \* task_post: the message and its destination

vars == <<idx, mainpc, started, condReady, pc, mutex, queue, wake, msg, out, dst>>
bootVars == <<idx, mainpc, started, condReady>>
postVars == <<out, dst>>

Init ==
  /\ idx = 0
  /\ mainpc = "init"
  /\ started = 0
  /\ condReady = {}
  /\ pc = [t \in Threads |-> "unborn"]
  /\ mutex = [t \in Tasks |-> NONE]
  /\ queue = [t \in Tasks |-> <<>>]
  /\ wake = [t \in Tasks |-> "none"]
  /\ msg = [t \in Tasks |-> NONE]
  /\ out = [t \in Threads |-> NONE]
  /\ dst = [t \in Threads |-> 0]

Go(t, to) == pc' = [pc EXCEPT ![t] = to]
-----------------------------------------------------------------------------
(* main *)

MainInitMailbox ==
  /\ mainpc = "init"
  /\ queue' = [queue EXCEPT ![idx] = <<>>]
  /\ mainpc' = "create"
  /\ UNCHANGED <<idx, started, condReady, pc, mutex, wake, msg, postVars>>

MainCreateThread ==
  /\ mainpc = "create"
  /\ Go(idx, "start")
  /\ mainpc' = "cond"
  /\ UNCHANGED <<idx, started, condReady, mutex, queue, wake, msg, postVars>>

\* Initialising a condition variable somebody already waits on is undefined:
\* the waiter is kept, or no signal ever reaches it.
MainInitCond ==
  /\ mainpc = "cond"
  /\ condReady' = condReady \cup {idx}
  /\ \/ wake' = wake
     \/ wake[idx] = "waiting" /\ wake' = [wake EXCEPT ![idx] = "lost"]
  /\ idx' = idx + 1
  /\ mainpc' = IF idx + 1 < N THEN "init" ELSE "join"
  /\ UNCHANGED <<started, pc, mutex, queue, msg, postVars>>
-----------------------------------------------------------------------------
\* Defective variants of operations below.

\* The barrier lets go one task too early.
PassBarrierEarly(t) ==
  /\ pc[t] = "barrier"
  /\ started >= N - 1
  /\ Go(t, IF t = 0 THEN "ended" ELSE "receive")
  /\ UNCHANGED <<bootVars, mutex, queue, wake, msg, postVars>>

\* The length is not tested before the wait.
CheckLenNever(t) ==
  /\ pc[t] = "check"
  /\ mutex' = [mutex EXCEPT ![t] = NONE]
  /\ wake' = [wake EXCEPT ![t] = "waiting"]
  /\ Go(t, "asleep")
  /\ UNCHANGED <<bootVars, queue, msg, postVars>>

\* The result of malloc is not tested.
GetMsgNull(p, d) ==
  /\ pc[p] = "run"
  /\ out' = [out EXCEPT ![p] = NONE]
  /\ dst' = [dst EXCEPT ![p] = d]
  /\ Go(p, "post")
  /\ UNCHANGED <<bootVars, mutex, queue, wake, msg>>

\* A task may forward the message it has received, and frees it as well.
GetMsgForward(p, d) ==
  /\ pc[p] = "run"
  /\ \E m \in Msgs : /\ \A q \in Threads : out[q] # m
                     /\ \A t \in Tasks : msg[t] = m => t = p
                     /\ \A t \in Tasks : \A i \in 1..Len(queue[t]) : queue[t][i] # m
                     /\ out' = [out EXCEPT ![p] = m]
  /\ dst' = [dst EXCEPT ![p] = d]
  /\ Go(p, "post")
  /\ UNCHANGED <<bootVars, mutex, queue, wake, msg>>

\* A full mailbox drops the message, the receiver is signalled all the same.
LockAndDrop(p) ==
  /\ pc[p] = "post"
  /\ mutex[dst[p]] = NONE
  /\ mutex' = [mutex EXCEPT ![dst[p]] = p]
  /\ out' = [out EXCEPT ![p] = NONE]
  /\ Go(p, "signal")
  /\ UNCHANGED <<bootVars, queue, wake, msg, dst>>

\* The newest message overtakes the others.
LockAndPutFirst(p) ==
  /\ pc[p] = "post"
  /\ mutex[dst[p]] = NONE
  /\ mutex' = [mutex EXCEPT ![dst[p]] = p]
  /\ queue' = [queue EXCEPT ![dst[p]] = <<out[p]>> \o @]
  /\ out' = [out EXCEPT ![p] = NONE]
  /\ Go(p, "signal")
  /\ UNCHANGED <<bootVars, wake, msg, dst>>

\* The receiver is not signalled.
SignalNobody(p) ==
  /\ pc[p] = "signal"
  /\ Go(p, "unlock")
  /\ UNCHANGED <<bootVars, mutex, queue, wake, msg, postVars>>
-----------------------------------------------------------------------------
(* wait_all_tasks_started *)

CountStarted(t) ==
  /\ pc[t] = "start"
  /\ started' = started + 1
  /\ Go(t, "barrier")
  /\ UNCHANGED <<idx, mainpc, condReady, mutex, queue, wake, msg, postVars>>

PassBarrier(t) ==
  /\ pc[t] = "barrier"
  /\ started >= N
  /\ Go(t, IF t = 0 THEN "ended" ELSE "receive")
  /\ UNCHANGED <<bootVars, mutex, queue, wake, msg, postVars>>
-----------------------------------------------------------------------------
(* ak_msg_rev *)

LockToReceive(t) ==
  /\ pc[t] = "receive"
  /\ mutex[t] = NONE
  /\ mutex' = [mutex EXCEPT ![t] = t]
  /\ Go(t, "check")
  /\ UNCHANGED <<bootVars, queue, wake, msg, postVars>>

\* pthread_cond_wait releases the mutex and waits in one step.
CheckLen(t) ==
  /\ pc[t] = "check"
  /\ IF queue[t] = <<>>
       THEN /\ mutex' = [mutex EXCEPT ![t] = NONE]
            /\ wake' = [wake EXCEPT ![t] = "waiting"]
            /\ Go(t, "asleep")
       ELSE /\ Go(t, "take")
            /\ UNCHANGED <<mutex, wake>>
  /\ UNCHANGED <<bootVars, queue, msg, postVars>>

\* POSIX allows pthread_cond_wait to return without a signal.
SpuriousWakeup(t) ==
  /\ wake[t] = "waiting"
  /\ wake' = [wake EXCEPT ![t] = "spurious"]
  /\ UNCHANGED <<bootVars, pc, mutex, queue, msg, postVars>>

Awake(t) ==
  /\ pc[t] = "asleep"
  /\ wake[t] \in {"signalled", "spurious"}
  /\ mutex[t] = NONE
  /\ mutex' = [mutex EXCEPT ![t] = t]
  /\ Go(t, "take")
  /\ UNCHANGED <<bootVars, queue, wake, msg, postVars>>

\* The wait is an "if", not a loop: an empty mailbox returns AK_MSG_NULL, and
\* the task reads msg->header->sig of it.
TakeAndUnlock(t) ==
  /\ pc[t] = "take"
  /\ mutex' = [mutex EXCEPT ![t] = NONE]
  /\ IF queue[t] # <<>>
       THEN /\ msg' = [msg EXCEPT ![t] = Head(queue[t])]
            /\ queue' = [queue EXCEPT ![t] = Tail(@)]
            /\ wake' = [wake EXCEPT ![t] = "none"]
            /\ Go(t, "run")
       ELSE /\ Go(t, "crash")
            /\ UNCHANGED <<msg, queue, wake>>
  /\ UNCHANGED <<bootVars, postVars>>

FreeMsg(t) ==
  /\ t \in Workers
  /\ pc[t] = "run"
  /\ msg' = [msg EXCEPT ![t] = NONE]
  /\ Go(t, "receive")
  /\ UNCHANGED <<bootVars, mutex, queue, wake, postVars>>
-----------------------------------------------------------------------------
(* task_post_*_msg and task_post *)

InMailbox(m) == \E t \in Tasks : \E i \in 1..Len(queue[t]) : queue[t][i] = m

Allocated(m) ==
  \/ InMailbox(m)
  \/ \E t \in Tasks : msg[t] = m
  \/ \E p \in Threads : out[p] = m

\* malloc returns memory that is in no other use.
GetMsg(p, d) ==
  /\ pc[p] = "run"
  /\ \E m \in Msgs : ~Allocated(m) /\ out' = [out EXCEPT ![p] = m]
  /\ dst' = [dst EXCEPT ![p] = d]
  /\ Go(p, "post")
  /\ UNCHANGED <<bootVars, mutex, queue, wake, msg>>

LockAndPut(p) ==
  /\ pc[p] = "post"
  /\ mutex[dst[p]] = NONE
  /\ mutex' = [mutex EXCEPT ![dst[p]] = p]
  /\ queue' = [queue EXCEPT ![dst[p]] = Append(@, out[p])]
  /\ out' = [out EXCEPT ![p] = NONE]
  /\ Go(p, "signal")
  /\ UNCHANGED <<bootVars, wake, msg, dst>>

Signal(p) ==
  /\ pc[p] = "signal"
  /\ wake' = [wake EXCEPT ![dst[p]] = IF @ = "waiting" THEN "signalled" ELSE @]
  /\ Go(p, "unlock")
  /\ UNCHANGED <<bootVars, mutex, queue, msg, postVars>>

Unlock(p) ==
  /\ pc[p] = "unlock"
  /\ mutex' = [mutex EXCEPT ![dst[p]] = NONE]
  /\ dst' = [dst EXCEPT ![p] = 0]
  /\ Go(p, "run")
  /\ UNCHANGED <<bootVars, queue, wake, msg, out>>

\* A handler starts a thread that will post.
StartCallback(c) ==
  /\ pc[c] = "unborn"
  /\ \E t \in Workers : pc[t] \in {"receive", "run"}
  /\ Go(c, "run")
  /\ UNCHANGED <<bootVars, mutex, queue, wake, msg, postVars>>
-----------------------------------------------------------------------------
Crashed == \E t \in Tasks : pc[t] = "crash"

Receive(t) ==
  LockToReceive(t) \/ CheckLen(t) \/ Awake(t) \/ TakeAndUnlock(t)
PostOf(p) == LockAndPut(p) \/ Signal(p) \/ Unlock(p)
Main == MainInitMailbox \/ MainCreateThread \/ MainInitCond

Step ==
  \/ Main
  \/ \E t \in Tasks : CountStarted(t) \/ PassBarrier(t)
  \/ \E t \in Workers : Receive(t) \/ SpuriousWakeup(t) \/ FreeMsg(t)
  \/ \E p \in Workers \cup Callbacks :
       PostOf(p) \/ \E d \in Workers : GetMsg(p, d)
  \/ \E c \in Callbacks : StartCallback(c)

\* A NULL dereference ends the process: no thread moves any more.
Next == ~Crashed /\ Step

\* Every thread runs (weak fairness), no thread starves on a mailbox mutex and
\* every handler returns although it may post first (strong fairness).
Fairness ==
  /\ WF_vars(~Crashed /\ Main)
  /\ \A t \in Tasks : WF_vars(~Crashed /\ (CountStarted(t) \/ PassBarrier(t)))
  /\ \A t \in Workers : SF_vars(~Crashed /\ Receive(t))
  /\ \A t \in Workers : SF_vars(~Crashed /\ FreeMsg(t))
  /\ \A p \in Workers \cup Callbacks : SF_vars(~Crashed /\ PostOf(p))

Spec == Init /\ [][Next]_vars
FairSpec == Spec /\ Fairness
-----------------------------------------------------------------------------
PC == {"unborn", "start", "barrier", "ended", "receive", "check", "asleep",
       "take", "run", "crash", "post", "signal", "unlock"}

TypeOK ==
  /\ idx \in 0..N
  /\ mainpc \in {"init", "create", "cond", "join"}
  /\ started \in Nat
  /\ condReady \in SUBSET Tasks
  /\ pc \in [Threads -> PC]
  /\ mutex \in [Tasks -> Threads \cup {NONE}]
  /\ queue \in [Tasks -> Seq(Msgs)]
  /\ wake \in [Tasks -> {"none", "waiting", "signalled", "spurious", "lost"}]
  /\ msg \in [Tasks -> Msgs \cup {NONE}]
  /\ out \in [Threads -> Msgs \cup {NONE}]
  /\ dst \in [Threads -> Tasks]

\* No lost wake-up: a task that sleeps although its mailbox is not empty is about
\* to be signalled by the thread that filled the mailbox and still holds its
\* mutex.  The task created last is left out, see SetupBeforeUse.
NoLostWakeup ==
  \A t \in Workers \ {LastTask} :
    wake[t] \in {"waiting", "lost"} /\ queue[t] # <<>> =>
      \E p \in Threads : mutex[t] = p /\ pc[p] = "signal" /\ dst[p] = t

\* A task that was signalled finds a message: no other thread takes from its
\* mailbox, so the missing loop around pthread_cond_wait (ak_msg_rev tests len
\* with an if) is visible only after a spurious wake-up.
NullOnlyIfSpurious ==
  \A t \in Workers :
    /\ wake[t] = "signalled" => queue[t] # <<>>
    /\ pc[t] = "crash" => wake[t] = "spurious"

\* A message has one owner at a time: the poster, one mailbox or the task that
\* will free it; so nothing is freed twice or used after it was freed.
OneOwner ==
  \A m \in Msgs :
    /\ \A t, u \in Tasks : msg[t] = m /\ msg[u] = m => t = u
    /\ \A p, q \in Threads : out[p] = m /\ out[q] = m => p = q
    /\ \A t \in Tasks, p \in Threads : ~(msg[t] = m /\ out[p] = m)
    /\ InMailbox(m) => \A p \in Threads : out[p] # m
    /\ InMailbox(m) => \A t \in Tasks : msg[t] # m
    /\ \A t, u \in Tasks : \A i \in 1..Len(queue[t]), j \in 1..Len(queue[u]) :
         queue[t][i] = m /\ queue[u][j] = m => t = u /\ i = j

\* main initialises a mailbox before and its condition variable after it creates
\* the thread.  The barrier makes that safe for every mailbox (q_msg_init erases
\* nothing) and for every condition variable but the last one.
SetupBeforeUse ==
  /\ \A t \in Tasks : t >= idx /\ mainpc = "init" => queue[t] = <<>>
  /\ \A t \in Tasks \ {LastTask} :
       t \notin condReady => /\ wake[t] = "none"
                             /\ \A p \in Threads : pc[p] = "signal" => dst[p] # t

\* Every posted message is handled, unless the process dies of a NULL message or
\* the condition variable of the last task was initialised under its waiter.
PostedIsHandled ==
  \A t \in Workers, m \in Msgs :
    (\E i \in 1..Len(queue[t]) : queue[t][i] = m)
      ~> (msg[t] = m \/ Crashed \/ wake[LastTask] = "lost")

\* Posting and receiving with locks, condition variables and the start-up of
\* main implement the mailboxes of Mailboxes.tla.
Boxes == INSTANCE Mailboxes
           WITH Task <- Tasks, Msg <- Msgs, None <- NONE, chan <- queue, cur <- msg
ImplementsMailboxes == Boxes!Spec
=============================================================================
