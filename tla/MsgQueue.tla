------------------------------ MODULE MsgQueue ------------------------------
(***************************************************************************)
(* ak/message.cpp: the doubly linked list behind one mailbox.  The newest  *)
(* message is at tail, the oldest at head; next points from a message to   *)
(* the older one, prev to the newer one.  Every caller holds the mailbox   *)
(* mutex, so each function is one step.                                    *)
(*                                                                         *)
(* fifo is a history variable, it is read by no guard: the messages put    *)
(* and not yet got, in the order of the calls.                             *)
(*                                                                         *)
(* The names carry a q, as those of the code, so that the list of timers   *)
(* (AkTimer) can be reasoned about beside this one.                        *)
(***************************************************************************)
EXTENDS Pointers, Integers, Sequences, FiniteSets

CONSTANT Msgs   \* the ak_msg_t objects the heap can hold

ASSUME NullAssumption == NULL \notin Msgs

VARIABLES
  qhead, qtail, len,   \* head, tail and len of q_msg_t
  qnext, qprev,        \* the links of every ak_msg_t
  got,                 \* ret_msg of ak_msg_rev: what the last q_msg_get returned
  fifo

qvars == <<qhead, qtail, len, qnext, qprev, got, fifo>>

\* q_msg_init, called once before anything is put.
QMsgInit ==
  /\ qhead = NULL
  /\ qtail = NULL
  /\ len = 0

QInit ==
  /\ QMsgInit
  /\ qnext = [m \in Msgs |-> NULL]
  /\ qprev = [m \in Msgs |-> NULL]
  /\ got = NULL
  /\ fifo = <<>>

\* The messages in the list: malloc returns none of them.
Queued == {fifo[i] : i \in 1..Len(fifo)}

-----------------------------------------------------------------------------
\* Defective variants of operations below.

\* A task posts the message it is handling, instead of a copy.
QMsgPutHandled(m) ==
  /\ m \notin Queued
  /\ qnext' = [qnext EXCEPT ![m] = qtail]
  /\ qprev' = [p \in Msgs |-> IF p = m THEN NULL ELSE IF p = qtail THEN m ELSE qprev[p]]
  /\ qhead' = IF qtail = NULL THEN m ELSE qhead
  /\ qtail' = m
  /\ len' = len + 1
  /\ fifo' = Append(fifo, m)
  /\ UNCHANGED got

\* The new head still points to the message that was taken.
QMsgGetDangling ==
  /\ qhead # NULL
  /\ got = NULL
  /\ got' = qhead
  /\ qhead' = qprev[qhead]
  /\ qtail' = IF qhead = qtail THEN NULL ELSE qtail
  /\ qprev' = [qprev EXCEPT ![qhead] = NULL]
  /\ len' = len - 1
  /\ fifo' = Tail(fifo)
  /\ UNCHANGED qnext

\* The newest message is taken.
QMsgGetNewest ==
  /\ qhead # NULL
  /\ got = NULL
  /\ got' = qtail
  /\ qtail' = qnext[qtail]
  /\ qhead' = IF qhead = qtail THEN NULL ELSE qhead
  /\ qprev' = [p \in Msgs |-> IF p = qnext[qtail] THEN NULL ELSE qprev[p]]
  /\ qnext' = [qnext EXCEPT ![qtail] = NULL]
  /\ len' = len - 1
  /\ fifo' = SubSeq(fifo, 1, Len(fifo) - 1)
-----------------------------------------------------------------------------
QMsgPut(m) ==
  /\ m \notin Queued
  /\ m # got
  /\ qnext' = [qnext EXCEPT ![m] = qtail]
  /\ IF qtail # NULL
       THEN /\ qprev' = [qprev EXCEPT ![m] = NULL, ![qtail] = m]
            /\ UNCHANGED qhead
       ELSE /\ qprev' = [qprev EXCEPT ![m] = NULL]
            /\ qhead' = m
  /\ qtail' = m
  /\ len' = len + 1
  /\ fifo' = Append(fifo, m)
  /\ UNCHANGED got

QMsgAvailable == qhead # NULL /\ qtail # NULL

\* ak_msg_rev calls q_msg_get only behind q_msg_available: the function itself
\* decrements len even when the list is empty.
QMsgGet ==
  /\ QMsgAvailable
  /\ got = NULL
  /\ got' = qhead
  /\ IF qhead = qtail
       THEN /\ qhead' = NULL
            /\ qtail' = NULL
            /\ UNCHANGED <<qnext, qprev>>
       ELSE /\ qhead' = qprev[qhead]
            /\ qnext' = [qnext EXCEPT ![qprev[qhead]] = NULL]
            /\ qprev' = [qprev EXCEPT ![qhead] = NULL]
            /\ UNCHANGED qtail
  /\ len' = len - 1
  /\ fifo' = Tail(fifo)

\* The task frees the message it has handled; the next malloc may return it.
QMsgFree ==
  /\ got # NULL
  /\ got' = NULL
  /\ UNCHANGED <<qhead, qtail, len, qnext, qprev, fifo>>

QNext == QMsgGet \/ QMsgFree \/ \E m \in Msgs : QMsgPut(m)

QSpec == QInit /\ [][QNext]_qvars

-----------------------------------------------------------------------------
QTypeOK ==
  /\ qhead \in Msgs \cup {NULL}
  /\ qtail \in Msgs \cup {NULL}
  /\ len \in Nat
  /\ qnext \in [Msgs -> Msgs \cup {NULL}]
  /\ qprev \in [Msgs -> Msgs \cup {NULL}]
  /\ got \in Msgs \cup {NULL}
  /\ fifo \in Seq(Msgs)

\* No message is linked twice, and the one a task handles is not linked.
NoDuplicates ==
  /\ \A i, j \in 1..Len(fifo) : fifo[i] = fifo[j] => i = j
  /\ \A i \in 1..Len(fifo) : fifo[i] # got

\* The list in memory is the fifo, read from head along prev and from tail along
\* next, and both walks end: after any order of put and get of message.cpp.  The
\* counter that decides whether a task sleeps is the length of both walks.
RepresentsFifo ==
  /\ len = Len(fifo)
  /\ fifo = <<>> => qhead = NULL /\ qtail = NULL
  /\ fifo # <<>> => /\ qhead = fifo[1]
                    /\ qtail = fifo[Len(fifo)]
                    /\ qnext[qhead] = NULL
                    /\ qprev[qtail] = NULL
  /\ \A i \in 1..(Len(fifo) - 1) : /\ qprev[fifo[i]] = fifo[i + 1]
                                   /\ qnext[fifo[i + 1]] = fifo[i]

\* q_msg_put and q_msg_get implement a mailbox: what q_msg_get returns is the
\* oldest message put, each message once.
Box == INSTANCE Mailboxes
         WITH Task <- {0}, Msg <- Msgs, None <- NULL,
              chan <- [t \in {0} |-> fifo], cur <- [t \in {0} |-> got]
ImplementsMailbox == Box!Spec
=============================================================================
