----------------------------- MODULE Mailboxes -----------------------------
(***************************************************************************)
(* What the active kernel promises to the tasks: every task has a mailbox  *)
(* that hands over, one at a time and in the order in which they were      *)
(* posted, exactly the messages that were posted to it.  Nothing is said   *)
(* of locks, of condition variables or of the linked list in memory.       *)
(***************************************************************************)
EXTENDS Sequences

CONSTANTS Task,   \* the tasks that own a mailbox
          Msg,    \* the messages
          None    \* no message

VARIABLES
  chan,   \* chan[t]: the messages posted to t and not yet received
  cur     \* cur[t]: the message t is handling, or None

mvars == <<chan, cur>>

Init ==
  /\ chan = [t \in Task |-> <<>>]
  /\ cur = [t \in Task |-> None]

\* A message that is in no mailbox and that nobody handles is posted to t.
Post(t, m) ==
  /\ \A u \in Task : cur[u] # m /\ \A i \in DOMAIN chan[u] : chan[u][i] # m
  /\ chan' = [chan EXCEPT ![t] = Append(@, m)]
  /\ cur' = cur

\* t receives its oldest message.
Receive(t) ==
  /\ cur[t] = None
  /\ chan[t] # <<>>
  /\ cur' = [cur EXCEPT ![t] = Head(chan[t])]
  /\ chan' = [chan EXCEPT ![t] = Tail(@)]

\* t has handled its message.
Done(t) ==
  /\ cur[t] # None
  /\ cur' = [cur EXCEPT ![t] = None]
  /\ chan' = chan

Next ==
  \E t \in Task :
    \/ \E m \in Msg : Post(t, m)
    \/ Receive(t)
    \/ Done(t)

Spec == Init /\ [][Next]_mvars
=============================================================================
