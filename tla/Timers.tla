------------------------------- MODULE Timers -------------------------------
(***************************************************************************)
(* What ak/timer.cpp promises to the tasks: one timer per key, a key being *)
(* a task together with a signal.  Time advances in passes; a pass counts  *)
(* every timer that was armed when it began down once, in any order, posts *)
(* those that expire, re-arms the periodic ones and forgets the others.    *)
(* Nothing is said of the linked list, of the lock or of handler threads.  *)
(***************************************************************************)
EXTENDS Integers, Sequences

CONSTANTS Key,      \* (des_task_id, sig)
          Duty,     \* the durations a caller may ask for
          Unit,     \* AK_TIMER_UNIT
          None      \* no timer

VARIABLES
  armed,   \* armed[k]: the timer of k, or None
  pass,    \* the keys the current pass has still to count down
  mail     \* the timeouts posted and not yet received

tvars == <<armed, pass, mail>>

Init ==
  /\ armed = [k \in Key |-> None]
  /\ pass = {}
  /\ mail = <<>>

\* timer_set between two passes: a timer that exists keeps its type and period.
Set(k, duty, periodic) ==
  /\ pass = {}
  /\ armed' = [armed EXCEPT ![k] =
                 IF @ = None
                   THEN [period |-> IF periodic THEN duty ELSE 0, counter |-> duty]
                   ELSE [@ EXCEPT !.counter = duty]]
  /\ UNCHANGED <<pass, mail>>

Remove(k) ==
  /\ pass = {}
  /\ armed' = [armed EXCEPT ![k] = None]
  /\ UNCHANGED <<pass, mail>>

BeginPass ==
  /\ pass = {}
  /\ pass' = {k \in Key : armed[k] # None}
  /\ UNCHANGED <<armed, mail>>

CountDown(k) ==
  /\ k \in pass
  /\ pass' = pass \ {k}
  /\ LET t == [armed[k] EXCEPT !.counter = @ - Unit]
     IN IF t.counter > 0
          THEN /\ armed' = [armed EXCEPT ![k] = t]
               /\ mail' = mail
          ELSE /\ armed' = [armed EXCEPT ![k] =
                              IF t.period # 0 THEN [t EXCEPT !.counter = t.period] ELSE None]
               /\ mail' = Append(mail, k)

\* A task receives the oldest timeout.
Receive ==
  /\ mail # <<>>
  /\ mail' = Tail(mail)
  /\ UNCHANGED <<armed, pass>>

Next ==
  \/ BeginPass
  \/ Receive
  \/ \E k \in Key : CountDown(k) \/ Remove(k)
  \/ \E k \in Key, d \in Duty, p \in BOOLEAN : Set(k, d, p)

Spec == Init /\ [][Next]_tvars
=============================================================================
