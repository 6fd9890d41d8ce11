---------------------------- MODULE CloudProofs ----------------------------
(***************************************************************************)
(* For any number of events: a camera without a session will try again     *)
(* unless a late ON_CONNECTED took the retry, and a topic without a        *)
(* subscription will be asked for again.                                   *)
(*                                                                         *)
(* SubscribedOrRetried is inductive with the types.  RetryIsDue needs two  *)
(* facts about the restart: the object goes for good only when the process *)
(* is about to be killed, and an ON_CONNECTED that is under way has had an *)
(* object, so that what it takes away is either not needed (the thread of  *)
(* the object connects) or counted as orphaned.                            *)
(***************************************************************************)
EXTENDS Cloud, SequenceTheorems, TLAPS

In(m, t) == \E i \in 1..Len(m) : m[i].sig = t

\* The process is about to be killed when the object is released.
ReleasedToDie == In(mail, "RELEASE") \/ pc = "releasing" => dying

\* Without an object no ON_CONNECTED is under way.
ConnectedHadObject == conn = "none" => dying \/ ("CONNECTED" \notin timers /\ ~In(mail, "CONNECTED"))

Inv == TypeOK /\ RetryIsDue /\ SubscribedOrRetried /\ ReleasedToDie /\ ConnectedHadObject
-----------------------------------------------------------------------------
\* What is posted takes nothing away and is there afterwards.
LEMMA Posting ==
  ASSUME NEW m \in Seq(Signals), NEW e \in Signals
  PROVE  /\ Append(m, e) \in Seq(Signals)
         /\ \A t : In(Append(m, e), t) <=> In(m, t) \/ e.sig = t
<1>1. /\ Append(m, e) \in Seq(Signals) /\ Len(Append(m, e)) = Len(m) + 1
      /\ Append(m, e)[Len(m) + 1] = e
      /\ \A i \in 1..Len(m) : Append(m, e)[i] = m[i]
      /\ Len(m) \in Nat
  BY AppendProperties, LenProperties
<1> QED  BY <1>1 DEF In

\* Handling a message takes away that message only.
LEMMA Taking ==
  ASSUME NEW m \in Seq(Signals), m # <<>>
  PROVE  /\ Tail(m) \in Seq(Signals) /\ Head(m) \in Signals
         /\ \A t : In(m, t) <=> In(Tail(m), t) \/ Head(m).sig = t
<1>1. /\ Tail(m) \in Seq(Signals) /\ Head(m) \in Signals /\ Head(m) = m[1]
      /\ Len(Tail(m)) = Len(m) - 1 /\ Len(m) \in Nat \ {0}
      /\ \A i \in 1..Len(Tail(m)) : Tail(m)[i] = m[i + 1]
  BY HeadTailProperties, LenProperties, EmptySeq
<1>2. ASSUME NEW t, In(m, t), Head(m).sig # t PROVE In(Tail(m), t)
  <2>1. PICK i \in 1..Len(m) : m[i].sig = t
    BY <1>2 DEF In
  <2>2. i - 1 \in 1..Len(Tail(m)) /\ Tail(m)[i - 1] = m[i]
    BY <2>1, <1>1, <1>2
  <2> QED  BY <2>1, <2>2 DEF In
<1>3. ASSUME NEW t, In(Tail(m), t) PROVE In(m, t)
  BY <1>1, <1>3 DEF In
<1>4. ASSUME NEW t, Head(m).sig = t PROVE In(m, t)
  BY <1>1, <1>4 DEF In
<1> QED  BY <1>1, <1>2, <1>3, <1>4

\* The two, for a task that posts to itself in place of what it handles.
LEMMA Replacing ==
  ASSUME NEW m \in Seq(Signals), m # <<>>, NEW e \in Signals
  PROVE  /\ Append(Tail(m), e) \in Seq(Signals)
         /\ \A t : In(Append(Tail(m), e), t) <=> In(Tail(m), t) \/ e.sig = t
BY Taking, Posting

LEMMA SignalTypes ==
  /\ \A s \in Sigs : Sig(s) \in Signals /\ Sig(s).sig = s
  /\ \A t \in Topics : Msg("SUBSCRIBED", t) \in Signals /\ Msg("SUBSCRIBED", t).sig = "SUBSCRIBED"
BY DEF Sig, Msg, Signals, Sigs, Timeouts

LEMMA OnlyInit == /\ <<Sig("INIT")>> \in Seq(Signals)
                  /\ \A t : In(<<Sig("INIT")>>, t) <=> t = "INIT"
<1>1. Sig("INIT") \in Signals /\ Sig("INIT").sig = "INIT"
  BY SignalTypes DEF Sigs, Timeouts
<1>2. Len(<<Sig("INIT")>>) = 1 /\ <<Sig("INIT")>>[1] = Sig("INIT")
  OBVIOUS
<1> QED  BY <1>1, <1>2 DEF In
-----------------------------------------------------------------------------
\* The conjuncts of Inv, with the mailbox apart from the rest.
Types ==
  /\ net \in BOOLEAN /\ dying \in BOOLEAN /\ orphaned \in BOOLEAN /\ unwatched \in BOOLEAN
  /\ conn \in {"none", "failed", "connecting", "up", "stopped"}
  /\ pc \in {"idle", "replacing", "releasing"}
  /\ timers \subseteq Timeouts
  /\ pending \subseteq Topics /\ asked \subseteq Topics /\ subs \subseteq Topics
  /\ status \in {"none", "Connected", "Disconnected"} /\ forgotten \subseteq Topics
  /\ conn \notin {"up", "stopped"} => asked = {} /\ subs = {}
  /\ conn = "stopped" => pc # "idle"
  /\ conn \in {"none", "failed"} => pending = {}

Due ==
  \/ conn \in {"connecting", "up"} \/ pc # "idle" \/ "TRY" \in timers \/ orphaned \/ dying
  \/ In(mail, "INIT") \/ In(mail, "TRY") \/ In(mail, "DISCONNECTED") \/ In(mail, "SET_CONFIG")

Watched ==
  conn = "up" /\ pc = "idle" =>
    \A t \in Topics \ (subs \cup forgotten) :
      t \in pending /\ ("CHECK" \in timers \/ In(mail, "CHECK") \/ In(mail, "TRY") \/ unwatched)

LEMMA InvIs == Inv <=> /\ mail \in Seq(Signals)
                       /\ Types /\ Due /\ Watched /\ ReleasedToDie /\ ConnectedHadObject
BY DEF Inv, TypeOK, Types, RetryIsDue, Due, SubscribedOrRetried, Watched, Mailed, In

LEMMA InitInv == Init => Inv
<1> SUFFICES ASSUME Init PROVE Inv
  OBVIOUS
<1>1. mail \in Seq(Signals) /\ \A t : In(mail, t) <=> t = "INIT"
  BY OnlyInit DEF Init
<1>2. Types
  BY DEF Init, Types
<1>3. Due /\ Watched /\ ReleasedToDie /\ ConnectedHadObject
  BY <1>1 DEF Init, Due, Watched, ReleasedToDie, ConnectedHadObject
<1> QED  BY <1>1, <1>2, <1>3, InvIs

\* One step per action: what it does to the mailbox, then the types, then the rest.
LEMMA NextInv == Inv /\ [Next]_vars => Inv'
<1> SUFFICES ASSUME Inv, [Next]_vars PROVE Inv'
  OBVIOUS
<1> DEFINE Box == mail \in Seq(Signals)
           Rest == Due /\ Watched /\ ReleasedToDie /\ ConnectedHadObject
           Same == \A t : In(mail', t) <=> In(mail, t)
           Gets(s) == \A t : In(mail', t) <=> In(mail, t) \/ s = t
           Takes(s) == \A t : In(mail, t) <=> In(mail', t) \/ s = t
           Turns(s, r) == \E m : /\ \A t : In(mail, t) <=> In(m, t) \/ s = t
                                 /\ \A t : In(mail', t) <=> In(m, t) \/ r = t
<1>a. Box /\ Types /\ Rest
  BY InvIs
<1>b. ASSUME Box', Types', Rest' PROVE Inv'
  BY <1>b, InvIs, PTL
<1>c. UNCHANGED mail => Box' /\ Same
  BY <1>a
<1>d. \A e \in Signals : mail' = Append(mail, e) => Box' /\ Gets(e.sig)
  BY <1>a, Posting
<1>e. mail # <<>> /\ mail' = Tail(mail) => Box' /\ Takes(Head(mail).sig)
  BY <1>a, Taking
<1>f. \A e \in Signals : mail # <<>> /\ mail' = Append(Tail(mail), e) => Box' /\ Turns(Head(mail).sig, e.sig)
  <2>1. ASSUME NEW e \in Signals, mail # <<>>, mail' = Append(Tail(mail), e)
        PROVE  Box' /\ Turns(Head(mail).sig, e.sig)
    <3>1. \A t : In(mail, t) <=> In(Tail(mail), t) \/ Head(mail).sig = t
      BY <2>1, <1>a, Taking
    <3>2. Box' /\ \A t : In(mail', t) <=> In(Tail(mail), t) \/ e.sig = t
      BY <2>1, <1>a, Replacing
    <3> QED  BY <3>1, <3>2
  <2> QED  BY <2>1
<1>g. \A s \in Sigs : Sig(s) \in Signals /\ Sig(s).sig = s
  BY SignalTypes
<1> HIDE DEF Box, Rest, Same, Gets, Takes, Turns
<1>1. CASE OnConnect
  <2>1. Box' /\ Same
    BY <1>1, <1>c DEF OnConnect
  <2>2. Types'
    BY <1>1, <1>a DEF OnConnect, Types, client, SessionEnds, Topics, Timeouts
  <2>3. Rest'
    BY <1>1, <2>1, <1>a DEF OnConnect, Same, Types, client, SessionEnds, Rest, Due, Watched, ReleasedToDie, ConnectedHadObject
  <2> QED  BY <2>1, <2>2, <2>3, <1>b
<1>2. CASE OnRefused
  <2>1. Box' /\ Gets("DISCONNECTED")
    BY <1>2, <1>d, <1>g DEF OnRefused, Bounded, Post, Sigs, Timeouts
  <2>2. Types'
    BY <1>2, <1>a DEF OnRefused, Bounded, Types, client, SessionEnds, Topics, Timeouts
  <2>3. Rest'
    BY <1>2, <2>1, <1>a DEF OnRefused, Bounded, Gets, Types, client, SessionEnds, Rest, Due, Watched, ReleasedToDie, ConnectedHadObject
  <2> QED  BY <2>1, <2>2, <2>3, <1>b
<1>3. CASE OnLost
  <2>1. Box' /\ Gets("DISCONNECTED")
    BY <1>3, <1>d, <1>g DEF OnLost, Bounded, Post, Sigs, Timeouts
  <2>2. Types'
    BY <1>3, <1>a DEF OnLost, Bounded, Types, client, SessionEnds, Topics, Timeouts
  <2>3. Rest'
    BY <1>3, <2>1, <1>a DEF OnLost, Bounded, Gets, Types, client, SessionEnds, Rest, Due, Watched, ReleasedToDie, ConnectedHadObject
  <2> QED  BY <2>1, <2>2, <2>3, <1>b
<1>4. CASE OnOwnDisconnect
  <2>1. Box' /\ Gets("DISCONNECTED")
    BY <1>4, <1>d, <1>g DEF OnOwnDisconnect, Bounded, Post, Sigs, Timeouts
  <2>2. Types'
    BY <1>4, <1>a DEF OnOwnDisconnect, Bounded, Types, client, SessionEnds, Topics, Timeouts
  <2>3. Rest'
    BY <1>4, <2>1, <1>a DEF OnOwnDisconnect, Bounded, Gets, Types, client, SessionEnds, Rest, Due, Watched, ReleasedToDie, ConnectedHadObject
  <2> QED  BY <2>1, <2>2, <2>3, <1>b
<1>5. ASSUME NEW t \in Topics, OnSubscribe(t) PROVE Inv'
  <2>1. Box' /\ Gets("SUBSCRIBED")
    BY <1>5, <1>d, SignalTypes DEF OnSubscribe
  <2>2. Types'
    BY <1>5, <1>a DEF OnSubscribe, Types
  <2>3. Rest'
    BY <1>5, <2>1, <1>a DEF OnSubscribe, Gets, Types, Rest, Due, Watched, ReleasedToDie, ConnectedHadObject
  <2> QED  BY <2>1, <2>2, <2>3, <1>b
<1>6. ASSUME NEW t \in Topics, Unanswered(t) PROVE Inv'
  <2>1. Box' /\ Same
    BY <1>6, <1>c DEF Unanswered, Bounded
  <2>2. Types'
    BY <1>6, <1>a DEF Unanswered, Bounded, Types, client, SessionEnds, Topics, Timeouts
  <2>3. Rest'
    BY <1>6, <2>1, <1>a DEF Unanswered, Bounded, Same, Types, client, SessionEnds, Rest, Due, Watched, ReleasedToDie, ConnectedHadObject
  <2> QED  BY <2>1, <2>2, <2>3, <1>b
<1>7. CASE NetChanges
  <2>1. Box' /\ Same
    BY <1>7, <1>c DEF NetChanges, Bounded
  <2>2. Types'
    BY <1>7, <1>a DEF NetChanges, Bounded, Types, client, SessionEnds, Topics, Timeouts
  <2>3. Rest'
    BY <1>7, <2>1, <1>a DEF NetChanges, Bounded, Same, Types, client, SessionEnds, Rest, Due, Watched, ReleasedToDie, ConnectedHadObject
  <2> QED  BY <2>1, <2>2, <2>3, <1>b
<1>8. CASE TryRequested
  <2>1. Box' /\ (Gets("SET_CONFIG") \/ Gets("TRY"))
    BY <1>8, <1>d, <1>g DEF TryRequested, Post, Sigs, Timeouts
  <2>2. Types'
    BY <1>8, <1>a DEF TryRequested, Bounded, Types, client
  <2>3. Rest'
    BY <1>8, <2>1, <1>a DEF TryRequested, Gets, Types, client, Rest, Due, Watched, ReleasedToDie, ConnectedHadObject
  <2> QED  BY <2>1, <2>2, <2>3, <1>b
<1>9. CASE RebootRequested
  <2>1. Box' /\ Gets("RELEASE")
    BY <1>9, <1>d, <1>g DEF RebootRequested, Bounded, Post, Sigs, Timeouts
  <2>2. Types'
    BY <1>9, <1>a DEF RebootRequested, Bounded, Types, client, SessionEnds, Topics, Timeouts
  <2>3. Rest'
    BY <1>9, <2>1, <1>a DEF RebootRequested, Bounded, Gets, Types, client, SessionEnds, Rest, Due, Watched, ReleasedToDie, ConnectedHadObject
  <2> QED  BY <2>1, <2>2, <2>3, <1>b
<1>10. CASE Restart
  <2>1. Box' /\ \A t : In(mail', t) <=> t = "INIT"
    BY <1>10, OnlyInit DEF Restart, Box
  <2>2. Types'
    BY <1>10, <1>a DEF Restart, Types, SessionEnds
  <2>3. Rest'
    BY <1>10, <2>1, <1>a DEF Restart, Types, Rest, Due, Watched, ReleasedToDie, ConnectedHadObject
  <2> QED  BY <2>1, <2>2, <2>3, <1>b
<1>11. ASSUME NEW t \in Timeouts, TimerFires(t) PROVE Inv'
  <2>1. Box' /\ Gets(t)
    BY <1>11, <1>d, <1>g DEF TimerFires, Post, Sigs
  <2>2. Types'
    BY <1>11, <1>a DEF TimerFires, Types, client
  <2>3. Rest'
    BY <1>11, <2>1, <1>a DEF TimerFires, Gets, Types, client, Timeouts, Rest, Due, Watched, ReleasedToDie, ConnectedHadObject
  <2> QED  BY <2>1, <2>2, <2>3, <1>b
<1>12. CASE HandleToTry
  <2>1. PICK s \in {"INIT", "DISCONNECTED", "SET_CONFIG"} : Received(s)
    BY <1>12 DEF HandleToTry
  <2>2. Box' /\ Turns(s, "TRY")
    BY <1>12, <2>1, <1>f, <1>g DEF HandleToTry, Received, Instead, Sigs, Timeouts
  <2>3. Types'
    BY <1>12, <1>a DEF HandleToTry, Types, client
  <2>4. Rest'
    BY <1>12, <2>2, <1>a DEF HandleToTry, Turns, Types, client, Rest, Due, Watched, ReleasedToDie, ConnectedHadObject
  <2> QED  BY <2>2, <2>3, <2>4, <1>b
<1>13. CASE TryConnect
  <2>1. Box' /\ Takes("TRY")
    BY <1>13, <1>e DEF TryConnect, Received
  <2>2. Types'
    BY <1>13, <1>a DEF TryConnect, Types, client, SessionEnds, Topics, Timeouts
  <2>3. Rest'
    BY <1>13, <2>1, <1>a DEF TryConnect, Takes, Types, client, SessionEnds, Rest, Due, Watched, ReleasedToDie, ConnectedHadObject
  <2> QED  BY <2>1, <2>2, <2>3, <1>b
<1>14. CASE NewClient
  <2>1. Box' /\ Same
    BY <1>14, <1>c DEF NewClient
  <2>2. Types'
    BY <1>14, <1>a DEF NewClient, Types, client, SessionEnds, Topics, Timeouts
  <2>3. Rest'
    BY <1>14, <2>1, <1>a DEF NewClient, Same, Types, client, SessionEnds, Rest, Due, Watched, ReleasedToDie, ConnectedHadObject
  <2> QED  BY <2>1, <2>2, <2>3, <1>b
<1>15. CASE HandleConnected
  <2>1. Box' /\ Turns("CONNECTED", "GEN_STATUS")
    BY <1>15, <1>f, <1>g DEF HandleConnected, Received, Instead, Sigs, Timeouts
  <2>2. Types'
    BY <1>15, <1>a DEF HandleConnected, Types, client, SessionEnds, Topics, Timeouts
  <2>3. Rest'
    BY <1>15, <2>1, <1>a DEF HandleConnected, Turns, Types, client, SessionEnds, Rest, Due, Watched, ReleasedToDie, ConnectedHadObject
  <2> QED  BY <2>1, <2>2, <2>3, <1>b
<1>16. CASE GenStatus
  <2>1. Box' /\ (Turns("GEN_STATUS", "STATUS") \/ Takes("GEN_STATUS"))
    BY <1>16, <1>e, <1>f, <1>g DEF GenStatus, Received, Instead, Sigs, Timeouts
  <2>2. Types'
    BY <1>16, <1>a DEF GenStatus, Types, client
  <2>3. Rest'
    BY <1>16, <2>1, <1>a DEF GenStatus, Takes, Turns, Types, client, Rest, Due, Watched, ReleasedToDie, ConnectedHadObject
  <2> QED  BY <2>1, <2>2, <2>3, <1>b
<1>17. CASE PublishStatus
  <2>1. Box' /\ Takes("STATUS")
    BY <1>17, <1>e DEF PublishStatus, Received
  <2>2. Types'
    BY <1>17, <1>a DEF PublishStatus, Types, client, SessionEnds, Topics, Timeouts
  <2>3. Rest'
    BY <1>17, <2>1, <1>a DEF PublishStatus, Takes, Types, client, SessionEnds, Rest, Due, Watched, ReleasedToDie, ConnectedHadObject
  <2> QED  BY <2>1, <2>2, <2>3, <1>b
<1>18. CASE HandleSubscribed
  <2>1. Box' /\ Takes("SUBSCRIBED")
    BY <1>18, <1>e DEF HandleSubscribed, Received
  <2>2. Types'
    BY <1>18, <1>a DEF HandleSubscribed, Types, client, SessionEnds, Topics, Timeouts
  <2>3. Rest'
    BY <1>18, <2>1, <1>a DEF HandleSubscribed, Takes, Types, client, SessionEnds, Rest, Due, Watched, ReleasedToDie, ConnectedHadObject
  <2> QED  BY <2>1, <2>2, <2>3, <1>b
<1>19. CASE CheckTopics
  <2>1. Box' /\ Takes("CHECK")
    BY <1>19, <1>e DEF CheckTopics, Received
  <2>2. Types'
    BY <1>19, <1>a DEF CheckTopics, Types, client, SessionEnds, Topics, Timeouts
  <2>3. Rest'
    BY <1>19, <2>1, <1>a DEF CheckTopics, Takes, Types, client, SessionEnds, Rest, Due, Watched, ReleasedToDie, ConnectedHadObject
  <2> QED  BY <2>1, <2>2, <2>3, <1>b
<1>20. CASE Release
  <2>1. Box' /\ Takes("RELEASE")
    BY <1>20, <1>e DEF Release, Received
  <2>2. Types'
    BY <1>20, <1>a DEF Release, Types, client, SessionEnds, Topics, Timeouts
  <2>3. Rest'
    BY <1>20, <2>1, <1>a DEF Release, Takes, Types, client, SessionEnds, Rest, Due, Watched, ReleasedToDie, ConnectedHadObject
  <2> QED  BY <2>1, <2>2, <2>3, <1>b
<1>21. CASE Released
  <2>1. Box' /\ Same
    BY <1>21, <1>c DEF Released
  <2>2. Types'
    BY <1>21, <1>a DEF Released, Types, client, SessionEnds, Topics, Timeouts
  <2>3. Rest'
    BY <1>21, <2>1, <1>a DEF Released, Same, Types, client, SessionEnds, Rest, Due, Watched, ReleasedToDie, ConnectedHadObject
  <2> QED  BY <2>1, <2>2, <2>3, <1>b
<1>22. CASE UNCHANGED vars
  <2>1. Box' /\ Same
    BY <1>22, <1>c DEF vars
  <2>2. Types'
    BY <1>22, <1>a DEF vars, Types, client, SessionEnds, Topics, Timeouts
  <2>3. Rest'
    BY <1>22, <2>1, <1>a DEF vars, Same, Types, client, SessionEnds, Rest, Due, Watched, ReleasedToDie, ConnectedHadObject
  <2> QED  BY <2>1, <2>2, <2>3, <1>b
<1> QED
  BY <1>1, <1>2, <1>3, <1>4, <1>5, <1>6, <1>7, <1>8, <1>9, <1>10, <1>11, <1>12, <1>13,
     <1>14, <1>15, <1>16, <1>17, <1>18, <1>19, <1>20, <1>21, <1>22 DEF Next, Task

\* Type correctness; with it, no subscription is at the server without a session, and
\* a stopped object never stays.
THEOREM CloudTypes == Spec => []TypeOK
<1>1. Spec => []Inv
  BY InitInv, NextInv, PTL DEF Spec
<1>2. Inv => TypeOK
  BY DEF Inv
<1> QED  BY <1>1, <1>2, PTL

\* For any number of events, another attempt to connect stays due.
THEOREM RetryTheorem == Spec => []RetryIsDue
<1>1. Spec => []Inv
  BY InitInv, NextInv, PTL DEF Spec
<1>2. Inv => RetryIsDue
  BY DEF Inv
<1> QED  BY <1>1, <1>2, PTL

\* For any number of events, the topics of a session are subscribed to or asked for again.
THEOREM SubscriptionTheorem == Spec => []SubscribedOrRetried
<1>1. Spec => []Inv
  BY InitInv, NextInv, PTL DEF Spec
<1>2. Inv => SubscribedOrRetried
  BY DEF Inv
<1> QED  BY <1>1, <1>2, PTL
=============================================================================
