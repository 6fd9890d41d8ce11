---------------------------- MODULE WebRtcProofs ----------------------------
(***************************************************************************)
(* task_webrtc, for any apps and any number of calls.                      *)
(*                                                                         *)
(* The clients (WebRtc): the playback thread of a client does not outlive  *)
(* it.  PlaybackHasClient is inductive with the types.  The types say also *)
(* that a message of an app names one of the apps, so that no other id     *)
(* gets into the map, and that only a client in the map, or the one whose  *)
(* thread is being joined, has a connection.                               *)
(*                                                                         *)
(* The speaker they share (PushToTalk): whoever holds it has a             *)
(* release to come.  TalkIsReleased is inductive together with the types:  *)
(* only Begin makes a holder, and sets the timer; the timer goes only when *)
(* its message comes, and the message goes only when the holder does.  A   *)
(* release that was posted for an app is the first one of the mailbox, and *)
(* meets it still speaking (ForHolder).                                    *)
(***************************************************************************)
EXTENDS WebRtc, PushToTalk, SequenceTheorems, TLAPS

Inv == TypeOK /\ PlaybackHasClient

\* The types without the mailbox.
Types ==
  /\ clients \subseteq Ids /\ peer \in [Ids -> Peers]
  /\ \A id \in Ids \ (clients \cup {joins}) : peer[id] = Gone
  /\ total \in Nat /\ maximum \in Maxima
  /\ dispatched \in [Ids -> Nat]
  /\ player \in [Ids -> {"none", "test", "waits", "sending", "ended"}]
  /\ mLoop \in [Ids -> BOOLEAN] /\ joins \in Ids \cup {NoId}

LEMMA InvIs == Inv <=> mail \in Seq(Messages) /\ Types /\ PlaybackHasClient
BY DEF Inv, TypeOK, Types

\* What a step may do to the mailbox keeps its type.
LEMMA MailTypes ==
  ASSUME NEW m \in Seq(Messages)
  PROVE  /\ \A e \in Messages : Append(m, e) \in Seq(Messages)
         /\ m # <<>> => /\ Head(m) \in Messages /\ Tail(m) \in Seq(Messages)
                        /\ \A e \in Messages : Append(Tail(m), e) \in Seq(Messages)
<1>1. m # <<>> => Head(m) \in Messages /\ Tail(m) \in Seq(Messages)
  BY HeadTailProperties
<1> QED  BY <1>1, AppendProperties

LEMMA MessageTypes ==
  /\ \A id \in Ids, name \in {"REQUEST", "WS_REQUEST", "ANSWER", "CHECK", "DISCONNECT", "PLAY", "STOP"} :
       Msg(name, id) \in Messages
  /\ \A id \in Ids, exact \in BOOLEAN : Erase(id, exact) \in Messages
  /\ \A n \in Maxima : SetMax(n) \in Messages
BY DEF Msg, Erase, SetMax, Messages

\* The message that an app is named in.
LEMMA NamedApp ==
  ASSUME NEW m \in Messages
  PROVE  IF m.sig = "SET_MAX" THEN m.arg \in Maxima ELSE m.id \in Ids
BY DEF Messages

LEMMA PeerTypes == Gone \in Peers /\ \A ws \in BOOLEAN : New(ws) \in Peers
BY DEF Gone, New, Peers

LEMMA InitInv == Init => Inv
<1> SUFFICES ASSUME Init PROVE Inv
  OBVIOUS
<1>1. mail \in Seq(Messages)
  BY EmptySeq DEF Init
<1>2. Types
  BY PeerTypes, WebRtcAssumption, AppsAssumption DEF Init, Types
<1>3. PlaybackHasClient
  BY DEF Init, PlaybackHasClient
<1> QED  BY <1>1, <1>2, <1>3, InvIs
-----------------------------------------------------------------------------
\* Stopping the playback of a client that is in the map.
LEMMA StopKeeps ==
  ASSUME Types, PlaybackHasClient, joins = NoId, NEW id \in clients, Stop(id)
  PROVE  /\ player' \in [Ids -> {"none", "test", "waits", "sending", "ended"}]
         /\ mLoop' \in [Ids -> BOOLEAN] /\ joins' \in {NoId, id}
         /\ joins' = id <=> player[id] # "none"
         /\ \A i \in Ids : player'[i] # "none" => i \in clients /\ (mLoop'[i] <=> i # joins')
BY WebRtcAssumption, AppsAssumption DEF Types, PlaybackHasClient, Stop

LEMMA ClosesTypes ==
  ASSUME Types, NEW id \in Ids, Closes(id)
  PROVE  /\ peer' \in [Ids -> Peers] /\ dispatched' \in [Ids -> Nat]
         /\ peer'[id] = Gone /\ \A i \in Ids \ {id} : peer'[i] = peer[i]
BY PeerTypes DEF Types, Closes

\* One step per action.
LEMMA NextInv == Inv /\ [Next]_vars => Inv'
<1> SUFFICES ASSUME Inv, [Next]_vars PROVE Inv'
  OBVIOUS
<1>a. mail \in Seq(Messages) /\ Types /\ PlaybackHasClient
  BY InvIs
<1>b. ASSUME (mail \in Seq(Messages))', Types', PlaybackHasClient' PROVE Inv'
  BY <1>b, InvIs, PTL
<1>c. \A name : Received(name) => /\ joins = NoId /\ mail # <<>> /\ Head(mail).sig = name
                                  /\ Head(mail) \in Messages /\ Tail(mail) \in Seq(Messages)
                                  /\ name # "SET_MAX" => Id \in Ids
  BY <1>a, MailTypes, NamedApp DEF Received, Id
<1>d. ASSUME UNCHANGED <<clients, playing>> PROVE PlaybackHasClient'
  BY <1>a, <1>d DEF PlaybackHasClient, playing
<1>1. CASE Signal
  <2>1. UNCHANGED <<clients, peer, total, maximum, dispatched, playing>>
    BY <1>1 DEF Signal, Post
  <2>2. mail' \in Seq(Messages)
    BY <1>1, <1>a, MailTypes, MessageTypes DEF Signal, Post
  <2>3. Types'
    BY <2>1, <1>a DEF Types, playing
  <2> QED  BY <2>1, <2>2, <2>3, <1>b, <1>d
<1>2. CASE Command
  <2>1. PICK id \in clients : UNCHANGED <<clients, peer, total, maximum, dispatched, playing>> /\ 
          (\E name \in {"DISCONNECT", "PLAY", "STOP"} : mail' = Append(mail, Msg(name, id)))
    BY <1>2 DEF Command, Post
  <2>2. mail' \in Seq(Messages)
    BY <2>1, <1>a, MailTypes, MessageTypes DEF Types
  <2>3. Types'
    BY <2>1, <1>a DEF Types, playing
  <2> QED  BY <2>1, <2>2, <2>3, <1>b, <1>d
<1>3. ASSUME NEW id \in Ids, StateChange(id) PROVE Inv'
  <2>1. UNCHANGED <<clients, total, maximum, mail, playing>> /\ id \in clients \cup {joins}
        /\ dispatched' = [dispatched EXCEPT ![id] = @ + 1]
    BY <1>3 DEF StateChange
  <2>2. PICK s \in {"disconnected", "failed", "closed"} :
          peer' = [peer EXCEPT ![id].state = s, ![id].open = @ /\ s = "disconnected"]
    BY <1>3 DEF StateChange
  <2>3. peer[id] \in Peers
    BY <1>a DEF Types
  <2>4. [peer[id] EXCEPT !.state = s, !.open = @ /\ s = "disconnected"] \in Peers
    BY <2>3 DEF Peers
  <2>5. peer' \in [Ids -> Peers] /\ \A i \in Ids \ {id} : peer'[i] = peer[i]
    BY <2>2, <2>4, <1>a DEF Types
  <2>6. Types'
    BY <2>1, <2>5, <1>a DEF Types, playing
  <2> QED  BY <2>1, <2>6, <1>a, <1>b, <1>d
<1>4. ASSUME NEW id \in Ids, ChannelOpens(id) PROVE Inv'
  <2>e. id \in clients /\ peer[id] \in Peers /\ UNCHANGED <<clients, maximum, dispatched, playing>>
    BY <1>4, <1>a DEF ChannelOpens, Types
  <2>f. total' \in {total, total + 1}
    BY <1>4 DEF ChannelOpens
  <2>a. id \in clients /\ peer[id] \in Peers /\ total' \in Nat
        /\ UNCHANGED <<clients, maximum, dispatched, playing>>
    BY <2>e, <2>f, <1>a DEF Types
  <2>b. /\ [peer[id] EXCEPT !.open = TRUE] \in Peers
        /\ [peer[id] EXCEPT !.open = TRUE, !.timer = FALSE] \in Peers
    BY <2>a DEF Peers
  <2>c. \/ peer' = [peer EXCEPT ![id].open = TRUE]
        \/ peer' = [peer EXCEPT ![id].open = TRUE, ![id].timer = FALSE]
    BY <1>4 DEF ChannelOpens
  <2>d. peer' \in [Ids -> Peers] /\ \A i \in Ids \ {id} : peer'[i] = peer[i]
    BY <2>b, <2>c, <1>a DEF Types
  <2>1. Types'
    BY <2>a, <2>d, <1>a DEF Types, playing
  <2>2. mail' \in Seq(Messages)
    BY <1>4, <1>a, MailTypes, MessageTypes DEF ChannelOpens
  <2> QED  BY <1>4, <2>1, <2>2, <1>b, <1>d DEF ChannelOpens
<1>5. ASSUME NEW id \in Ids, Worker(id) PROVE Inv'
  <2>1. Types'
    BY <1>5, <1>a DEF Worker, Types, playing
  <2>2. mail' \in Seq(Messages)
    BY <1>5, <1>a, MailTypes, MessageTypes DEF Worker
  <2> QED  BY <1>5, <2>1, <2>2, <1>b, <1>d DEF Worker
<1>6. ASSUME NEW id \in Ids, ConnectTimeout(id) PROVE Inv'
  <2>1. Types'
    BY <1>6, <1>a DEF ConnectTimeout, Types, playing, Peers
  <2>2. mail' \in Seq(Messages)
    BY <1>6, <1>a, MailTypes, MessageTypes DEF ConnectTimeout
  <2> QED  BY <1>6, <2>1, <2>2, <1>b, <1>d DEF ConnectTimeout
<1>7. ASSUME NEW id \in Ids, Player(id) PROVE Inv'
  <2>1. PICK from \in {"test", "waits", "sending"}, to \in {"test", "waits", "sending", "ended"} :
          Goes(id, from, to)
    BY <1>7 DEF Player
  <2>2. Types'
    BY <2>1, <1>a DEF Goes, Types
  <2>3. PlaybackHasClient'
    BY <2>1, <1>a DEF Goes, Types, PlaybackHasClient
  <2> QED  BY <2>1, <2>2, <2>3, <1>a, <1>b DEF Goes
<1>8. CASE HandleRequest
  <2>1. joins = NoId /\ Id \in Ids /\ mail' = Tail(mail) /\ Tail(mail) \in Seq(Messages)
    BY <1>8, <1>c DEF HandleRequest
  <2>2. Types'
    BY <1>8, <2>1, <1>a, PeerTypes DEF HandleRequest, Types, playing
  <2>3. PlaybackHasClient'
    BY <1>8, <2>1, <1>a DEF HandleRequest, PlaybackHasClient, playing
  <2> QED  BY <2>1, <2>2, <2>3, <1>b
<1>9. CASE HandleWsRequest
  <2>1. joins = NoId /\ Id \in Ids /\ mail' = Tail(mail) /\ Tail(mail) \in Seq(Messages)
    BY <1>9, <1>c DEF HandleWsRequest
  <2>a. UNCHANGED <<total, maximum, playing>> /\ clients \subseteq clients' /\ clients' \subseteq Ids
    BY <1>9, <2>1, <1>a DEF HandleWsRequest, Types
  <2>b. peer' \in [Ids -> Peers] /\ \A i \in Ids \ clients' : peer'[i] = peer[i]
    BY <1>9, <2>1, <1>a, PeerTypes DEF HandleWsRequest, Types
  <2>e. dispatched' = dispatched \/ dispatched' = [dispatched EXCEPT ![Id] = @ + 1]
    BY <1>9 DEF HandleWsRequest
  <2>c. dispatched' \in [Ids -> Nat]
    BY <2>e, <2>1, <1>a DEF Types
  <2>2. Types'
    BY <2>a, <2>b, <2>c, <1>a DEF Types, playing
  <2>3. PlaybackHasClient'
    BY <1>9, <2>1, <1>a DEF HandleWsRequest, PlaybackHasClient, playing
  <2> QED  BY <2>1, <2>2, <2>3, <1>b
<1>10. CASE HandleAnswer
  <2>1. Id \in Ids /\ mail' = Tail(mail) /\ Tail(mail) \in Seq(Messages)
    BY <1>10, <1>c DEF HandleAnswer
  <2>2. Types'
    BY <1>10, <2>1, <1>a DEF HandleAnswer, Types, playing, Peers
  <2> QED  BY <1>10, <2>1, <2>2, <1>b, <1>d DEF HandleAnswer
<1>11. CASE HandleSetMax
  <2>1. Head(mail).arg \in Maxima /\ mail' = Tail(mail) /\ Tail(mail) \in Seq(Messages)
    BY <1>11, <1>c, NamedApp DEF HandleSetMax
  <2>2. Types'
    BY <1>11, <2>1, <1>a DEF HandleSetMax, Types, playing
  <2> QED  BY <1>11, <2>1, <2>2, <1>b, <1>d DEF HandleSetMax
<1>12. CASE HandleCheck
  <2>1. Id \in Ids /\ mail # <<>>
    BY <1>12, <1>c DEF HandleCheck
  <2>2. mail' \in Seq(Messages)
    BY <1>12, <2>1, <1>a, MailTypes, MessageTypes DEF HandleCheck
  <2>3. Types'
    BY <1>12, <1>a DEF HandleCheck, Types, playing
  <2> QED  BY <1>12, <2>2, <2>3, <1>b, <1>d DEF HandleCheck
<1>13. CASE HandleErase
  <2>1. joins = NoId /\ Id \in Ids /\ mail' = Tail(mail) /\ Tail(mail) \in Seq(Messages)
        /\ UNCHANGED <<total, maximum>>
    BY <1>13, <1>c DEF HandleErase
  <2>2. CASE Id \in clients /\ Head(mail).arg = 0
    <3>1. clients' = clients \ {Id} /\ Stop(Id)
          /\ IF player[Id] = "none" THEN Closes(Id) ELSE UNCHANGED <<peer, dispatched>>
      BY <1>13, <2>2 DEF HandleErase, Erased
    <3>2. /\ player' \in [Ids -> {"none", "test", "waits", "sending", "ended"}]
          /\ mLoop' \in [Ids -> BOOLEAN] /\ joins' \in {NoId, Id}
          /\ joins' = Id <=> player[Id] # "none"
          /\ \A i \in Ids : player'[i] # "none" => i \in clients /\ (mLoop'[i] <=> i # joins')
      BY <3>1, <2>1, <2>2, <1>a, StopKeeps
    <3>3. player' = player
      BY <3>1 DEF Stop
    <3>4. /\ peer' \in [Ids -> Peers] /\ dispatched' \in [Ids -> Nat]
          /\ player[Id] = "none" => peer'[Id] = Gone
          /\ \A i \in Ids \ {Id} : peer'[i] = peer[i]
      <4>1. CASE player[Id] = "none"
        BY <4>1, <3>1, <2>1, <1>a, ClosesTypes
      <4>2. CASE player[Id] # "none"
        BY <4>2, <3>1, <1>a DEF Types
      <4> QED  BY <4>1, <4>2
    <3>5. \A i \in Ids \ (clients' \cup {joins'}) : peer'[i] = Gone
      BY <3>1, <3>2, <3>4, <2>1, <1>a, WebRtcAssumption, AppsAssumption DEF Types
    <3>6. Types'
      BY <3>1, <3>2, <3>4, <3>5, <2>1, <1>a DEF Types
    <3>7. PlaybackHasClient'
      BY <3>1, <3>2, <3>3 DEF PlaybackHasClient
    <3> QED  BY <3>6, <3>7, <2>1, <1>b
  <2>3. CASE ~(Id \in clients /\ Head(mail).arg = 0)
    <3>1. UNCHANGED <<clients, peer, dispatched, playing>>
      BY <1>13, <2>3 DEF HandleErase
    <3>2. Types'
      BY <3>1, <2>1, <1>a DEF Types, playing
    <3> QED  BY <3>1, <3>2, <2>1, <1>b, <1>d
  <2> QED  BY <2>2, <2>3
<1>14. CASE HandleDisconnect
  <2>1. Id \in Ids /\ mail # <<>>
    BY <1>14, <1>c DEF HandleDisconnect
  <2>2. mail' \in Seq(Messages)
    BY <1>14, <2>1, <1>a, MailTypes, MessageTypes DEF HandleDisconnect
  <2>3. Types'
    BY <1>14, <1>a DEF HandleDisconnect, Types, playing
  <2> QED  BY <1>14, <2>2, <2>3, <1>b, <1>d DEF HandleDisconnect
<1>15. CASE HandlePlay
  <2>1. joins = NoId /\ Id \in Ids /\ mail' = Tail(mail) /\ Tail(mail) \in Seq(Messages)
    BY <1>15, <1>c DEF HandlePlay
  <2>2. Types'
    BY <1>15, <1>a DEF HandlePlay, Types
  <2>3. PlaybackHasClient'
    BY <1>15, <2>1, <1>a, WebRtcAssumption, AppsAssumption DEF HandlePlay, Types, PlaybackHasClient
  <2> QED  BY <2>1, <2>2, <2>3, <1>b
<1>16. CASE HandleStop
  <2>1. joins = NoId /\ mail' = Tail(mail) /\ Tail(mail) \in Seq(Messages)
        /\ UNCHANGED <<clients, peer, total, maximum, dispatched>>
    BY <1>16, <1>c DEF HandleStop
  <2>2. CASE Id \in clients
    <3>1. Stop(Id)
      BY <1>16, <2>2 DEF HandleStop
    <3>2. /\ player' \in [Ids -> {"none", "test", "waits", "sending", "ended"}]
          /\ mLoop' \in [Ids -> BOOLEAN] /\ joins' \in {NoId, Id}
          /\ \A i \in Ids : player'[i] # "none" => i \in clients /\ (mLoop'[i] <=> i # joins')
      BY <3>1, <2>1, <2>2, <1>a, StopKeeps
    <3>3. Types'
      BY <3>2, <2>1, <2>2, <1>a, WebRtcAssumption, AppsAssumption DEF Types
    <3>4. PlaybackHasClient'
      BY <3>2, <2>1 DEF PlaybackHasClient
    <3> QED  BY <3>3, <3>4, <2>1, <1>b
  <2>3. CASE Id \notin clients
    <3>1. UNCHANGED playing
      BY <1>16, <2>3 DEF HandleStop
    <3>2. Types'
      BY <3>1, <2>1, <1>a DEF Types, playing
    <3> QED  BY <3>1, <3>2, <2>1, <1>b, <1>d
  <2> QED  BY <2>2, <2>3
<1>17. CASE Joined
  <2>1. joins \in Ids /\ joins' = NoId /\ player' = [player EXCEPT ![joins] = "none"]
        /\ UNCHANGED <<clients, total, maximum, mail, mLoop>>
    BY <1>17, <1>a DEF Joined, Types
  <2>2. /\ peer' \in [Ids -> Peers] /\ dispatched' \in [Ids -> Nat]
        /\ joins \notin clients => peer'[joins] = Gone
        /\ \A i \in Ids \ {joins} : peer'[i] = peer[i]
    <3>1. CASE joins \notin clients
      <4>1. Closes(joins)
        BY <1>17, <3>1 DEF Joined, Erasing
      <4> QED  BY <4>1, <2>1, <1>a, ClosesTypes
    <3>2. CASE joins \in clients
      BY <1>17, <3>2, <1>a DEF Joined, Erasing, Types
    <3> QED  BY <3>1, <3>2
  <2>3. Types'
    BY <2>1, <2>2, <1>a DEF Types
  <2>4. PlaybackHasClient'
    BY <2>1, <1>a, WebRtcAssumption, AppsAssumption DEF Types, PlaybackHasClient
  <2> QED  BY <2>1, <2>3, <2>4, <1>a, <1>b
<1>18. CASE UNCHANGED vars
  <2>1. Types'
    BY <1>18, <1>a DEF vars, playing, Types
  <2> QED  BY <1>18, <2>1, <1>a, <1>b, <1>d DEF vars
<1> QED
  BY <1>1, <1>2, <1>3, <1>4, <1>5, <1>6, <1>7, <1>8, <1>9, <1>10,
     <1>11, <1>12, <1>13, <1>14, <1>15, <1>16, <1>17, <1>18 DEF Next, Task

\* Type correctness: nobody who is no app gets into the map, and no connection is left
\* of a client that was erased.
THEOREM WebRtcTypes == Spec => []TypeOK
<1>1. Spec => []Inv
  BY InitInv, NextInv, PTL DEF Spec
<1>2. Inv => TypeOK
  BY DEF Inv
<1> QED  BY <1>1, <1>2, PTL

\* For any apps and calls, a playback thread does not outlive its client.
THEOREM PlaybackTheorem == Spec => []PlaybackHasClient
<1>1. Spec => []Inv
  BY InitInv, NextInv, PTL DEF Spec
<1>2. Inv => PlaybackHasClient
  BY DEF Inv
<1> QED  BY <1>1, <1>2, PTL
-----------------------------------------------------------------------------
(* The speaker *)

\* The messages of the protocol, and that a release is among those of a mailbox.
Signals == [sig : {"BEGIN", "STOP", "KEEP", "RELEASE"}, id : Ids \cup {NoId}]
Coming(m) == \E i \in 1..Len(m) : m[i].sig = "RELEASE"

\* A release in mailbox m that was posted for somebody is the first one, and for h.
ForHolder(m, h) ==
  \A i \in 1..Len(m) : m[i].sig = "RELEASE" /\ m[i].id # NoId =>
    m[i].id = h /\ \A j \in 1..(i - 1) : m[j].sig # "RELEASE"

\* What is appended to the mailbox takes no release away, and a release is one.
LEMMA AppendKeeps ==
  ASSUME NEW m \in Seq(Signals), NEW e \in Signals
  PROVE  /\ Append(m, e) \in Seq(Signals)
         /\ Coming(m) => Coming(Append(m, e))
         /\ e.sig = "RELEASE" => Coming(Append(m, e))
<1>1. /\ Append(m, e) \in Seq(Signals) /\ Len(Append(m, e)) = Len(m) + 1
      /\ Append(m, e)[Len(m) + 1] = e
      /\ \A i \in 1..Len(m) : Append(m, e)[i] = m[i]
  BY AppendProperties
<1>2. Len(m) \in Nat
  BY LenProperties
<1> QED  BY <1>1, <1>2 DEF Coming

\* A release that is appended names the holder only if no other one waits.
LEMMA AppendForHolder ==
  ASSUME NEW m \in Seq(Signals), NEW e \in Signals, NEW h, ForHolder(m, h),
         e.sig = "RELEASE" => e.id = NoId \/ (e.id = h /\ ~Coming(m))
  PROVE  ForHolder(Append(m, e), h)
<1>1. /\ Len(Append(m, e)) = Len(m) + 1
      /\ Append(m, e)[Len(m) + 1] = e
      /\ \A i \in 1..Len(m) : Append(m, e)[i] = m[i]
  BY AppendProperties
<1>2. Len(m) \in Nat
  BY LenProperties
<1> SUFFICES ASSUME NEW i \in 1..(Len(m) + 1),
                    Append(m, e)[i].sig = "RELEASE", Append(m, e)[i].id # NoId
             PROVE  /\ Append(m, e)[i].id = h
                    /\ \A j \in 1..(i - 1) : Append(m, e)[j].sig # "RELEASE"
  BY <1>1 DEF ForHolder
<1>3. \A j \in 1..(i - 1) : j \in 1..Len(m) /\ Append(m, e)[j] = m[j]
  BY <1>1, <1>2
<1>4. CASE i \in 1..Len(m)
  BY <1>1, <1>3, <1>4 DEF ForHolder
<1>5. CASE i = Len(m) + 1
  BY <1>1, <1>3, <1>5 DEF Coming
<1> QED  BY <1>2, <1>4, <1>5

\* Handling a message that is no release leaves the releases in the mailbox.
LEMMA TailKeeps ==
  ASSUME NEW m \in Seq(Signals), m # <<>>
  PROVE  /\ Tail(m) \in Seq(Signals)
         /\ Head(m) \in Signals
         /\ Coming(m) /\ Head(m).sig # "RELEASE" => Coming(Tail(m))
<1>1. /\ Tail(m) \in Seq(Signals) /\ Head(m) \in Signals /\ Head(m) = m[1]
      /\ Len(Tail(m)) = Len(m) - 1
      /\ \A i \in 1..Len(Tail(m)) : Tail(m)[i] = m[i + 1]
  BY HeadTailProperties
<1>2. Len(m) \in Nat
  BY LenProperties
<1>3. ASSUME Coming(m), Head(m).sig # "RELEASE" PROVE Coming(Tail(m))
  <2>1. PICK i \in 1..Len(m) : m[i].sig = "RELEASE"
    BY <1>3 DEF Coming
  <2>2. i - 1 \in 1..Len(Tail(m)) /\ Tail(m)[i - 1] = m[i]
    BY <2>1, <1>1, <1>2, <1>3
  <2> QED  BY <2>1, <2>2 DEF Coming
<1> QED  BY <1>1, <1>3

\* What waits behind the first message waits in the mailbox.
LEMMA TailWaits ==
  ASSUME NEW m \in Seq(Signals), m # <<>>
  PROVE  Coming(Tail(m)) => Coming(m)
<1>1. Len(Tail(m)) = Len(m) - 1 /\ \A i \in 1..Len(Tail(m)) : Tail(m)[i] = m[i + 1]
  BY HeadTailProperties
<1>2. Len(m) \in Nat
  BY LenProperties
<1>3. \A i \in 1..Len(Tail(m)) : i + 1 \in 1..Len(m)
  BY <1>1, <1>2
<1> QED  BY <1>1, <1>3 DEF Coming

\* Behind a release, and while nobody speaks, the releases are nobody's.
LEMMA TailForHolder ==
  ASSUME NEW m \in Seq(Signals), m # <<>>, NEW h, ForHolder(m, h)
  PROVE  /\ ForHolder(Tail(m), h)
         /\ Head(m).sig = "RELEASE" =>
              Head(m).id \in {h, NoId} /\ ForHolder(Tail(m), NoId)
         /\ h = NoId => \A k : ForHolder(Tail(m), k)
<1>1. /\ Head(m) = m[1] /\ Len(Tail(m)) = Len(m) - 1
      /\ \A i \in 1..Len(Tail(m)) : Tail(m)[i] = m[i + 1]
  BY HeadTailProperties
<1>2. Len(m) \in Nat /\ Len(m) # 0
  BY LenProperties, EmptySeq
<1>3. Head(m).sig = "RELEASE" => Head(m).id \in {h, NoId}
  <2>1. 1 \in 1..Len(m)
    BY <1>2
  <2> QED  BY <2>1, <1>1 DEF ForHolder
<1>4. ASSUME NEW i \in 1..Len(Tail(m)), Tail(m)[i].sig = "RELEASE", Tail(m)[i].id # NoId
      PROVE  /\ Tail(m)[i].id = h /\ Head(m).sig # "RELEASE"
             /\ \A j \in 1..(i - 1) : Tail(m)[j].sig # "RELEASE"
  <2>1. i + 1 \in 1..Len(m) /\ Tail(m)[i] = m[i + 1] /\ 1 \in 1..((i + 1) - 1)
    BY <1>1, <1>2
  <2>2. m[i + 1].id = h /\ \A j \in 1..((i + 1) - 1) : m[j].sig # "RELEASE"
    BY <2>1, <1>4 DEF ForHolder
  <2>3. \A j \in 1..(i - 1) : Tail(m)[j] = m[j + 1] /\ j + 1 \in 1..((i + 1) - 1)
    BY <1>1, <1>2
  <2> QED  BY <2>1, <2>2, <2>3, <1>1
<1> QED  BY <1>3, <1>4 DEF ForHolder

\* What a message of the apps and the release are.
LEMMA MsgTypes ==
  ASSUME NEW id \in Ids \cup {NoId}
  PROVE  /\ \A name \in {"BEGIN", "STOP", "KEEP"} :
              TalkMsg(name, id) \in Signals /\ TalkMsg(name, id).sig # "RELEASE"
         /\ Release(id) \in Signals /\ Release(id).sig = "RELEASE"
         /\ Release(id).id = NoId \/ (Release(id).id = id /\ ~Coming(talkMail))
BY DEF TalkMsg, Release, Signals, ReleaseWaits, Coming

\* The inductive invariant of push to talk.
TalkInv == TalkTypeOK /\ TalkIsReleased /\ ForHolder(talkMail, talker)

\* Nobody speaks at first.
LEMMA TalkInvInit == TalkInit => TalkInv
<1> SUFFICES ASSUME TalkInit PROVE TalkInv
  OBVIOUS
<1>1. <<>> \in Seq(Signals) /\ Len(<<>>) = 0
  BY EmptySeq
<1>2. ForHolder(<<>>, NoId)
  BY <1>1 DEF ForHolder
<1> QED  BY <1>1, <1>2 DEF TalkInit, TalkInv, TalkTypeOK, TalkIsReleased, Signals

\* One step per action; the invariant in terms of the mailbox.
LEMMA TalkInvStep == TalkInv /\ [TalkNext]_talkVars => TalkInv'
<1> SUFFICES ASSUME TalkInv, [TalkNext]_talkVars PROVE TalkInv'
  OBVIOUS
<1>0. /\ talker \in Ids \cup {NoId} /\ track \subseteq Ids /\ timer \in BOOLEAN
      /\ talkMail \in Seq(Signals)
      /\ talker # NoId => timer \/ Coming(talkMail)
      /\ ForHolder(talkMail, talker)
  BY DEF TalkInv, TalkTypeOK, TalkIsReleased, ReleaseWaits, Signals, Coming
<1> DEFINE Goal == /\ talker' \in Ids \cup {NoId} /\ track' \subseteq Ids
                   /\ timer' \in BOOLEAN /\ talkMail' \in Seq(Signals)
                   /\ talker' # NoId => timer' \/ Coming(talkMail')
                   /\ ForHolder(talkMail', talker')
<1> SUFFICES Goal
  BY DEF TalkInv, TalkTypeOK, TalkIsReleased, ReleaseWaits, Signals, Coming, ForHolder
<1>1. ASSUME NEW id \in Ids, TalkCommand(id) PROVE Goal
  <2>1. PICK name \in {"BEGIN", "STOP", "KEEP"} : talkMail' = Append(talkMail, TalkMsg(name, id))
    BY <1>1 DEF TalkCommand
  <2>2. TalkMsg(name, id) \in Signals /\ TalkMsg(name, id).sig # "RELEASE"
    BY MsgTypes
  <2>3. talkMail' \in Seq(Signals) /\ (Coming(talkMail) => Coming(talkMail'))
    BY <2>1, <2>2, <1>0, AppendKeeps
  <2>4. ForHolder(talkMail', talker)
    BY <2>1, <2>2, <1>0, AppendForHolder
  <2> QED  BY <1>1, <2>3, <2>4, <1>0 DEF TalkCommand
<1>2. ASSUME NEW id \in Ids, Packet(id) PROVE Goal
  BY <1>2, <1>0 DEF Packet
<1>3. ASSUME NEW id \in Ids, TrackSetsTimer(id) PROVE Goal
  BY <1>3, <1>0 DEF TrackSetsTimer
<1>4. CASE TimerFires
  <2>1. talkMail' = Append(talkMail, Release(talker))
    BY <1>4 DEF TimerFires
  <2>2. /\ Release(talker) \in Signals /\ Release(talker).sig = "RELEASE"
        /\ Release(talker).id = NoId \/ (Release(talker).id = talker /\ ~Coming(talkMail))
    BY <1>0, MsgTypes
  <2>3. talkMail' \in Seq(Signals) /\ Coming(talkMail')
    BY <2>1, <2>2, <1>0, AppendKeeps
  <2>4. ForHolder(talkMail', talker)
    BY <2>1, <2>2, <1>0, AppendForHolder
  <2> QED  BY <2>3, <2>4, <1>4, <1>0 DEF TimerFires
<1>5. CASE HandleBegin
  <2>1. Head(talkMail).sig = "BEGIN" /\ talkMail # <<>> /\ talkMail' = Tail(talkMail)
    BY <1>5 DEF HandleBegin, TalkReceived
  <2>2. /\ talkMail' \in Seq(Signals) /\ Head(talkMail) \in Signals
        /\ Coming(talkMail) => Coming(talkMail')
    BY <2>1, <1>0, TailKeeps
  <2>3. TalkSender \in Ids \cup {NoId}
    BY <2>2 DEF TalkSender, Signals
  <2>4. /\ ForHolder(talkMail', talker)
        /\ talker = NoId => ForHolder(talkMail', TalkSender)
    BY <2>1, <1>0, TailForHolder
  <2>5. CASE talker = NoId
    BY <2>2, <2>3, <2>4, <2>5, <1>5, <1>0 DEF HandleBegin
  <2>6. CASE talker # NoId
    BY <2>2, <2>4, <2>6, <1>5, <1>0 DEF HandleBegin
  <2> QED  BY <2>5, <2>6
<1>6. CASE HandleTalkStop
  <2>1. Head(talkMail).sig = "STOP" /\ talkMail # <<>>
    BY <1>6 DEF HandleTalkStop, TalkReceived
  <2>2. /\ Tail(talkMail) \in Seq(Signals) /\ (Coming(talkMail) => Coming(Tail(talkMail)))
        /\ ForHolder(Tail(talkMail), talker)
    BY <2>1, <1>0, TailKeeps, TailForHolder
  <2>3. CASE talker = TalkSender
    <3>1. talkMail' = Append(Tail(talkMail), Release(talker))
      BY <2>3, <1>6 DEF HandleTalkStop
    <3>2. /\ Release(talker) \in Signals /\ Release(talker).sig = "RELEASE"
          /\ Release(talker).id = NoId \/ (Release(talker).id = talker /\ ~Coming(talkMail))
      BY <1>0, MsgTypes
    <3>3. Coming(Tail(talkMail)) => Coming(talkMail)
      BY <2>1, <1>0, TailWaits
    <3>4. talkMail' \in Seq(Signals) /\ Coming(talkMail')
      BY <3>1, <3>2, <2>2, AppendKeeps
    <3>5. ForHolder(talkMail', talker)
      BY <3>1, <3>2, <3>3, <2>2, AppendForHolder
    <3> QED  BY <3>4, <3>5, <2>3, <1>6, <1>0 DEF HandleTalkStop
  <2>4. CASE talker # TalkSender
    BY <2>2, <2>4, <1>6, <1>0 DEF HandleTalkStop
  <2> QED  BY <2>3, <2>4
<1>7. CASE HandleKeep
  <2>1. Head(talkMail).sig = "KEEP" /\ talkMail # <<>> /\ talkMail' = Tail(talkMail)
    BY <1>7 DEF HandleKeep, TalkReceived
  <2>2. talkMail' \in Seq(Signals) /\ (Coming(talkMail) => Coming(talkMail'))
    BY <2>1, <1>0, TailKeeps
  <2>3. timer' \in BOOLEAN /\ (timer => timer')
    BY <1>7, <1>0 DEF HandleKeep
  <2>4. ForHolder(talkMail', talker)
    BY <2>1, <1>0, TailForHolder
  <2> QED  BY <2>2, <2>3, <2>4, <1>7, <1>0 DEF HandleKeep
<1>8. CASE HandleRelease
  <2>1. Head(talkMail).sig = "RELEASE" /\ talkMail # <<>> /\ talkMail' = Tail(talkMail)
    BY <1>8 DEF HandleRelease, TalkReceived
  <2>2. talkMail' \in Seq(Signals)
    BY <2>1, <1>0, TailKeeps
  <2>3. ForHolder(talkMail', NoId)
    BY <2>1, <1>0, TailForHolder
  <2> QED  BY <2>2, <2>3, <1>8, <1>0 DEF HandleRelease
<1>9. CASE UNCHANGED talkVars
  BY <1>9, <1>0 DEF talkVars
<1> QED
  BY <1>1, <1>2, <1>3, <1>4, <1>5, <1>6, <1>7, <1>8, <1>9 DEF TalkNext, TalkTask

\* A holder of the speaker always has a release to come: the timer of
\* GW_WEBRTC_RELEASE_CLIENT_PUSH_TO_TALK, or its message.
THEOREM ReleaseTheorem == TalkSpec => [](TalkTypeOK /\ TalkIsReleased)
<1>1. TalkSpec => []TalkInv
  BY TalkInvInit, TalkInvStep, PTL DEF TalkSpec
<1>2. TalkInv => TalkTypeOK /\ TalkIsReleased
  BY DEF TalkInv
<1> QED  BY <1>1, <1>2, PTL

\* A release that was posted to end the talk of one app ends no other's, although the
\* message does not say whose: only one that was posted behind another, or while nobody
\* spoke, may meet the next speaker.
THEOREM KeptTheorem == TalkSpec => SpeakerIsKept
<1>1. TalkSpec => []TalkInv
  BY TalkInvInit, TalkInvStep, PTL DEF TalkSpec
<1>2. TalkInv /\ [TalkNext]_talkVars =>
        [talker # NoId /\ talker' # talker =>
           TalkReceived("RELEASE") /\ TalkSender \in {talker, NoId}]_talkVars
  <2> SUFFICES ASSUME TalkInv, [TalkNext]_talkVars, talker # NoId, talker' # talker
               PROVE  TalkReceived("RELEASE") /\ TalkSender \in {talker, NoId}
    OBVIOUS
  <2>1. HandleRelease
    BY DEF TalkNext, TalkTask, TalkCommand, Packet, TrackSetsTimer, TimerFires, HandleBegin,
           HandleTalkStop, HandleKeep, talkVars
  <2>2. Head(talkMail).sig = "RELEASE" /\ talkMail # <<>> /\ TalkReceived("RELEASE")
    BY <2>1 DEF HandleRelease, TalkReceived
  <2>3. talkMail \in Seq(Signals) /\ ForHolder(talkMail, talker)
    BY DEF TalkInv, TalkTypeOK, Signals
  <2> QED  BY <2>2, <2>3, TailForHolder DEF TalkSender
<1> QED  BY <1>1, <1>2, PTL DEF TalkSpec, SpeakerIsKept
=============================================================================
