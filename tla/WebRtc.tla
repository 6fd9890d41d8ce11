------------------------------- MODULE WebRtc -------------------------------
(***************************************************************************)
(* The WebRTC clients: app/task_webrtc.cpp and Client of                   *)
(* webrtc/helpers.cpp.  PushToTalk has the speaker that they share.        *)
(*                                                                         *)
(* The task owns the map of clients.  Around it run the callbacks of the   *)
(* peer connections, the workers of MainThread, through which a change of  *)
(* state becomes a message, and the connection timers of CppTime.          *)
(*                                                                         *)
(* GW_WEBRTC_ERASE_CLIENT_REQ is posted with the length of the id or with  *)
(* length + 1, the NUL included; its handler builds the id from all bytes, *)
(* so it equals a key of the map only in the first case: exact.            *)
(*                                                                         *)
(* A client that plays a recording has a thread, which STOP joins.  The    *)
(* destructor of the client stops it as well, while erase() holds          *)
(* mtxClientsProtect.  Pause, seek and speed change what the thread sends  *)
(* and are left out.                                                       *)
(***************************************************************************)
EXTENDS Apps, Integers, Sequences, FiniteSets

CONSTANTS
  SIGNALING_MAX,  \* CLIENT_SIGNALING_MAX
  Maxima,         \* the values of maxClientSetting
  MaxCalls,       \* bound: what apps and server send, but for playing and stopping
  MaxMail         \* bound: the mailbox they still send to

ASSUME WebRtcAssumption ==
  /\ IsFiniteSet(Ids)
  /\ {SIGNALING_MAX, MaxCalls, MaxMail} \subseteq Nat
  /\ Maxima \subseteq Nat /\ Maxima # {}

VARIABLES
  clients,    \* the ids in the map
  peer,       \* the peer connection in the map under an id
  total,      \* totalClientsConnectSuccess
  maximum,    \* maxClientSetting
  dispatched, \* MainThread: how many erasures of each id its queue holds
  mail,
  player,     \* the playback thread of a client; it has the client's mutex in "sending"
  mLoop,      \* that it should go on
  joins,      \* the client whose playback thread the task joins, or NoId
  calls

playing == <<player, mLoop, joins>>
vars == <<clients, peer, total, maximum, dispatched, mail, playing, calls>>

New(ws) == [ws |-> ws, answered |-> FALSE, open |-> FALSE, state |-> "up", timer |-> ~ws]
Gone == [New(TRUE) EXCEPT !.state = "closed"]

Init ==
  /\ clients = {} /\ peer = [id \in Ids |-> Gone]
  /\ total = 0 /\ maximum \in Maxima
  /\ dispatched = [id \in Ids |-> 0]
  /\ mail = <<>> /\ calls = 0
  /\ player = [id \in Ids |-> "none"] /\ mLoop = [id \in Ids |-> FALSE]
  /\ joins = NoId

Msg(name, id) == [id |-> id, sig |-> name, arg |-> 0]
SetMax(n) == [Msg("SET_MAX", NoId) EXCEPT !.arg = n]
Erase(id, exact) == [Msg("ERASE", id) EXCEPT !.arg = IF exact THEN 0 ELSE 1]
-----------------------------------------------------------------------------
(* What comes in from outside *)

Bounded == calls < MaxCalls /\ calls' = calls + 1

Post(msg) ==
  /\ Len(mail) < MaxMail
  /\ mail' = Append(mail, msg)
  /\ UNCHANGED <<clients, peer, total, maximum, dispatched, playing>>

\* Signaling over MQTT and WebSocket.
Signal ==
  /\ Bounded
  /\ \/ \E id \in Ids, name \in {"REQUEST", "WS_REQUEST", "ANSWER"} : Post(Msg(name, id))
     \/ \E n \in Maxima : Post(SetMax(n))

\* Commands over an open data channel.
Command ==
  \E id \in clients :
    /\ peer[id].open
    /\ \/ Post(Msg("DISCONNECT", id)) /\ Bounded
       \/ \E name \in {"PLAY", "STOP"} : Post(Msg(name, id)) /\ UNCHANGED calls

\* onStateChange: Disconnected, Failed, Closed.
StateChange(id) ==
  /\ id \in clients \cup {joins}
  /\ \E s \in {"disconnected", "failed", "closed"} :
       /\ <<peer[id].state, s>> \in {"up", "disconnected"} \X {"failed", "closed"}
            \cup {<<"up", "disconnected">>, <<"failed", "closed">>}
       /\ peer' = [peer EXCEPT ![id].state = s, ![id].open = @ /\ s = "disconnected"]
  /\ dispatched' = [dispatched EXCEPT ![id] = @ + 1]
  /\ UNCHANGED <<clients, total, maximum, mail, playing, calls>>

\* mtxClientsProtect is held from the erasure in the map to the end of the destructor.
Erasing == joins \notin clients \cup {NoId}

\* dc->onOpen: a client beyond the maximum is to be erased.  Over WebSocket nothing
\* is counted.
ChannelOpens(id) ==
  /\ id \in clients /\ (peer[id].ws \/ ~Erasing)
  /\ peer[id].answered /\ ~peer[id].open /\ peer[id].state = "up"
  /\ IF peer[id].ws
       THEN peer' = [peer EXCEPT ![id].open = TRUE] /\ UNCHANGED <<total, mail>>
     ELSE IF total < maximum
       THEN /\ peer' = [peer EXCEPT ![id].open = TRUE, ![id].timer = FALSE]
            /\ total' = total + 1
            /\ UNCHANGED mail
       ELSE /\ peer' = [peer EXCEPT ![id].open = TRUE]
            /\ mail' = Append(mail, Erase(id, FALSE))
            /\ UNCHANGED total
  /\ UNCHANGED <<clients, maximum, dispatched, playing, calls>>

\* A worker of MainThread posts the erasure.
Worker(id) ==
  /\ dispatched[id] > 0
  /\ dispatched' = [dispatched EXCEPT ![id] = @ - 1]
  /\ mail' = Append(mail, Erase(id, TRUE))
  /\ UNCHANGED <<clients, peer, total, maximum, playing, calls>>

\* startTimeoutConnect: 40 s are over.
ConnectTimeout(id) ==
  /\ id \in clients /\ peer[id].timer
  /\ peer' = [peer EXCEPT ![id].timer = FALSE]
  /\ mail' = Append(mail, Msg("CHECK", id))
  /\ UNCHANGED <<clients, total, maximum, dispatched, playing, calls>>
-----------------------------------------------------------------------------
(* hdlSendSdSourceToPeer *)

Goes(id, from, to) ==
  /\ player[id] = from
  /\ player' = [player EXCEPT ![id] = to]
  /\ UNCHANGED <<clients, peer, total, maximum, dispatched, mail, mLoop, joins, calls>>

\* The loop is tested without the mutex.  While the thread waits for the time of a sample
\* it gives the mutex back, and then waits for the mutex again.
Player(id) ==
  \/ Goes(id, "test", IF mLoop[id] THEN "waits" ELSE "ended")
  \/ Goes(id, "waits", "sending")
  \/ Goes(id, "sending", "test")

MutexIsFree(id) == player[id] # "sending"
-----------------------------------------------------------------------------
(* gw_task_webrtc_entry *)

Received(name) == joins = NoId /\ mail # <<>> /\ Head(mail).sig = name
Id == Head(mail).id

\* Over MQTT: the answer to a known id is an error; so is the request when the map or
\* the number of connections is full.
HandleRequest ==
  /\ Received("REQUEST")
  /\ mail' = Tail(mail)
  /\ IF Id \notin clients /\ Cardinality(clients) <= SIGNALING_MAX /\ total < maximum
       THEN clients' = clients \cup {Id} /\ peer' = [peer EXCEPT ![Id] = New(FALSE)]
       ELSE UNCHANGED <<clients, peer>>
  /\ UNCHANGED <<total, maximum, dispatched, playing, calls>>

\* Over WebSocket: emplace keeps a client of that id, and closing the new connection
\* then dispatches an erasure.
HandleWsRequest ==
  /\ Received("WS_REQUEST")
  /\ mail' = Tail(mail)
  /\ IF Id \notin clients
       THEN /\ clients' = clients \cup {Id}
            /\ peer' = [peer EXCEPT ![Id] = New(TRUE)]
            /\ UNCHANGED dispatched
       ELSE /\ dispatched' = [dispatched EXCEPT ![Id] = @ + 1]
            /\ UNCHANGED <<clients, peer>>
  /\ UNCHANGED <<total, maximum, playing, calls>>

HandleAnswer ==
  /\ Received("ANSWER")
  /\ mail' = Tail(mail)
  /\ peer' = IF Id \in clients THEN [peer EXCEPT ![Id].answered = TRUE] ELSE peer
  /\ UNCHANGED <<clients, total, maximum, dispatched, playing, calls>>

HandleSetMax ==
  /\ Received("SET_MAX")
  /\ mail' = Tail(mail)
  /\ maximum' = Head(mail).arg
  /\ UNCHANGED <<clients, peer, total, dispatched, playing, calls>>

HandleCheck ==
  /\ Received("CHECK")
  /\ mail' = IF Id \in clients /\ ~peer[Id].open
               THEN Append(Tail(mail), Erase(Id, FALSE)) ELSE Tail(mail)
  /\ UNCHANGED <<clients, peer, total, maximum, dispatched, playing, calls>>

\* setPlbSdControl(PLAY), unless the file cannot be opened.
HandlePlay ==
  /\ Received("PLAY")
  /\ mail' = Tail(mail)
  /\ \/ UNCHANGED <<player, mLoop>>
     \/ /\ Id \in clients /\ MutexIsFree(Id) /\ player[Id] = "none"
        /\ player' = [player EXCEPT ![Id] = "test"]
        /\ mLoop' = [mLoop EXCEPT ![Id] = TRUE]
  /\ UNCHANGED <<clients, peer, total, maximum, dispatched, joins, calls>>

\* Mutant: the thread is joined, but not told.
StopUntold(id) ==
  /\ MutexIsFree(id)
  /\ joins' = IF player[id] = "none" THEN NoId ELSE id
  /\ UNCHANGED <<mLoop, player>>

\* setPlbSdControl(STOP): outside the mutex the loop is ended and the thread joined.
Stop(id) ==
  /\ MutexIsFree(id)
  /\ mLoop' = [mLoop EXCEPT ![id] = FALSE]
  /\ joins' = IF player[id] = "none" THEN NoId ELSE id
  /\ player' = player

HandleStop ==
  /\ Received("STOP")
  /\ mail' = Tail(mail)
  /\ IF Id \in clients THEN Stop(Id) ELSE UNCHANGED playing
  /\ UNCHANGED <<clients, peer, total, maximum, dispatched, calls>>

\* A connection whose client is destroyed closes, and says so unless it was closed.
Closes(id) ==
  /\ peer' = [peer EXCEPT ![id] = Gone]
  /\ dispatched' = IF peer[id].state # "closed" THEN [dispatched EXCEPT ![id] = @ + 1]
                   ELSE dispatched

\* The thread has ended: STOP is done, and the rest of the destructor follows.
Joined ==
  /\ joins # NoId /\ player[joins] = "ended"
  /\ player' = [player EXCEPT ![joins] = "none"]
  /\ joins' = NoId
  /\ IF Erasing THEN Closes(joins) ELSE UNCHANGED <<peer, dispatched>>
  /\ UNCHANGED <<clients, total, maximum, mail, mLoop, calls>>

\* Mutant: the destructor does not stop the thread.
ErasedPlaying ==
  /\ clients' = clients \ {Id}
  /\ Closes(Id)
  /\ UNCHANGED playing

\* The client leaves the map; its destructor stops the playback first.
Erased ==
  /\ clients' = clients \ {Id}
  /\ Stop(Id)
  /\ IF player[Id] = "none" THEN Closes(Id) ELSE UNCHANGED <<peer, dispatched>>

\* Mutant: the id is built as a C string without its last byte.
HandleEraseTerminated ==
  /\ Received("ERASE")
  /\ mail' = Tail(mail)
  /\ IF Id \in clients /\ Head(mail).arg = 1 THEN Erased
     ELSE UNCHANGED <<clients, peer, dispatched, playing>>
  /\ UNCHANGED <<total, maximum, calls>>

HandleErase ==
  /\ Received("ERASE")
  /\ mail' = Tail(mail)
  /\ IF Id \in clients /\ Head(mail).arg = 0 THEN Erased
     ELSE UNCHANGED <<clients, peer, dispatched, playing>>
  /\ UNCHANGED <<total, maximum, calls>>

\* rtcForceDisconnect
HandleDisconnect ==
  /\ Received("DISCONNECT")
  /\ mail' = Append(Tail(mail), Erase(Id, FALSE))
  /\ UNCHANGED <<clients, peer, total, maximum, dispatched, playing, calls>>

Task ==
  \/ HandleRequest \/ HandleWsRequest \/ HandleAnswer \/ HandleSetMax
  \/ HandleCheck \/ HandleErase \/ HandleDisconnect
  \/ HandlePlay \/ HandleStop \/ Joined
-----------------------------------------------------------------------------
Next ==
  \/ Signal \/ Command
  \/ \E id \in Ids : StateChange(id) \/ ChannelOpens(id) \/ Worker(id)
                     \/ ConnectTimeout(id) \/ Player(id)
  \/ Task

\* The threads of the camera run and its timers expire; of the network nothing is known.
\* The task shares a mutex with the playback, which gives it back at every sample.
Fairness ==
  /\ SF_vars(Task)
  /\ \A id \in Ids : WF_vars(Worker(id)) /\ WF_vars(ConnectTimeout(id)) /\ WF_vars(Player(id))

Spec == Init /\ [][Next]_vars
FairSpec == Spec /\ Fairness
-----------------------------------------------------------------------------
Peers == [ws : BOOLEAN, answered : BOOLEAN, open : BOOLEAN, timer : BOOLEAN,
          state : {"up", "disconnected", "failed", "closed"}]

Messages ==
  [id : Ids, arg : {0, 1},
   sig : {"REQUEST", "WS_REQUEST", "ANSWER", "CHECK", "ERASE", "DISCONNECT", "PLAY", "STOP"}]
    \cup [id : {NoId}, sig : {"SET_MAX"}, arg : Maxima]

TypeOK ==
  /\ mail \in Seq(Messages)
  /\ clients \subseteq Ids /\ peer \in [Ids -> Peers]
  /\ \A id \in Ids \ (clients \cup {joins}) : peer[id] = Gone
  /\ total \in Nat /\ maximum \in Maxima
  /\ dispatched \in [Ids -> Nat]
  /\ player \in [Ids -> {"none", "test", "waits", "sending", "ended"}]
  /\ mLoop \in [Ids -> BOOLEAN] /\ joins \in Ids \cup {NoId}

\* The playback thread uses its client, and does not outlive it; it ends only for the
\* task that joins it.
PlaybackHasClient ==
  \A id \in Ids :
    player[id] # "none" => /\ id \in clients \cup {joins}
                           /\ mLoop[id] <=> id # joins

\* A client whose connection went down leaves the map and is destroyed: the callback, the
\* worker of MainThread and the task pass its erasure on, and no playback holds them up.
DownIsErased ==
  \A id \in Ids :
    peer[id].state # "up" /\ id \in clients ~> id \notin clients /\ player[id] = "none"

\* GW_WEBRTC_ERASE_CLIENT_NO_ANSWER_TIMEOUT_INTERVAL: a client that requested a
\* connection and got no data channel is erased.
NoAnswerIsErased ==
  \A id \in Ids : id \in clients /\ ~peer[id].ws ~> id \notin clients \/ peer[id].open
=============================================================================
