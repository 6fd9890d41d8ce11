----------------------------- MODULE PushToTalk -----------------------------
(***************************************************************************)
(* Push to talk: one app at a time speaks through the camera.              *)
(* rtcAsigneePushToTalk of webrtc/datachannel_hdl.cpp, the handler of      *)
(* GW_WEBRTC_RELEASE_CLIENT_PUSH_TO_TALK and the audio tracks of           *)
(* app/task_webrtc.cpp.                                                    *)
(*                                                                         *)
(* The speaker is held by currentClientPushToTalk; what gives it back is   *)
(* a one-shot timer of the kernel, which every audio packet of the holder  *)
(* sets again, or the Stop of the holder.  A track runs in the thread of   *)
(* its connection: its test of the holder and its timer_set are two steps. *)
(*                                                                         *)
(* Of the mailbox of the task, talkMail has the messages of this protocol. *)
(* The names that WebRtc has as well begin with Talk here.                 *)
(***************************************************************************)
EXTENDS Apps, Integers, Sequences

CONSTANTS
  MaxCommands,    \* bound: the commands of the apps
  MaxPackets      \* bound: the audio packets of the holder

ASSUME TalkAssumption == {MaxCommands, MaxPackets} \subseteq Nat

VARIABLES
  talker,   \* currentClientPushToTalk
  timer,    \* GW_WEBRTC_RELEASE_CLIENT_PUSH_TO_TALK is in the kernel's list
  talkMail, \* the mailbox of the task: names of signals and who sent them
  track,    \* the apps whose track is between its test and its timer_set
  commands, packets

talkVars == <<talker, timer, talkMail, track, commands, packets>>

TalkMsg(name, id) == [sig |-> name, id |-> id]

\* A release carries nothing.  History: it was posted to end the talk of id, or of nobody
\* if another one waits in the mailbox.
ReleaseWaits == \E i \in 1..Len(talkMail) : talkMail[i].sig = "RELEASE"
Release(id) == TalkMsg("RELEASE", IF ReleaseWaits THEN NoId ELSE id)

TalkInit ==
  /\ talker = NoId /\ timer = FALSE
  /\ talkMail = <<>> /\ track = {}
  /\ commands = 0 /\ packets = 0
-----------------------------------------------------------------------------
(* The apps, over their data channels and audio tracks *)

TalkCommand(id) ==
  /\ commands < MaxCommands
  /\ commands' = commands + 1
  /\ \E name \in {"BEGIN", "STOP", "KEEP"} : talkMail' = Append(talkMail, TalkMsg(name, id))
  /\ UNCHANGED <<talker, timer, track, packets>>

\* A packet of anyone but the holder is dropped.
Packet(id) ==
  /\ packets < MaxPackets /\ id \notin track
  /\ talker = id
  /\ packets' = packets + 1
  /\ track' = track \cup {id}
  /\ UNCHANGED <<talker, timer, talkMail, commands>>

\* timer_set, after the packet was played.
TrackSetsTimer(id) ==
  /\ id \in track
  /\ track' = track \ {id}
  /\ timer' = TRUE
  /\ UNCHANGED <<talker, talkMail, commands, packets>>

TimerFires ==
  /\ timer
  /\ timer' = FALSE
  /\ talkMail' = Append(talkMail, Release(talker))
  /\ UNCHANGED <<talker, track, commands, packets>>
-----------------------------------------------------------------------------
(* The task *)

TalkReceived(name) == talkMail # <<>> /\ Head(talkMail).sig = name
TalkSender == Head(talkMail).id

HandleBegin ==
  /\ TalkReceived("BEGIN")
  /\ talkMail' = Tail(talkMail)
  /\ IF talker = NoId THEN talker' = TalkSender /\ timer' = TRUE ELSE UNCHANGED <<talker, timer>>
  /\ UNCHANGED <<track, commands, packets>>

\* Mutant: whoever stops removes the timer.
HandleTalkStopAny ==
  /\ TalkReceived("STOP")
  /\ timer' = FALSE
  /\ talkMail' = IF talker = TalkSender THEN Append(Tail(talkMail), Release(talker)) ELSE Tail(talkMail)
  /\ UNCHANGED <<talker, track, commands, packets>>

\* Mutant: nobody asks who stops.
HandleTalkStopUnasked ==
  /\ TalkReceived("STOP")
  /\ timer' = FALSE /\ talkMail' = Append(Tail(talkMail), Release(TalkSender))
  /\ UNCHANGED <<talker, track, commands, packets>>

HandleTalkStop ==
  /\ TalkReceived("STOP")
  /\ IF talker = TalkSender
       THEN timer' = FALSE /\ talkMail' = Append(Tail(talkMail), Release(TalkSender))
       ELSE timer' = timer /\ talkMail' = Tail(talkMail)
  /\ UNCHANGED <<talker, track, commands, packets>>

HandleKeep ==
  /\ TalkReceived("KEEP")
  /\ talkMail' = Tail(talkMail)
  /\ timer' = (timer \/ talker = TalkSender)
  /\ UNCHANGED <<talker, track, commands, packets>>

\* Mutant: a release while somebody talks only sets the timer again.
HandleReleaseRenews ==
  /\ TalkReceived("RELEASE")
  /\ talkMail' = Tail(talkMail)
  /\ timer' = (timer \/ talker # NoId)
  /\ UNCHANGED <<talker, track, commands, packets>>

\* The timer is left alone: one that a late packet set releases whoever talks then.
HandleRelease ==
  /\ TalkReceived("RELEASE")
  /\ talkMail' = Tail(talkMail)
  /\ talker' = NoId
  /\ UNCHANGED <<timer, track, commands, packets>>

TalkTask == HandleBegin \/ HandleTalkStop \/ HandleKeep \/ HandleRelease
-----------------------------------------------------------------------------
TalkNext ==
  \/ \E id \in Ids : TalkCommand(id) \/ Packet(id) \/ TrackSetsTimer(id)
  \/ TimerFires \/ TalkTask

\* The threads of the camera run and the timer expires; apps may do nothing.
TalkFairness ==
  /\ WF_talkVars(TalkTask) /\ WF_talkVars(TimerFires)
  /\ \A id \in Ids : WF_talkVars(TrackSetsTimer(id))

TalkSpec == TalkInit /\ [][TalkNext]_talkVars
TalkFairSpec == TalkSpec /\ TalkFairness
-----------------------------------------------------------------------------
TalkTypeOK ==
  /\ talker \in Ids \cup {NoId} /\ track \subseteq Ids /\ timer \in BOOLEAN
  /\ talkMail \in Seq([sig : {"BEGIN", "STOP", "KEEP", "RELEASE"}, id : Ids \cup {NoId}])

\* Nobody can be left holding the speaker: whatever the other apps send, the timer is
\* set or its message is on the way.
TalkIsReleased == talker # NoId => timer \/ ReleaseWaits

\* What ends an app's talk was posted to end it, by its Stop or by a timer that expired
\* while it spoke.  But a release names nobody: one that was posted behind another, or
\* while nobody spoke, ends the talk of whoever has begun meanwhile.
SpeakerIsKept ==
  [][talker # NoId /\ talker' # talker =>
       TalkReceived("RELEASE") /\ TalkSender \in {talker, NoId}]_talkVars

\* When the holder falls silent or disappears, the speaker comes free.
TalkEnds == []<>(talker = NoId)
=============================================================================
