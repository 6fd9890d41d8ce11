------------------------------- MODULE Cloud -------------------------------
(***************************************************************************)
(* app/task_cloud.cpp and app/mqtt/mqtt.cpp: the camera's session with the *)
(* MQTT server.                                                            *)
(*                                                                         *)
(* The task makes a client object (mospp); libmosquitto runs a thread for  *)
(* it, which connects, connects again when the session is lost, and calls  *)
(* on_connect, on_disconnect and on_subscribe.  These post to the task and *)
(* arm its timers.  GW_CLOUD_MQTT_TRY_CONNECT_REQ replaces the object: the *)
(* destructor takes half a second, in which the old thread still calls     *)
(* back, and on_disconnect reports also the disconnect of the destructor.  *)
(*                                                                         *)
(* The server keeps the last status that was published, or the will when a *)
(* session breaks.  The camera also subscribes to its own status and       *)
(* publishes it again when it is wrong (GW_CLOUD_CHECK_BROKER_STATUS_REQ): *)
(* left out, for StatusIsTold holds without it.                            *)
(*                                                                         *)
(* Not here: the requests that come over the session (modules WebRtc,      *)
(* PushToTalk, Upgrade), topics other than the two of Topics, and          *)
(* GW_CLOUD_MQTT_CHECK_MQTT_LOOP_REQ, whose timer nobody arms.  on_connect *)
(* is one step: its subscriptions and retrySubTopics share m_mid without   *)
(* a lock, but a session that begins again in the same object is replaced  *)
(* by the TRY_CONNECT that its loss has posted.                            *)
(***************************************************************************)
EXTENDS Integers, Sequences

CONSTANTS
  MaxEvents  \* bound: the server goes or comes, refuses or breaks a session, leaves a
             \* subscription unanswered, and other tasks ask for something

ASSUME CloudAssumption == MaxEvents \in Nat

VARIABLES
  net,       \* the server can be resolved and reached
  conn,      \* mospp: "none", "failed" (no thread), "connecting", "up", "stopped"
  pc,        \* the task: between messages, or in the destructor for one of two reasons
  mail,      \* the mailbox of the task
  timers,    \* its timers in the kernel
  pending,   \* m_subTopicMap: the topics whose subscription was not answered
  asked,     \* at the server: subscriptions of this session to be answered
  subs,      \* at the server: the topics of this session
  status,    \* at the server: the last status
  dying,     \* SYS has asked for the release: the process will be killed
  orphaned,  \* history: a late ON_CONNECTED took the only retry
  unwatched, \* history: a TRY_CONNECT that could not resolve took the check of topics
  forgotten, \* history: topics that an answer to an earlier object took from the map
  events     \* how many of the bounded events there were

client == <<conn, pending, asked, subs, unwatched, forgotten>>
vars == <<net, conn, pc, mail, timers, pending, asked, subs, status, dying,
          orphaned, unwatched, forgotten, events>>

Topics == {"request", "status"}

Timeouts == {"TRY", "CHECK", "CONNECTED"}
Sigs == Timeouts \cup {"INIT", "DISCONNECTED", "SET_CONFIG", "GEN_STATUS", "STATUS",
                       "SUBSCRIBED", "RELEASE"}
Signals == [sig : Sigs, arg : Topics \cup {"none"}]

Msg(sig, arg) == [sig |-> sig, arg |-> arg]
Sig(sig) == Msg(sig, "none")
Post(sig) == mail' = Append(mail, Sig(sig))

\* GW_CLOUD_MQTT_INIT_REQ is posted when the time has come over the network.
Init ==
  /\ net = TRUE
  /\ conn = "none" /\ pc = "idle"
  /\ mail = <<Sig("INIT")>> /\ timers = {}
  /\ pending = {} /\ asked = {} /\ subs = {} /\ status = "none"
  /\ dying = FALSE
  /\ orphaned = FALSE /\ unwatched = FALSE /\ forgotten = {}
  /\ events = 0
-----------------------------------------------------------------------------
(* The thread of libmosquitto and the server *)

\* A session begins, clean: on_connect subscribes to every topic.
OnConnect ==
  /\ conn = "connecting" /\ net
  /\ conn' = "up"
  /\ asked' = Topics /\ subs' = {}
  /\ pending' = Topics
  /\ timers' = timers \cup {"CHECK", "CONNECTED"}
  /\ unwatched' = FALSE /\ forgotten' = {}
  /\ UNCHANGED <<net, pc, mail, status, dying, orphaned, events>>

Bounded == events < MaxEvents /\ events' = events + 1

\* The server refuses: on_connect arms its timer all the same, on_disconnect follows.
OnRefused ==
  /\ Bounded
  /\ conn = "connecting" /\ net
  /\ timers' = timers \cup {"CONNECTED"}
  /\ Post("DISCONNECTED")
  /\ UNCHANGED <<net, pc, client, status, dying, orphaned>>

SessionEnds == asked' = {} /\ subs' = {}

\* The session breaks; the server publishes the will and the thread connects again.
OnLost ==
  /\ conn = "up"
  /\ IF net THEN Bounded ELSE UNCHANGED events
  /\ conn' = "connecting"
  /\ SessionEnds
  /\ status' = "Disconnected"
  /\ Post("DISCONNECTED")
  /\ UNCHANGED <<net, pc, timers, pending, dying, orphaned, unwatched, forgotten>>

\* The destructor's disconnect gets through before the thread is cancelled; if there was
\* no session yet, it has to connect first.
OnOwnDisconnect ==
  /\ pc # "idle" /\ conn \in {"connecting", "up"}
  /\ IF conn = "up" THEN UNCHANGED events ELSE Bounded
  /\ conn' = "stopped"
  /\ SessionEnds
  /\ Post("DISCONNECTED")
  /\ UNCHANGED <<net, pc, timers, pending, status, dying, orphaned, unwatched, forgotten>>

\* The server answers the subscriptions in their order.
OnSubscribe(t) ==
  /\ conn = "up" /\ t \in asked
  /\ t = "status" => "request" \notin asked
  /\ asked' = asked \ {t}
  /\ subs' = subs \cup {t}
  /\ mail' = Append(mail, Msg("SUBSCRIBED", t))
  /\ UNCHANGED <<net, conn, pc, timers, pending, status, dying, orphaned, unwatched,
                 forgotten, events>>

\* The server leaves a subscription unanswered.
Unanswered(t) ==
  /\ Bounded
  /\ conn = "up" /\ t \in asked
  /\ asked' = asked \ {t}
  /\ UNCHANGED <<net, conn, pc, mail, timers, pending, subs, status, dying, orphaned,
                 unwatched, forgotten>>

NetChanges ==
  /\ Bounded
  /\ net' = ~net
  /\ UNCHANGED <<conn, pc, mail, timers, pending, asked, subs, status, dying,
                 orphaned, unwatched, forgotten>>
-----------------------------------------------------------------------------
(* The other tasks *)

\* The server sets another server, or SYS has downloaded a certificate.
TryRequested ==
  /\ Bounded
  /\ \/ conn = "up" /\ Post("SET_CONFIG")
     \/ Post("TRY")
  /\ UNCHANGED <<net, pc, timers, client, status, dying, orphaned>>

\* GW_SYS_CMD_REBOOT_REQ: the resources are to be released, three seconds are left.
RebootRequested ==
  /\ Bounded
  /\ ~dying /\ dying' = TRUE
  /\ Post("RELEASE")
  /\ UNCHANGED <<net, pc, timers, client, status, orphaned>>

\* The process is killed; a session that is up breaks.
Restart ==
  /\ dying /\ dying' = FALSE
  /\ status' = IF conn = "up" THEN "Disconnected" ELSE status
  /\ conn' = "none" /\ pc' = "idle"
  /\ mail' = <<Sig("INIT")>> /\ timers' = {}
  /\ pending' = {} /\ SessionEnds
  /\ orphaned' = FALSE /\ unwatched' = FALSE /\ forgotten' = {}
  /\ UNCHANGED <<net, events>>
-----------------------------------------------------------------------------
\* A timer expires while nothing waits for the task: to expire behind a message, or after
\* it was handled, is the same.
TimerFires(t) ==
  /\ t \in timers /\ mail = <<>>
  /\ timers' = timers \ {t}
  /\ Post(t)
  /\ UNCHANGED <<net, pc, client, status, dying, orphaned, events>>
-----------------------------------------------------------------------------
(* gw_task_cloud_entry *)

Received(sig) == pc = "idle" /\ mail # <<>> /\ Head(mail).sig = sig
Instead(sig) == mail' = Append(Tail(mail), Sig(sig))

\* INIT, ON_DISCONNECTED and a new configuration lead to TRY_CONNECT.
HandleToTry ==
  /\ \E sig \in {"INIT", "DISCONNECTED", "SET_CONFIG"} : Received(sig)
  /\ Instead("TRY")
  /\ UNCHANGED <<net, pc, timers, client, status, dying, orphaned, events>>

\* Mutant: after a failed resolution there is no other attempt.
TryConnectOnce ==
  /\ Received("TRY")
  /\ mail' = Tail(mail)
  /\ orphaned' = FALSE
  /\ timers' = timers \ {"TRY", "CHECK"}
  /\ pc' = IF net THEN "replacing" ELSE "idle"
  /\ UNCHANGED <<net, client, status, dying, events>>

\* Without an address the object stays, and with it a session that may be up.
TryConnect ==
  /\ Received("TRY")
  /\ mail' = Tail(mail)
  /\ orphaned' = FALSE
  /\ IF net
       THEN /\ pc' = "replacing"
            /\ timers' = timers \ {"TRY", "CHECK"}
            /\ UNCHANGED unwatched
       ELSE /\ timers' = (timers \ {"CHECK"}) \cup {"TRY"}
            /\ unwatched' = TRUE
            /\ UNCHANGED pc
  /\ UNCHANGED <<net, conn, pending, asked, subs, forgotten, status, dying, events>>

\* Mutant: the timer is not armed after an attempt.
NewClientUntimed ==
  /\ pc = "replacing" /\ pc' = "idle"
  /\ conn' = IF net THEN "connecting" ELSE "failed"
  /\ status' = IF conn = "up" THEN "Disconnected" ELSE status
  /\ pending' = {} /\ SessionEnds
  /\ unwatched' = FALSE /\ forgotten' = {}
  /\ UNCHANGED <<net, mail, timers, dying, orphaned, events>>

\* Mutant: the map of topics outlives the object.
NewClientKeepsMap ==
  /\ pc = "replacing" /\ pc' = "idle"
  /\ conn' = IF net THEN "connecting" ELSE "failed"
  /\ status' = IF conn = "up" THEN "Disconnected" ELSE status
  /\ timers' = timers \cup {"TRY"}
  /\ SessionEnds
  /\ unwatched' = FALSE /\ forgotten' = {}
  /\ UNCHANGED <<net, mail, pending, dying, orphaned, events>>

\* The old object is gone, a session that is still up breaks; the new one has a thread
\* if tryConnect gets as far as loop_start.
NewClient ==
  /\ pc = "replacing" /\ pc' = "idle"
  /\ conn' = IF net THEN "connecting" ELSE "failed"
  /\ status' = IF conn = "up" THEN "Disconnected" ELSE status
  /\ timers' = timers \cup {"TRY"}
  /\ pending' = {} /\ SessionEnds
  /\ unwatched' = FALSE /\ forgotten' = {}
  /\ UNCHANGED <<net, mail, dying, orphaned, events>>

\* One second after on_connect, whatever has happened since.
HandleConnected ==
  /\ Received("CONNECTED")
  /\ timers' = timers \ {"TRY"}
  /\ orphaned' = (orphaned \/ ("TRY" \in timers /\ conn = "failed"))
  /\ Instead("GEN_STATUS")
  /\ UNCHANGED <<net, pc, client, status, dying, events>>

\* Mutant: what was published once is not published again.
GenStatusOnce ==
  /\ Received("GEN_STATUS")
  /\ IF conn = "up" /\ status = "none" THEN Instead("STATUS") ELSE mail' = Tail(mail)
  /\ UNCHANGED <<net, pc, timers, client, status, dying, orphaned, events>>

GenStatus ==
  /\ Received("GEN_STATUS")
  /\ IF conn = "up" THEN Instead("STATUS") ELSE mail' = Tail(mail)
  /\ UNCHANGED <<net, pc, timers, client, status, dying, orphaned, events>>

PublishStatus ==
  /\ Received("STATUS")
  /\ mail' = Tail(mail)
  /\ status' = IF conn = "up" THEN "Connected" ELSE status
  /\ UNCHANGED <<net, pc, timers, client, dying, orphaned, events>>

\* SUB_TOPIC_REP; the message numbers start again in each object, so an answer to an
\* earlier one is taken for an answer to this one.  The topic stands for the number: a
\* late answer of the same object, whose number has changed, counts as forgotten too.
HandleSubscribed ==
  /\ Received("SUBSCRIBED")
  /\ mail' = Tail(mail)
  /\ pending' = pending \ {Head(mail).arg}
  /\ forgotten' = forgotten \cup ({Head(mail).arg} \cap (pending \ subs))
  /\ UNCHANGED <<net, conn, pc, timers, asked, subs, status, dying, orphaned,
                 unwatched, events>>

\* Mutant: the topics are asked for again, but not checked again.
CheckTopicsOnce ==
  /\ Received("CHECK")
  /\ mail' = Tail(mail)
  /\ IF conn = "up" THEN asked' = asked \cup pending /\ subs' = subs \ pending
                    ELSE UNCHANGED <<asked, subs>>
  /\ UNCHANGED <<net, conn, pc, timers, pending, status, dying, orphaned, unwatched,
                 forgotten, events>>

\* retrySubTopics
CheckTopics ==
  /\ Received("CHECK")
  /\ mail' = Tail(mail)
  /\ IF conn = "up" /\ pending # {}
       THEN /\ asked' = asked \cup pending /\ subs' = subs \ pending
            /\ timers' = timers \cup {"CHECK"}
       ELSE UNCHANGED <<asked, subs, timers>>
  /\ UNCHANGED <<net, conn, pc, pending, status, dying, orphaned, unwatched,
                 forgotten, events>>

\* The camera says goodbye to the server, if it has one, and deletes the object.
Release ==
  /\ Received("RELEASE")
  /\ mail' = Tail(mail)
  /\ IF conn = "none" THEN UNCHANGED <<pc, pending, asked, subs, status>>
     ELSE /\ pc' = "releasing"
          /\ IF conn = "up"
               THEN /\ status' = "Disconnected"
                    /\ pending' = pending \ {"status"} /\ asked' = asked \ {"status"}
                    /\ subs' = subs \ {"status"}
               ELSE UNCHANGED <<pending, asked, subs, status>>
  /\ UNCHANGED <<net, conn, timers, dying, orphaned, unwatched, forgotten, events>>

Released ==
  /\ pc = "releasing" /\ pc' = "idle"
  /\ conn' = "none"
  /\ status' = IF conn = "up" THEN "Disconnected" ELSE status
  /\ pending' = {} /\ SessionEnds
  /\ unwatched' = FALSE /\ forgotten' = {}
  /\ UNCHANGED <<net, mail, timers, dying, orphaned, events>>

Task ==
  \/ HandleToTry \/ TryConnect \/ NewClient \/ HandleConnected
  \/ GenStatus \/ PublishStatus
  \/ HandleSubscribed \/ CheckTopics \/ Release \/ Released
-----------------------------------------------------------------------------
Next ==
  \/ OnConnect \/ OnRefused \/ OnLost \/ OnOwnDisconnect
  \/ \E t \in Topics : OnSubscribe(t) \/ Unanswered(t)
  \/ NetChanges \/ TryRequested \/ RebootRequested \/ Restart
  \/ \E t \in Timeouts : TimerFires(t)
  \/ Task

\* The task runs, its timers expire, the process is killed when it should be; and a
\* server that can be reached is connected to within the five seconds of an attempt,
\* not always but again and again.
Fairness ==
  /\ WF_vars(Task) /\ WF_vars(Restart) /\ SF_vars(OnConnect)
  /\ WF_vars(TimerFires("TRY")) /\ SF_vars(TimerFires("CONNECTED"))

Spec == Init /\ [][Next]_vars
FairSpec == Spec /\ Fairness
-----------------------------------------------------------------------------
TypeOK ==
  /\ net \in BOOLEAN /\ dying \in BOOLEAN /\ orphaned \in BOOLEAN /\ unwatched \in BOOLEAN
  /\ conn \in {"none", "failed", "connecting", "up", "stopped"}
  /\ pc \in {"idle", "replacing", "releasing"}
  /\ mail \in Seq(Signals)
  /\ timers \subseteq Timeouts
  /\ pending \subseteq Topics /\ asked \subseteq Topics /\ subs \subseteq Topics
  /\ status \in {"none", "Connected", "Disconnected"} /\ forgotten \subseteq Topics
  /\ conn \notin {"up", "stopped"} => asked = {} /\ subs = {}
  /\ conn = "stopped" => pc # "idle"
  /\ conn \in {"none", "failed"} => pending = {}

Mailed(sig) == \E i \in 1..Len(mail) : mail[i].sig = sig

\* A camera without a session will try again: the library's thread connects, or a timer
\* or a message leads to TRY_CONNECT.  Only a late ON_CONNECTED can take that away.
RetryIsDue ==
  \/ conn \in {"connecting", "up"} \/ pc # "idle"
  \/ "TRY" \in timers \/ \E sig \in {"INIT", "TRY", "DISCONNECTED", "SET_CONFIG"} : Mailed(sig)
  \/ orphaned \/ dying

\* In a session each topic is subscribed to, or will be asked for again: the map of
\* topics, the answers and the timer agree, however the objects, their answers and the
\* timeouts overlap.
SubscribedOrRetried ==
  conn = "up" /\ pc = "idle" =>
    \A t \in Topics \ (subs \cup forgotten) :
      t \in pending /\ ("CHECK" \in timers \/ Mailed("CHECK") \/ Mailed("TRY") \/ unwatched)

\* Once the server can be reached for good, the camera has a session again and again.
ReachesServer == <>[]net => []<>(conn = "up" \/ orphaned)

\* A camera whose session lasts is shown as connected in the end.
StatusIsTold == <>[](conn = "up") => <>[](status = "Connected")
=============================================================================
