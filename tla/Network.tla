------------------------------ MODULE Network ------------------------------
(***************************************************************************)
(* app/task_network.cpp: the Wi-Fi station, the services through which a   *)
(* new camera is set up, the thread that pings the internet, and the       *)
(* recovery of a lost network; with the LED controller, which starts the   *)
(* recovery, and the reboot of app/task_sys.cpp, which ends it.            *)
(*                                                                         *)
(* The ping thread tells the task of a change by a timer and then stores   *)
(* it; the task tells the LED controller; an outage makes that arm two     *)
(* timers.  RESTART joins the Wi-Fi again and again, REBOOT restarts the   *)
(* camera.  Nothing takes these timers back: removeCheckErrorNetworkTimers *)
(* has no caller.                                                          *)
(*                                                                         *)
(* A restart of the camera loses everything but the Wi-Fi file.            *)
(* The build has no Ethernet (SUPPORT_ETH := 0 in config.mk), and          *)
(* GW_NET_RESET_WIFI_REQ, GW_NET_SWITCH_AP_MODE_START_REQ and              *)
(* GW_NET_WIFI_STA_CONNECT_TO_ROUTER are sent by nobody.                   *)
(***************************************************************************)
EXTENDS Integers, Sequences, Indicator

CONSTANTS
  MaxTurns,     \* bound: how often the network goes or comes
  MaxRequests   \* bound: what the users, the server and upgrades do

ASSUME NetworkAssumption == MaxTurns \in Nat /\ MaxRequests \in Nat

VARIABLES
  world,      \* "up", "no internet" beyond the router, or "no router"
  joined,     \* the station is associated with the router
  file,       \* the Wi-Fi file: "none", or credentials that are "good" or "bad"
  bluetooth,  \* selectedBluetoothMode
  setup,      \* the set-up service that is open
  ping,       \* the ping thread: before the first ping, pinging, about to store
  lastState,  \* its last result
  isInternetConnected,
  mail,       \* the mailbox of the task
  timers,     \* the task's timers in the kernel
  sys,        \* the mailbox of SYS
  isOtaRunning,
  seen,       \* history: a ping has succeeded since the start
  turns, requests

netVars == <<world, joined, file, bluetooth, setup, ping, lastState, isInternetConnected,
             mail, timers, sys, isOtaRunning, seen, turns, requests>>
vars == <<netVars, ledVars>>

Msg(sig, conf) == [sig |-> sig, conf |-> conf]
Sig(sig) == Msg(sig, "none")

Init ==
  /\ world = "up" /\ file \in {"none", "good"}
  /\ bluetooth \in BOOLEAN
  /\ turns = 0 /\ requests = 0
  /\ joined = FALSE /\ setup = "none"
  /\ ping = "off" /\ lastState = FALSE /\ isInternetConnected = FALSE
  /\ mail = <<Sig("INIT")>> /\ timers = {}
  /\ sys = <<>> /\ isOtaRunning = FALSE
  /\ seen = FALSE
  /\ LedInit

Online == joined /\ world = "up"
-----------------------------------------------------------------------------
(* The surroundings, the users, the tasks CLOUD, CONFIG and FW *)

Request == requests < MaxRequests /\ requests' = requests + 1 /\ turns' = turns

\* Without the router the association is lost; it does not come back by itself.
WorldChanges ==
  /\ turns < MaxTurns /\ turns' = turns + 1 /\ requests' = requests
  /\ world' \in {"up", "no internet", "no router"} \ {world}
  /\ joined' = (joined /\ world' # "no router")
  /\ UNCHANGED <<file, bluetooth, setup, ping, lastState, isInternetConnected,
                 mail, timers, sys, isOtaRunning, seen, ledVars>>

\* A phone sends credentials over BLE or to the access point: the file is written and
\* the task told.
PhoneConfigures ==
  /\ Request
  /\ setup # "none"
  /\ \E conf \in {"good", "bad"} :
       file' = conf /\ mail' = Append(mail, Msg("DO_CONNECT", conf))
  /\ UNCHANGED <<world, joined, bluetooth, setup, ping, lastState, isInternetConnected,
                 timers, sys, isOtaRunning, seen, ledVars>>

\* The server resets the configuration: GW_CONFIG_SET_RESET_CONFIG_REQ.
ConfigReset ==
  /\ Request
  /\ Online /\ file' = "none"
  /\ UNCHANGED <<world, joined, bluetooth, setup, ping, lastState, isInternetConnected,
                 mail, timers, sys, isOtaRunning, seen, ledVars>>

\* The server sends credentials: GW_NET_WIFI_MQTT_SET_CONF_REQ, which the task handles.
ServerConfigures ==
  /\ Request
  /\ Online
  /\ \E conf \in {"good", "bad"} : mail' = Append(mail, Msg("SET_CONF", conf))
  /\ UNCHANGED <<world, joined, file, bluetooth, setup, ping, lastState,
                 isInternetConnected, timers, sys, isOtaRunning, seen, ledVars>>

\* An upgrade begins or ends (module Upgrade).
OtaChanges ==
  /\ Request
  /\ isOtaRunning' = ~isOtaRunning
  /\ UNCHANGED <<world, joined, file, bluetooth, setup, ping, lastState,
                 isInternetConnected, mail, timers, sys, seen, ledVars>>

\* FCA_BLE_ADV_ENABLE: the stack advertises, at first and after each connection.
Advertises ==
  /\ setup = "ble"
  /\ Control(Pairing)
  /\ UNCHANGED <<netVars, ledCaller>>

\* The task CLOUD handles ON_CONNECTED: a second after the callback, for a refused
\* session too (module Cloud), so that the camera may be offline.
ServerConnects ==
  /\ Control(ServerUp)
  /\ UNCHANGED <<netVars, ledCaller>>

Environment ==
  \/ WorldChanges \/ PhoneConfigures \/ ConfigReset \/ ServerConfigures \/ OtaChanges
  \/ Advertises \/ ServerConnects \/ (UserSetsLed /\ UNCHANGED netVars)
-----------------------------------------------------------------------------
(* pingInternetCalls *)

\* A ping with the result of the one before changes nothing.
Ping ==
  /\ ping = "pinging"
  /\ Online # lastState
  /\ lastState' = Online
  /\ timers' = timers \cup {"UPDATED"}
  /\ ping' = "storing"
  /\ seen' = (seen \/ Online)
  /\ UNCHANGED <<world, joined, file, bluetooth, setup, isInternetConnected,
                 mail, sys, isOtaRunning, turns, requests, ledVars>>

\* Mutant: what is stored is the result before this one.
PingStoresOld ==
  /\ ping = "storing"
  /\ isInternetConnected' = ~lastState
  /\ ping' = "pinging"
  /\ UNCHANGED <<world, joined, file, bluetooth, setup, lastState,
                 mail, timers, sys, isOtaRunning, seen, turns, requests, ledVars>>

PingStores ==
  /\ ping = "storing"
  /\ isInternetConnected' = lastState
  /\ ping' = "pinging"
  /\ UNCHANGED <<world, joined, file, bluetooth, setup, lastState,
                 mail, timers, sys, isOtaRunning, seen, turns, requests, ledVars>>
-----------------------------------------------------------------------------
(* The timers of the kernel *)

\* The 1.5 s of UPDATED are longer than the store that follows timer_set.  In the minutes
\* of RESTART and the hours of REBOOT the tasks have read their mail.
TimerFires(t) ==
  /\ t \in timers
  /\ IF t = "UPDATED" THEN ping # "storing" ELSE mail = <<>> /\ sys = <<>>
  /\ timers' = timers \ {t}
  /\ mail' = Append(mail, Sig(t))
  /\ UNCHANGED <<world, joined, file, bluetooth, setup, ping, lastState,
                 isInternetConnected, sys, isOtaRunning, seen, turns, requests, ledVars>>
-----------------------------------------------------------------------------
(* gw_task_network_entry *)

Received(sig) == mail # <<>> /\ Head(mail).sig = sig

\* With a Wi-Fi file the task connects, without one it opens a service.
NetworkInit ==
  /\ Received("INIT")
  /\ mail' = Append(Tail(mail),
               IF file # "none" THEN Msg("DO_CONNECT", file)
               ELSE Sig(IF bluetooth THEN "RUN_HOSTBLE" ELSE "RUN_HOSTAPD"))
  /\ ping' = "pinging"
  /\ UNCHANGED <<world, joined, file, bluetooth, setup, lastState, isInternetConnected,
                 timers, sys, isOtaRunning, seen, turns, requests, ledVars>>

RunHostble ==
  /\ Received("RUN_HOSTBLE")
  /\ mail' = Tail(mail)
  /\ setup' = "ble"
  /\ UNCHANGED <<world, joined, file, bluetooth, ping, lastState, isInternetConnected,
                 timers, sys, isOtaRunning, seen, turns, requests, ledVars>>

RunHostapd ==
  /\ Received("RUN_HOSTAPD")
  /\ mail' = Tail(mail)
  /\ setup' = "ap"
  /\ UNCHANGED <<world, joined, file, bluetooth, ping, lastState, isInternetConnected,
                 timers, sys, isOtaRunning, seen, turns, requests, ledVars>>

SetConf ==
  /\ Received("SET_CONF")
  /\ file' = Head(mail).conf
  /\ mail' = Append(Tail(mail), Msg("DO_CONNECT", file'))
  /\ UNCHANGED <<world, joined, bluetooth, setup, ping, lastState, isInternetConnected,
                 timers, sys, isOtaRunning, seen, turns, requests, ledVars>>

\* The services are closed before it is known whether the station can join.
DoConnect ==
  /\ Received("DO_CONNECT")
  /\ mail' = Tail(mail)
  /\ setup' = "none"
  /\ joined' = (Head(mail).conf = "good" /\ world # "no router")
  /\ IF joined' THEN Control(Connecting) ELSE UNCHANGED <<led, ledTimer>>
  /\ UNCHANGED <<world, file, bluetooth, ping, lastState, isInternetConnected,
                 timers, sys, isOtaRunning, seen, turns, requests, ledCaller>>

\* Mutant: the LED is told, the timers are not armed.
InternetUpdatedUnarmed ==
  /\ Received("UPDATED")
  /\ mail' = Tail(mail)
  /\ Control(IF isInternetConnected THEN InternetUp ELSE InternetDown)
  /\ UNCHANGED <<world, joined, file, bluetooth, setup, ping, lastState, timers,
                 isInternetConnected, sys, isOtaRunning, seen, turns, requests, ledCaller>>

InternetUpdated ==
  /\ Received("UPDATED")
  /\ mail' = Tail(mail)
  /\ LET e == IF isInternetConnected THEN InternetUp ELSE InternetDown
     IN /\ Control(e)
        /\ timers' = timers \cup (IF ArmsRecovery(e) THEN {"RESTART", "REBOOT"} ELSE {})
  /\ UNCHANGED <<world, joined, file, bluetooth, setup, ping, lastState,
                 isInternetConnected, sys, isOtaRunning, seen, turns, requests, ledCaller>>

\* Mutant: without a Wi-Fi file the timer is not armed again.
RestartUdhcpcIfConfigured ==
  /\ Received("RESTART")
  /\ mail' = IF file = "none" THEN Tail(mail)
             ELSE Append(Tail(mail), Msg("DO_CONNECT", file))
  /\ timers' = IF file = "none" THEN timers ELSE timers \cup {"RESTART"}
  /\ UNCHANGED <<world, joined, file, bluetooth, setup, ping, lastState,
                 isInternetConnected, sys, isOtaRunning, seen, turns, requests, ledVars>>

\* The station joins again, whether the internet is there or not.
RestartUdhcpc ==
  /\ Received("RESTART")
  /\ mail' = IF file = "none" THEN Tail(mail)
             ELSE Append(Tail(mail), Msg("DO_CONNECT", file))
  /\ timers' = timers \cup {"RESTART"}
  /\ UNCHANGED <<world, joined, file, bluetooth, setup, ping, lastState,
                 isInternetConnected, sys, isOtaRunning, seen, turns, requests, ledVars>>

\* The camera is restarted, whether the internet is there or not.
RebootErrorNetwork ==
  /\ Received("REBOOT")
  /\ mail' = Tail(mail)
  /\ sys' = IF file = "none" THEN sys ELSE Append(sys, "REBOOT")
  /\ timers' = timers \cup {"REBOOT"}
  /\ UNCHANGED <<world, joined, file, bluetooth, setup, ping, lastState,
                 isInternetConnected, isOtaRunning, seen, turns, requests, ledVars>>

Task ==
  \/ NetworkInit \/ RunHostble \/ RunHostapd \/ SetConf
  \/ DoConnect \/ InternetUpdated \/ RestartUdhcpc \/ RebootErrorNetwork
-----------------------------------------------------------------------------
(* gw_task_sys_entry *)

RebootReq ==
  /\ sys # <<>> /\ Head(sys) = "REBOOT"
  /\ sys' = IF isOtaRunning THEN Tail(sys) ELSE Append(Tail(sys), "CMD_REBOOT")
  /\ UNCHANGED <<world, joined, file, bluetooth, setup, ping, lastState,
                 isInternetConnected, mail, timers, isOtaRunning, seen, turns, requests, ledVars>>

\* The process is killed before the LED, which shows the reboot, can be told otherwise.
CmdReboot ==
  /\ sys # <<>> /\ Head(sys) = "CMD_REBOOT"
  /\ joined' = FALSE /\ setup' = "none"
  /\ ping' = "off" /\ lastState' = FALSE /\ isInternetConnected' = FALSE
  /\ mail' = <<Sig("INIT")>> /\ timers' = {}
  /\ sys' = <<>> /\ isOtaRunning' = FALSE
  /\ seen' = FALSE
  /\ led' = LedOff /\ ledTimer' = NoEvent /\ ledCaller' = NoEvent
  /\ UNCHANGED <<world, file, bluetooth, turns, requests>>

Sys == RebootReq \/ CmdReboot
-----------------------------------------------------------------------------
LedThread == (LedTimerFires \/ LedCallback) /\ UNCHANGED netVars

Next ==
  \/ Environment \/ Ping \/ PingStores \/ Task \/ Sys \/ LedThread
  \/ \E t \in {"UPDATED", "RESTART", "REBOOT"} : TimerFires(t)

\* The threads of the camera run and its timers expire: those that are fired only when
\* the mailboxes are empty expire whatever the others do.
Fairness ==
  /\ WF_vars(Ping) /\ WF_vars(PingStores) /\ WF_vars(Task) /\ WF_vars(Sys)
  /\ WF_vars(LedThread)
  /\ \A t \in {"UPDATED", "RESTART", "REBOOT"} : SF_vars(TimerFires(t))

Spec == Init /\ [][Next]_vars
FairSpec == Spec /\ Fairness
-----------------------------------------------------------------------------
Signals ==
  [sig : {"INIT", "DO_CONNECT", "SET_CONF", "RUN_HOSTBLE", "RUN_HOSTAPD",
          "UPDATED", "RESTART", "REBOOT"},
   conf : {"none", "good", "bad"}]

TypeOK ==
  /\ world \in {"up", "no internet", "no router"} /\ joined \in BOOLEAN
  /\ file \in {"none", "good", "bad"} /\ bluetooth \in BOOLEAN
  /\ setup \in {"none", "ble", "ap"} /\ ping \in {"off", "pinging", "storing"}
  /\ lastState \in BOOLEAN /\ isInternetConnected \in BOOLEAN
  /\ isOtaRunning \in BOOLEAN /\ seen \in BOOLEAN
  /\ mail \in Seq(Signals) /\ timers \subseteq {"UPDATED", "RESTART", "REBOOT"}
  /\ sys \in Seq({"REBOOT", "CMD_REBOOT"})
  /\ LedTypeOK

\* The timer is armed, or its timeout waits for the task.
Pending(t) == t \in timers \/ \E i \in 1..Len(mail) : mail[i].sig = t

\* Once an outage was shown, both ways out of it stay open until the restart: the one
\* never goes without the other, whatever is reset, refused or handled late.
RecoveryStaysArmed ==
  /\ led.net = "DISCONNECT" => Pending("RESTART")
  /\ Pending("RESTART") <=> Pending("REBOOT")

\* From some moment on there is a network that the camera could join.
NetworkIsBack == <>[](world = "up" /\ file = "good")

\* A camera that was online once since its start comes back when the network does,
\* unless the LED is taken: then nobody hears of the outage.
ComesBack == NetworkIsBack => []<>(Online \/ ~seen \/ LedIsTaken)

\* When the internet is there to stay, the LED does not go on telling of an outage.
OutageIsOverOnLed == <>[]Online => <>[](led.net # "DISCONNECT" \/ LedIsTaken)
=============================================================================
