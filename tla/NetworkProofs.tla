--------------------------- MODULE NetworkProofs ---------------------------
(***************************************************************************)
(* For any number of changes and requests: once the LED has told of an     *)
(* outage, both timers of the recovery stay armed until the restart.       *)
(*                                                                         *)
(* RecoveryStaysArmed is inductive together with the types.  The LED gets  *)
(* to say DISCONNECT only by an event that it takes, and exactly then the  *)
(* timers are armed; a timer goes only in exchange for its message, and    *)
(* the handler of the message sets the timer again.  The types are needed  *)
(* for the callbacks of the LED: none of their events says DISCONNECT.     *)
(***************************************************************************)
EXTENDS Network, SequenceTheorems, TLAPS

SysSigs == {"REBOOT", "CMD_REBOOT"}
Mailed(m, t) == \E i \in 1..Len(m) : m[i].sig = t

\* What is posted takes nothing away and is there afterwards.
LEMMA Posting ==
  ASSUME NEW m \in Seq(Signals), NEW e \in Signals
  PROVE  /\ Append(m, e) \in Seq(Signals)
         /\ \A t : Mailed(Append(m, e), t) <=> Mailed(m, t) \/ e.sig = t
<1>1. /\ Append(m, e) \in Seq(Signals) /\ Len(Append(m, e)) = Len(m) + 1
      /\ Append(m, e)[Len(m) + 1] = e
      /\ \A i \in 1..Len(m) : Append(m, e)[i] = m[i]
      /\ Len(m) \in Nat
  BY AppendProperties, LenProperties
<1> QED  BY <1>1 DEF Mailed

\* Handling a message takes away that message only.
LEMMA Taking ==
  ASSUME NEW m \in Seq(Signals), m # <<>>
  PROVE  /\ Tail(m) \in Seq(Signals) /\ Head(m) \in Signals
         /\ \A t : Mailed(m, t) <=> Mailed(Tail(m), t) \/ Head(m).sig = t
<1>1. /\ Tail(m) \in Seq(Signals) /\ Head(m) \in Signals /\ Head(m) = m[1]
      /\ Len(Tail(m)) = Len(m) - 1 /\ Len(m) \in Nat \ {0}
      /\ \A i \in 1..Len(Tail(m)) : Tail(m)[i] = m[i + 1]
  BY HeadTailProperties, LenProperties, EmptySeq
<1>2. ASSUME NEW t, Mailed(m, t), Head(m).sig # t PROVE Mailed(Tail(m), t)
  <2>1. PICK i \in 1..Len(m) : m[i].sig = t
    BY <1>2 DEF Mailed
  <2>2. i - 1 \in 1..Len(Tail(m)) /\ Tail(m)[i - 1] = m[i]
    BY <2>1, <1>1, <1>2
  <2> QED  BY <2>1, <2>2 DEF Mailed
<1>3. ASSUME NEW t, Mailed(Tail(m), t) PROVE Mailed(m, t)
  BY <1>1, <1>3 DEF Mailed
<1>4. ASSUME NEW t, Head(m).sig = t PROVE Mailed(m, t)
  BY <1>1, <1>4 DEF Mailed
<1> QED  BY <1>1, <1>2, <1>3, <1>4

\* SYS: its mailbox is only typed.
LEMMA SysMail ==
  ASSUME NEW m \in Seq(SysSigs)
  PROVE  /\ \A e \in SysSigs : Append(m, e) \in Seq(SysSigs)
         /\ m # <<>> => Tail(m) \in Seq(SysSigs)
         /\ <<>> \in Seq(SysSigs)
  BY AppendProperties, HeadTailProperties, EmptySeq

LEMMA SignalTypes ==
  /\ \A s \in {"INIT", "RUN_HOSTBLE", "RUN_HOSTAPD", "UPDATED", "RESTART", "REBOOT"} :
       Sig(s) \in Signals /\ Sig(s).sig = s
  /\ \A s \in {"DO_CONNECT", "SET_CONF"}, c \in {"none", "good", "bad"} :
       Msg(s, c) \in Signals /\ Msg(s, c).sig = s
  /\ \A e \in Signals : e.conf \in {"none", "good", "bad"}
BY DEF Sig, Msg, Signals
-----------------------------------------------------------------------------
Leds == [name : {"UNKNOWN", "NET_SETUP", "INTERNET", "USER_CTRL"},
         status : Statuses, priority : {3, 4, 8}, net : Statuses \ {"OK", "BLE_MODE"}]
Told == {Connecting, Pairing, ServerUp, InternetUp, InternetDown}
          \cup (TimerEvents \ {NoEvent})

\* What controlLedEvent makes of each event that it is told.
LEMMA EventFacts ==
  ASSUME NEW e \in Told
  PROVE  /\ PriorityAfter(e) \in {3, 4, 8} /\ TimerAfter(e) \in TimerEvents \cup {ledTimer}
         /\ NetAfter(e) \in (Statuses \ {"OK", "BLE_MODE"}) \cup {led.net}
         /\ NetAfter(e) = "DISCONNECT" => e = InternetDown \/ led.net = "DISCONNECT"
         /\ e.name \in {"UNKNOWN", "NET_SETUP", "INTERNET", "USER_CTRL"} /\ e.status \in Statuses
<1> USE DEF PriorityAfter, TimerAfter, NetAfter, Priority, TimerEvents, Statuses,
            Connecting, Pairing, ServerUp, InternetUp, InternetDown, NoEvent, BlinkOf, Plain, Event
<1>1. CASE e = Connecting
  BY <1>1
<1>2. CASE e = Pairing
  BY <1>2
<1>3. CASE e = ServerUp
  BY <1>3
<1>4. CASE e = InternetUp
  BY <1>4
<1>5. CASE e = InternetDown
  BY <1>5
<1>6. CASE e = Plain("USER_CTRL")
  BY <1>6
<1>7. CASE e = BlinkOf("NET_SETUP", "BLE_MODE")
  BY <1>7
<1>8. CASE e = BlinkOf("INTERNET", "CONNECTED")
  BY <1>8
<1> QED  BY <1>1, <1>2, <1>3, <1>4, <1>5, <1>6, <1>7, <1>8 DEF Told

\* The LED says DISCONNECT after an event only if it said so before or the event armed
\* the recovery.
LEMMA ControlFacts ==
  ASSUME NEW e \in Told, led \in Leds, ledTimer \in TimerEvents, Control(e)
  PROVE  /\ led' \in Leds /\ ledTimer' \in TimerEvents
         /\ led'.net = "DISCONNECT" => led.net = "DISCONNECT" \/ ArmsRecovery(e)
<1>1. CASE Takes(e)
  <2>1. /\ led' = [name |-> e.name, status |-> e.status,
                   priority |-> PriorityAfter(e), net |-> NetAfter(e)]
        /\ ledTimer' = TimerAfter(e)
    BY <1>1 DEF Control
  <2>2. led.net \in Statuses \ {"OK", "BLE_MODE"}
    BY DEF Leds
  <2>3. led' \in Leds /\ ledTimer' \in TimerEvents
    BY <2>1, <2>2, EventFacts DEF Leds
  <2>4. led'.net = NetAfter(e)
    BY <2>1
  <2> QED  BY <1>1, <2>3, <2>4, EventFacts DEF ArmsRecovery
<1>2. CASE ~Takes(e)
  BY <1>2 DEF Control
<1> QED  BY <1>1, <1>2
-----------------------------------------------------------------------------
Inv == TypeOK /\ RecoveryStaysArmed

\* Both conjuncts of RecoveryStaysArmed, of a mailbox m, timers ts and an LED l.
Armed(m, ts, l) ==
  LET Due(t) == t \in ts \/ Mailed(m, t)
  IN (l.net = "DISCONNECT" => Due("RESTART")) /\ (Due("RESTART") <=> Due("REBOOT"))

LEMMA ArmedIs == RecoveryStaysArmed <=> Armed(mail, timers, led)
  BY DEF RecoveryStaysArmed, Armed, Pending, Mailed

LEMMA LedTypes == LedTypeOK <=> led \in Leds /\ ledTimer \in TimerEvents /\ ledCaller \in TimerEvents
  BY DEF LedTypeOK, Leds

LEMMA InitInv == Init => Inv
<1> SUFFICES ASSUME Init PROVE Inv
  OBVIOUS
<1>1. mail = <<Sig("INIT")>> /\ timers = {} /\ sys = <<>> /\ led = LedOff
      /\ ledTimer = NoEvent /\ ledCaller = NoEvent
  BY DEF Init, LedInit
<1>2. mail \in Seq(Signals) /\ Len(mail) = 1 /\ mail[1].sig = "INIT"
  <2>1. Sig("INIT") \in Signals /\ Sig("INIT").sig = "INIT"
    BY SignalTypes
  <2> QED  BY <1>1, <2>1
<1>3. sys \in Seq(SysSigs)
  BY <1>1, EmptySeq
<1>4. led \in Leds /\ ledTimer \in TimerEvents /\ ledCaller \in TimerEvents /\ led.net = "UNKNOWN"
  BY <1>1 DEF LedOff, Leds, Statuses, TimerEvents
<1>5. TypeOK
  BY <1>1, <1>2, <1>3, <1>4, LedTypes DEF Init, TypeOK, SysSigs
<1>6. Armed(mail, timers, led)
  BY <1>1, <1>2, <1>4 DEF Armed, Mailed
<1> QED  BY <1>5, <1>6, ArmedIs DEF Inv

\* One step per action.
LEMMA NextInv == Inv /\ [Next]_vars => Inv'
<1> SUFFICES ASSUME Inv, [Next]_vars PROVE Inv'
  OBVIOUS
<1> DEFINE Types == /\ world \in {"up", "no internet", "no router"} /\ joined \in BOOLEAN
                    /\ file \in {"none", "good", "bad"} /\ bluetooth \in BOOLEAN
                    /\ setup \in {"none", "ble", "ap"} /\ ping \in {"off", "pinging", "storing"}
                    /\ lastState \in BOOLEAN /\ isInternetConnected \in BOOLEAN
                    /\ isOtaRunning \in BOOLEAN /\ seen \in BOOLEAN
           Boxes == mail \in Seq(Signals) /\ sys \in Seq(SysSigs)
                    /\ timers \subseteq {"UPDATED", "RESTART", "REBOOT"}
           Light == led \in Leds /\ ledTimer \in TimerEvents /\ ledCaller \in TimerEvents
<1>a. Types /\ Boxes /\ Light /\ Armed(mail, timers, led)
  BY LedTypes, ArmedIs DEF Inv, TypeOK, SysSigs
<1>b. ASSUME Types', Boxes', Light', Armed(mail, timers, led)' PROVE Inv'
  <2>1. LedTypeOK' /\ RecoveryStaysArmed'
    BY <1>b, LedTypes, ArmedIs, PTL
  <2> QED  BY <1>b, <2>1 DEF Inv, TypeOK, SysSigs
<1>c. \A e \in Signals : /\ Append(mail, e) \in Seq(Signals)
                        /\ \A t : Mailed(Append(mail, e), t) <=> Mailed(mail, t) \/ e.sig = t
  BY <1>a, Posting
<1>d. mail # <<>> => /\ Tail(mail) \in Seq(Signals) /\ Head(mail) \in Signals
                     /\ \A t : Mailed(mail, t) <=> Mailed(Tail(mail), t) \/ Head(mail).sig = t
  BY <1>a, Taking
<1> HIDE DEF Types, Boxes, Light
<1>1. CASE WorldChanges
  <2>1. Types'
    BY <1>1, <1>a DEF WorldChanges, Request, Types
  <2>2. UNCHANGED <<mail, timers, sys, led, ledTimer, ledCaller>>
    BY <1>1 DEF WorldChanges, ledVars
  <2> QED  BY <2>1, <2>2, <1>a, <1>b DEF Boxes, Light
<1>2. CASE ConfigReset
  <2>1. Types'
    BY <1>2, <1>a DEF ConfigReset, Request, Types
  <2>2. UNCHANGED <<mail, timers, sys, led, ledTimer, ledCaller>>
    BY <1>2 DEF ConfigReset, ledVars
  <2> QED  BY <2>1, <2>2, <1>a, <1>b DEF Boxes, Light
<1>3. CASE OtaChanges
  <2>1. Types'
    BY <1>3, <1>a DEF OtaChanges, Request, Types
  <2>2. UNCHANGED <<mail, timers, sys, led, ledTimer, ledCaller>>
    BY <1>3 DEF OtaChanges, ledVars
  <2> QED  BY <2>1, <2>2, <1>a, <1>b DEF Boxes, Light
<1>4. CASE PingStores
  <2>1. Types'
    BY <1>4, <1>a DEF PingStores, Request, Types
  <2>2. UNCHANGED <<mail, timers, sys, led, ledTimer, ledCaller>>
    BY <1>4 DEF PingStores, ledVars
  <2> QED  BY <2>1, <2>2, <1>a, <1>b DEF Boxes, Light
<1>5. CASE PhoneConfigures
  <2>1. PICK c \in {"good", "bad"} : file' = c /\ mail' = Append(mail, Msg("DO_CONNECT", c))
    BY <1>5 DEF PhoneConfigures
  <2>2. Msg("DO_CONNECT", c) \in Signals /\ Msg("DO_CONNECT", c).sig = "DO_CONNECT"
    BY SignalTypes
  <2>3. UNCHANGED <<timers, sys, led, ledTimer, ledCaller>>
    BY <1>5 DEF PhoneConfigures, ledVars
  <2>4. Types'
    BY <1>5, <2>1, <1>a DEF PhoneConfigures, Types
  <2> QED  BY <2>1, <2>2, <2>3, <2>4, <1>a, <1>b, <1>c DEF Boxes, Light, Armed
<1>6. CASE ServerConfigures
  <2>1. PICK c \in {"good", "bad"} : mail' = Append(mail, Msg("SET_CONF", c))
    BY <1>6 DEF ServerConfigures
  <2>2. Msg("SET_CONF", c) \in Signals /\ Msg("SET_CONF", c).sig = "SET_CONF"
    BY SignalTypes
  <2>3. UNCHANGED <<timers, sys, led, ledTimer, ledCaller>> /\ Types'
    BY <1>6, <1>a DEF ServerConfigures, ledVars, Types
  <2> QED  BY <2>1, <2>2, <2>3, <1>a, <1>b, <1>c DEF Boxes, Light, Armed
<1>7. CASE Advertises
  <2>1. Control(Pairing) /\ UNCHANGED <<netVars, ledCaller>>
    BY <1>7 DEF Advertises
  <2>2. Pairing \in Told /\ ~ArmsRecovery(Pairing)
    BY DEF Told, ArmsRecovery, InternetDown, Pairing, Event
  <2>3. Types' /\ UNCHANGED <<mail, timers, sys, ledCaller>>
    BY <2>1, <1>a DEF netVars, Types
  <2>4. led' \in Leds /\ ledTimer' \in TimerEvents /\ (led'.net = "DISCONNECT" => led.net = "DISCONNECT")
    BY <2>1, <2>2, <1>a, ControlFacts DEF Light
  <2> QED  BY <2>3, <2>4, <1>a, <1>b DEF Boxes, Light, Armed
<1>8. CASE ServerConnects
  <2>1. Control(ServerUp) /\ UNCHANGED <<netVars, ledCaller>>
    BY <1>8 DEF ServerConnects
  <2>2. ServerUp \in Told /\ ~ArmsRecovery(ServerUp)
    BY DEF Told, ArmsRecovery, InternetDown, ServerUp, Event
  <2>3. Types' /\ UNCHANGED <<mail, timers, sys, ledCaller>>
    BY <2>1, <1>a DEF netVars, Types
  <2>4. led' \in Leds /\ ledTimer' \in TimerEvents /\ (led'.net = "DISCONNECT" => led.net = "DISCONNECT")
    BY <2>1, <2>2, <1>a, ControlFacts DEF Light
  <2> QED  BY <2>3, <2>4, <1>a, <1>b DEF Boxes, Light, Armed
<1>9. CASE UserSetsLed /\ UNCHANGED netVars
  <2>1. led' \in Leds /\ led'.net = "UNKNOWN"
    BY <1>9, <1>a DEF UserSetsLed, Light, Leds, Statuses
  <2>2. Types' /\ UNCHANGED <<mail, timers, sys, ledTimer, ledCaller>>
    BY <1>9, <1>a DEF UserSetsLed, netVars, Types
  <2> QED  BY <2>1, <2>2, <1>a, <1>b DEF Boxes, Light, Armed
<1>10. CASE Ping
  <2>1. timers' = timers \cup {"UPDATED"} /\ UNCHANGED <<mail, sys, led, ledTimer, ledCaller>>
    BY <1>10 DEF Ping, ledVars
  <2>2. Types'
    BY <1>10, <1>a DEF Ping, Online, Types
  <2> QED  BY <2>1, <2>2, <1>a, <1>b DEF Boxes, Light, Armed
<1>11. ASSUME NEW t \in {"UPDATED", "RESTART", "REBOOT"}, TimerFires(t) PROVE Inv'
  <2>1. /\ t \in timers /\ timers' = timers \ {t} /\ mail' = Append(mail, Sig(t))
        /\ UNCHANGED <<sys, led, ledTimer, ledCaller>>
    BY <1>11 DEF TimerFires, ledVars
  <2>2. Sig(t) \in Signals /\ Sig(t).sig = t
    BY SignalTypes
  <2>3. Types'
    BY <1>11, <1>a DEF TimerFires, Types
  <2>4. \A x : x \in timers' \/ Mailed(mail', x) <=> x \in timers \/ Mailed(mail, x)
    BY <2>1, <2>2, <1>c
  <2>5. Armed(mail, timers, led)'
    BY <2>1, <2>4, <1>a DEF Armed
  <2> QED  BY <2>1, <2>2, <2>3, <2>5, <1>a, <1>b, <1>c DEF Boxes, Light
<1>12. CASE NetworkInit
  <2>1. mail # <<>> /\ Head(mail).sig = "INIT" /\ UNCHANGED <<timers, sys, led, ledTimer, ledCaller>>
    BY <1>12 DEF NetworkInit, Received, ledVars
  <2>2. PICK e \in Signals : mail' = Append(Tail(mail), e) /\ e.sig \notin {"RESTART", "REBOOT"}
    <3>1. CASE file # "none"
      BY <1>12, <3>1, <1>a, SignalTypes DEF NetworkInit, Types
    <3>2. CASE file = "none"
      BY <1>12, <3>2, SignalTypes DEF NetworkInit
    <3> QED  BY <3>1, <3>2
  <2>3. Types'
    BY <1>12, <1>a DEF NetworkInit, Types
  <2> QED  BY <2>1, <2>2, <2>3, <1>a, <1>b, <1>d, Posting DEF Boxes, Light, Armed
<1>13. CASE RunHostble
  <2>1. /\ mail # <<>> /\ Head(mail).sig = "RUN_HOSTBLE" /\ mail' = Tail(mail)
        /\ UNCHANGED <<timers, sys, led, ledTimer, ledCaller>>
    BY <1>13 DEF RunHostble, Received, ledVars
  <2>2. Types'
    BY <1>13, <1>a DEF RunHostble, Types
  <2> QED  BY <2>1, <2>2, <1>a, <1>b, <1>d DEF Boxes, Light, Armed
<1>14. CASE RunHostapd
  <2>1. /\ mail # <<>> /\ Head(mail).sig = "RUN_HOSTAPD" /\ mail' = Tail(mail)
        /\ UNCHANGED <<timers, sys, led, ledTimer, ledCaller>>
    BY <1>14 DEF RunHostapd, Received, ledVars
  <2>2. Types'
    BY <1>14, <1>a DEF RunHostapd, Types
  <2> QED  BY <2>1, <2>2, <1>a, <1>b, <1>d DEF Boxes, Light, Armed
<1>15. CASE SetConf
  <2>1. /\ mail # <<>> /\ Head(mail).sig = "SET_CONF"
        /\ file' = Head(mail).conf /\ mail' = Append(Tail(mail), Msg("DO_CONNECT", file'))
        /\ UNCHANGED <<timers, sys, led, ledTimer, ledCaller>>
    BY <1>15 DEF SetConf, Received, ledVars
  <2>2. file' \in {"none", "good", "bad"}
    BY <2>1, <1>d, SignalTypes
  <2>3. Msg("DO_CONNECT", file') \in Signals /\ Msg("DO_CONNECT", file').sig = "DO_CONNECT"
    BY <2>2, SignalTypes
  <2>4. Types'
    BY <1>15, <2>2, <1>a DEF SetConf, Types
  <2> QED  BY <2>1, <2>3, <2>4, <1>a, <1>b, <1>d, Posting DEF Boxes, Light, Armed
<1>16. CASE DoConnect
  <2>1. /\ mail # <<>> /\ Head(mail).sig = "DO_CONNECT" /\ mail' = Tail(mail)
        /\ UNCHANGED <<timers, sys, ledCaller>>
    BY <1>16 DEF DoConnect, Received
  <2>2. Connecting \in Told /\ ~ArmsRecovery(Connecting)
    BY DEF Told, ArmsRecovery, InternetDown, Connecting, Event
  <2>3. led' \in Leds /\ ledTimer' \in TimerEvents /\ (led'.net = "DISCONNECT" => led.net = "DISCONNECT")
    <3>1. CASE joined'
      BY <1>16, <3>1, <2>2, <1>a, ControlFacts DEF DoConnect, Light
    <3>2. CASE ~joined'
      BY <1>16, <3>2, <1>a DEF DoConnect, Light
    <3> QED  BY <3>1, <3>2
  <2>4. Types'
    BY <1>16, <1>a DEF DoConnect, Types
  <2> QED  BY <2>1, <2>3, <2>4, <1>a, <1>b, <1>d DEF Boxes, Light, Armed
<1>17. CASE InternetUpdated
  <2>0. /\ mail # <<>> /\ Head(mail).sig = "UPDATED" /\ mail' = Tail(mail)
        /\ UNCHANGED <<sys, ledCaller>>
    BY <1>17 DEF InternetUpdated, Received
  <2> DEFINE e == IF isInternetConnected THEN InternetUp ELSE InternetDown
  <2>1. e \in Told
    BY DEF Told
  <2>2. /\ Control(e)
        /\ timers' = timers \cup (IF ArmsRecovery(e) THEN {"RESTART", "REBOOT"} ELSE {})
    BY <1>17 DEF InternetUpdated
  <2> HIDE DEF e
  <2>3. /\ led' \in Leds /\ ledTimer' \in TimerEvents
        /\ led'.net = "DISCONNECT" => led.net = "DISCONNECT" \/ ArmsRecovery(e)
    BY <2>1, <2>2, <1>a, ControlFacts DEF Light
  <2>4. Types'
    BY <1>17, <1>a DEF InternetUpdated, Types
  <2>5. Armed(mail, timers, led)'
    <3>1. CASE ArmsRecovery(e)
      BY <3>1, <2>2 DEF Armed
    <3>2. CASE ~ArmsRecovery(e)
      BY <3>2, <2>0, <2>2, <2>3, <1>a, <1>d DEF Armed
    <3> QED  BY <3>1, <3>2
  <2>6. timers' \subseteq {"UPDATED", "RESTART", "REBOOT"}
    BY <2>2, <1>a DEF Boxes
  <2> QED  BY <2>0, <2>3, <2>4, <2>5, <2>6, <1>a, <1>b, <1>d DEF Boxes, Light
<1>18. CASE RestartUdhcpc
  <2>1. /\ mail # <<>> /\ Head(mail).sig = "RESTART" /\ timers' = timers \cup {"RESTART"}
        /\ UNCHANGED <<sys, led, ledTimer, ledCaller>>
    BY <1>18 DEF RestartUdhcpc, Received, ledVars
  <2>2. mail' \in Seq(Signals) /\ \A t \in {"RESTART", "REBOOT"} : Mailed(mail', t) <=> Mailed(Tail(mail), t)
    <3>1. CASE file = "none"
      BY <1>18, <3>1, <2>1, <1>d DEF RestartUdhcpc
    <3>2. CASE file # "none"
      <4>1. Msg("DO_CONNECT", file) \in Signals /\ Msg("DO_CONNECT", file).sig = "DO_CONNECT"
        BY <1>a, SignalTypes DEF Types
      <4> QED  BY <1>18, <3>2, <4>1, <2>1, <1>d, Posting DEF RestartUdhcpc
    <3> QED  BY <3>1, <3>2
  <2>3. Types'
    BY <1>18, <1>a DEF RestartUdhcpc, Types
  <2>4. Armed(mail, timers, led)'
    BY <2>1, <2>2, <1>a, <1>d DEF Armed
  <2> QED  BY <2>1, <2>2, <2>3, <2>4, <1>a, <1>b DEF Boxes, Light
<1>19. CASE RebootErrorNetwork
  <2>1. /\ mail # <<>> /\ Head(mail).sig = "REBOOT" /\ mail' = Tail(mail)
        /\ timers' = timers \cup {"REBOOT"} /\ UNCHANGED <<led, ledTimer, ledCaller>>
    BY <1>19 DEF RebootErrorNetwork, Received, ledVars
  <2>2. sys' \in Seq(SysSigs)
    BY <1>19, <1>a, SysMail DEF RebootErrorNetwork, SysSigs, Boxes
  <2>3. Types'
    BY <1>19, <1>a DEF RebootErrorNetwork, Types
  <2>4. Armed(mail, timers, led)'
    BY <2>1, <1>a, <1>d DEF Armed
  <2> QED  BY <2>1, <2>2, <2>3, <2>4, <1>a, <1>b, <1>d DEF Boxes, Light
<1>20. CASE RebootReq
  <2>1. UNCHANGED <<mail, timers, led, ledTimer, ledCaller>>
    BY <1>20 DEF RebootReq, ledVars
  <2>2. sys' \in Seq(SysSigs)
    <3>1. Tail(sys) \in Seq(SysSigs)
      BY <1>20, <1>a, SysMail DEF RebootReq, Boxes
    <3> QED  BY <1>20, <3>1, SysMail DEF RebootReq, SysSigs
  <2>3. Types'
    BY <1>20, <1>a DEF RebootReq, Types
  <2> QED  BY <2>1, <2>2, <2>3, <1>a, <1>b DEF Boxes, Light
<1>21. CASE CmdReboot
  <2>1. mail' = <<Sig("INIT")>> /\ timers' = {} /\ sys' = <<>>
        /\ led' = LedOff /\ ledTimer' = NoEvent /\ ledCaller' = NoEvent
    BY <1>21 DEF CmdReboot
  <2>2. mail' \in Seq(Signals) /\ Len(mail') = 1 /\ mail'[1].sig = "INIT"
    <3>1. Sig("INIT") \in Signals /\ Sig("INIT").sig = "INIT"
      BY SignalTypes
    <3> QED  BY <2>1, <3>1
  <2>3. sys' \in Seq(SysSigs)
    BY <2>1, EmptySeq
  <2>4. led' \in Leds /\ ledTimer' \in TimerEvents /\ ledCaller' \in TimerEvents
        /\ led'.net = "UNKNOWN"
    BY <2>1 DEF LedOff, Leds, Statuses, TimerEvents
  <2>5. Types'
    BY <1>21, <1>a DEF CmdReboot, Types
  <2>6. Armed(mail, timers, led)'
    BY <2>1, <2>2, <2>4 DEF Armed, Mailed
  <2> QED  BY <2>1, <2>2, <2>3, <2>4, <2>5, <2>6, <1>b DEF Boxes, Light
<1>22. CASE LedTimerFires /\ UNCHANGED netVars
  <2>1. Light' /\ led' = led
    BY <1>22, <1>a DEF LedTimerFires, Light, TimerEvents
  <2>2. Types' /\ UNCHANGED <<mail, timers, sys>>
    BY <1>22, <1>a DEF netVars, Types
  <2> QED  BY <2>1, <2>2, <1>a, <1>b DEF Boxes, Armed
<1>23. CASE LedCallback /\ UNCHANGED netVars
  <2>1. ledCaller \in Told /\ ~ArmsRecovery(ledCaller)
    BY <1>23, <1>a DEF LedCallback, Light, Told, ArmsRecovery, TimerEvents, InternetDown,
                        BlinkOf, Plain, Event, NoEvent
  <2>2. led' \in Leds /\ ledTimer' \in TimerEvents /\ (led'.net = "DISCONNECT" => led.net = "DISCONNECT")
    BY <1>23, <2>1, <1>a, ControlFacts DEF LedCallback, Light
  <2>3. ledCaller' \in TimerEvents
    BY <1>23 DEF LedCallback, TimerEvents
  <2>4. Types' /\ UNCHANGED <<mail, timers, sys>>
    BY <1>23, <1>a DEF netVars, Types
  <2> QED  BY <2>2, <2>3, <2>4, <1>a, <1>b DEF Boxes, Light, Armed
<1>24. CASE UNCHANGED vars
  <2>1. Types' /\ UNCHANGED <<mail, timers, sys, led, ledTimer, ledCaller>>
    BY <1>24, <1>a DEF vars, netVars, ledVars, Types
  <2> QED  BY <2>1, <1>a, <1>b DEF Boxes, Light
<1> QED
  BY <1>1, <1>2, <1>3, <1>4, <1>5, <1>6, <1>7, <1>8, <1>9, <1>10, <1>11, <1>12, <1>13, <1>14,
     <1>15, <1>16, <1>17, <1>18, <1>19, <1>20, <1>21, <1>22, <1>23, <1>24
     DEF Next, Environment, Task, Sys, LedThread

\* Type correctness, and with it that an LED callback never reports an outage.
THEOREM NetworkTypes == Spec => []TypeOK
<1>1. Spec => []Inv
  BY InitInv, NextInv, PTL DEF Spec
<1>2. Inv => TypeOK
  BY DEF Inv
<1> QED  BY <1>1, <1>2, PTL

\* The recovery of a lost network never loses one of its two timers, for any number of
\* changes of the network and any requests.
THEOREM RecoveryTheorem == Spec => []RecoveryStaysArmed
<1>1. Spec => []Inv
  BY InitInv, NextInv, PTL DEF Spec
<1>2. Inv => RecoveryStaysArmed
  BY DEF Inv
<1> QED  BY <1>1, <1>2, PTL
=============================================================================
