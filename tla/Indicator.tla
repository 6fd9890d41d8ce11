----------------------------- MODULE Indicator -----------------------------
(***************************************************************************)
(* The LED controller, struct Indicator of app/av/fca_gpio.cpp.  It shows  *)
(* the most important event it was told of, and more than shows: an        *)
(* INTERNET_CONNECTION event that says DISCONNECT arms the timers that     *)
(* recover the network, unless the event is ignored.                       *)
(*                                                                         *)
(* Any thread calls controlLedEvent, under the controller's mutex.  The    *)
(* timers of CppTime call it as well: their callback claims _idLedTimer    *)
(* first and waits for the mutex then, and other calls may come between.   *)
(*                                                                         *)
(* Colours are left out; ON and OFF, the halves of a blink, are "BLINK".   *)
(* UPDATE_FIRMWARE, MOTION and POWER_ON are events that nobody reports;    *)
(* after REBOOT the process is killed.                                     *)
(***************************************************************************)
EXTENDS Integers

VARIABLES
  led,        \* eventCur and netStatus
  ledTimer,   \* the event that the timer _idLedTimer will report, or NoEvent
  ledCaller   \* the event of the callback that waits for the mutex, or NoEvent

ledVars == <<led, ledTimer, ledCaller>>

Event(name, status, control) == [name |-> name, status |-> status, control |-> control]
Plain(name) == Event(name, "UNKNOWN", "UNKNOWN")
NoEvent == Plain("NONE")

BlinkOf(name, status) == Event(name, status, "BLINK")
Connecting == Event("NET_SETUP", "OK", "UNKNOWN")
Pairing == Event("NET_SETUP", "BLE_MODE", "ON")
ServerUp == Event("INTERNET", "SERVER_CONNECTED", "UNKNOWN")
InternetUp == Event("INTERNET", "CONNECTED", "START")
InternetDown == Event("INTERNET", "DISCONNECT", "UNKNOWN")

\* getPriority: the smaller, the more important.
Priority(name) ==
  CASE name = "REBOOT" -> 2
    [] name = "NET_SETUP" -> 3
    [] name = "INTERNET" -> 4
    [] OTHER -> 8

LedOff == [name |-> "UNKNOWN", status |-> "UNKNOWN", priority |-> 8, net |-> "UNKNOWN"]

LedInit ==
  /\ led = LedOff
  /\ ledTimer = NoEvent /\ ledCaller = NoEvent

\* The test of controlLedEvent.
Admits(e) == Priority(e.name) <= led.priority \/ e.name = "UNKNOWN"

\* What netStatus says already is not shown again, unless a blink asks for it.
Repeats(e) == e.name = "INTERNET" /\ e.status = led.net /\ e.control # "BLINK"

Takes(e) == Admits(e) /\ ~Repeats(e)

\* The priority that eventCur gets: parserEvent lowers that of two events.
PriorityAfter(e) ==
  CASE e = Connecting -> 4
    [] e = ServerUp -> 8
    [] OTHER -> Priority(e.name)

\* Mutant: every event leaves its status behind.
NetAfterAlways(e) == e.status

NetAfter(e) ==
  CASE e.name = "INTERNET" -> e.status
    [] e = Connecting \/ e.name = "UNKNOWN" -> "UNKNOWN"
    [] OTHER -> led.net

\* NET_SETUP and INTERNET_CONNECTION call removeLedTimer, the others do not.
TimerAfter(e) ==
  CASE e.name = "NET_SETUP" /\ e.status = "BLE_MODE" -> BlinkOf("NET_SETUP", "BLE_MODE")
    [] e.name = "INTERNET" /\ e.status = "CONNECTED" -> BlinkOf("INTERNET", "CONNECTED")
    [] e = ServerUp -> Plain("USER_CTRL")
    [] e.name \in {"NET_SETUP", "INTERNET"} -> NoEvent
    [] OTHER -> ledTimer

\* controlLedEvent, without the timers it arms in the kernel.
Control(e) ==
  IF Takes(e)
    THEN /\ led' = [name |-> e.name, status |-> e.status,
                    priority |-> PriorityAfter(e), net |-> NetAfter(e)]
         /\ ledTimer' = TimerAfter(e)
    ELSE UNCHANGED <<led, ledTimer>>

\* The event arms GW_NET_RESTART_UDHCPC... and GW_NET_REBOOT_ERROR_NETWORK_REQ (and
\* GW_NET_RELOAD_WIFI_DRIVER_REQ, whose handler is empty).
ArmsRecovery(e) == Takes(e) /\ e = InternetDown

\* A callback claims the timer.
LedTimerFires ==
  /\ ledTimer # NoEvent /\ ledCaller = NoEvent
  /\ ledCaller' = ledTimer
  /\ ledTimer' = NoEvent
  /\ led' = led

\* The callback gets the mutex: none of its events is InternetDown.
LedCallback ==
  /\ ledCaller # NoEvent
  /\ Control(ledCaller)
  /\ ledCaller' = NoEvent

\* userSetState to any state but OFF, from the task CONFIG.
UserSetsLed ==
  /\ led.name = "USER_CTRL" \/ (led.name = "INTERNET" /\ led.status = "SERVER_CONNECTED")
  /\ led' = [led EXCEPT !.net = "UNKNOWN"]
  /\ UNCHANGED <<ledTimer, ledCaller>>

\* The LED shows something more important than the state of the internet: whatever
\* controlLedEvent hears of the internet, it ignores.
LedIsTaken == led.priority < Priority("INTERNET")

Statuses == {"UNKNOWN", "OK", "BLE_MODE", "CONNECTED", "SERVER_CONNECTED", "DISCONNECT"}
TimerEvents == {NoEvent, Plain("USER_CTRL"), BlinkOf("NET_SETUP", "BLE_MODE"),
                BlinkOf("INTERNET", "CONNECTED")}

LedTypeOK ==
  /\ led \in [name : {"UNKNOWN", "NET_SETUP", "INTERNET", "USER_CTRL"},
              status : Statuses, priority : {3, 4, 8}, net : Statuses \ {"OK", "BLE_MODE"}]
  /\ ledTimer \in TimerEvents /\ ledCaller \in TimerEvents
=============================================================================
