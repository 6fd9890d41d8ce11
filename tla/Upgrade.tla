------------------------------ MODULE Upgrade ------------------------------
(***************************************************************************)
(* The firmware upgrade: app/task_fw.cpp, and of app/task_sys.cpp the      *)
(* reboot, which isOtaRunning is to keep away from an upgrade.             *)
(*                                                                         *)
(* The flag is set and cleared by the task FW and read by the task SYS.    *)
(* An upgrade goes from GET_URL over DOWNLOAD_START to a worker of         *)
(* MainThread, which writes FIRMWARE_FILE, checks its MD5 and posts        *)
(* UPGRADE_START or RELEASE; a flash that succeeded is followed by the     *)
(* RELEASE of a timer, one that failed by a reboot.                        *)
(*                                                                         *)
(* The build is that of config.mk, RELEASE := 0, in which the watchdog     *)
(* that the upgrade stops and starts does nothing.                         *)
(***************************************************************************)
EXTENDS Integers, Sequences, FiniteSets

CONSTANTS MaxRequests  \* bound: the requests of the server

ASSUME UpgradeAssumption == MaxRequests \in Nat

VARIABLES
  running,     \* isOtaRunning
  fw, sys,     \* the mailboxes
  queued,      \* the downloads in the queue of MainThread
  downloading, \* those a worker of MainThread runs
  file,        \* FIRMWARE_FILE
  flashing,    \* the task FW is in fca_sys_fw_ota
  timer,       \* the timer of RELEASE
  requests

vars == <<running, fw, sys, queued, downloading, file, flashing, timer, requests>>

WORKERS == 2   \* MainThread("rtcHandler", 2)

Init ==
  /\ running = FALSE /\ fw = <<>> /\ sys = <<>>
  /\ queued = 0 /\ downloading = 0 /\ file = "none"
  /\ flashing = FALSE /\ timer = FALSE
  /\ requests = 0
-----------------------------------------------------------------------------
\* The server asks for an upgrade or a reboot.
Request ==
  /\ requests < MaxRequests
  /\ requests' = requests + 1
  /\ \/ fw' = Append(fw, "GET_URL") /\ sys' = sys
     \/ sys' = Append(sys, "REBOOT") /\ fw' = fw
  /\ UNCHANGED <<running, queued, downloading, file, flashing, timer>>

FwReceives(signal) == ~flashing /\ fw # <<>> /\ Head(fw) = signal

\* Mutant: a request starts a second upgrade.
GetUrlTwice ==
  /\ FwReceives("GET_URL")
  /\ \/ fw' = Append(Tail(fw), "DOWNLOAD_START") /\ running' = TRUE
     \/ fw' = Tail(fw) /\ running' = running
  /\ UNCHANGED <<sys, queued, downloading, file, flashing, timer, requests>>

\* The firmware is for this model or it is not.
GetUrl ==
  /\ FwReceives("GET_URL")
  /\ \/ ~running /\ fw' = Append(Tail(fw), "DOWNLOAD_START") /\ running' = TRUE
     \/ fw' = Tail(fw) /\ running' = running
  /\ UNCHANGED <<sys, queued, downloading, file, flashing, timer, requests>>

DownloadStart ==
  /\ FwReceives("DOWNLOAD_START")
  /\ fw' = Tail(fw)
  /\ queued' = queued + 1
  /\ UNCHANGED <<running, sys, downloading, file, flashing, timer, requests>>

\* A worker begins to write the file.
DownloadBegins ==
  /\ queued > 0 /\ downloading < WORKERS
  /\ queued' = queued - 1 /\ downloading' = downloading + 1
  /\ file' = "partial"
  /\ UNCHANGED <<running, fw, sys, flashing, timer, requests>>

\* Mutant: the file is removed, the task not told.
DownloadFailsSilently ==
  /\ downloading > 0
  /\ downloading' = downloading - 1
  /\ file' = "none"
  /\ UNCHANGED <<running, fw, sys, queued, flashing, timer, requests>>

\* The download timed out or the MD5 is not that of the request.
DownloadFails ==
  /\ downloading > 0
  /\ downloading' = downloading - 1
  /\ file' = "none"
  /\ fw' = Append(fw, "RELEASE")
  /\ UNCHANGED <<running, sys, queued, flashing, timer, requests>>

DownloadSucceeds ==
  /\ downloading > 0
  /\ downloading' = downloading - 1
  /\ file' = "checked"
  /\ fw' = Append(fw, "UPGRADE_START")
  /\ UNCHANGED <<running, sys, queued, flashing, timer, requests>>

DownloadEnds == DownloadFails \/ DownloadSucceeds

UpgradeStart ==
  /\ FwReceives("UPGRADE_START")
  /\ fw' = Tail(fw)
  /\ flashing' = TRUE
  /\ UNCHANGED <<running, sys, queued, downloading, file, timer, requests>>

\* Mutant: the timer is set after a failure as well.
FlashFailsTimer ==
  /\ flashing
  /\ flashing' = FALSE
  /\ running' = FALSE
  /\ timer' = TRUE
  /\ sys' = Append(sys, "REBOOT")
  /\ UNCHANGED <<fw, queued, downloading, file, requests>>

FlashFails ==
  /\ flashing
  /\ flashing' = FALSE
  /\ running' = FALSE
  /\ sys' = Append(sys, "REBOOT")
  /\ UNCHANGED <<fw, queued, downloading, file, timer, requests>>

FlashSucceeds ==
  /\ flashing
  /\ flashing' = FALSE
  /\ timer' = TRUE
  /\ UNCHANGED <<running, fw, sys, queued, downloading, file, requests>>

Flash == FlashFails \/ FlashSucceeds

ReleaseTimeout ==
  /\ timer
  /\ timer' = FALSE
  /\ fw' = Append(fw, "RELEASE")
  /\ UNCHANGED <<running, sys, queued, downloading, file, flashing, requests>>

Release ==
  /\ FwReceives("RELEASE")
  /\ fw' = Tail(fw)
  /\ running' = FALSE
  /\ UNCHANGED <<sys, queued, downloading, file, flashing, timer, requests>>

\* The reboot is refused during an upgrade.
Reboot ==
  /\ sys # <<>> /\ Head(sys) = "REBOOT"
  /\ sys' = IF running THEN Tail(sys) ELSE Append(Tail(sys), "CMD_REBOOT")
  /\ UNCHANGED <<running, fw, queued, downloading, file, flashing, timer, requests>>

\* The camera starts again, whatever it was at.  /tmp is in memory: no file survives.
CmdReboot ==
  /\ sys # <<>> /\ Head(sys) = "CMD_REBOOT"
  /\ running' = FALSE /\ fw' = <<>> /\ sys' = <<>>
  /\ queued' = 0 /\ downloading' = 0 /\ file' = "none"
  /\ flashing' = FALSE /\ timer' = FALSE
  /\ UNCHANGED requests

Fw == GetUrl \/ DownloadStart \/ UpgradeStart \/ Flash \/ Release
Sys == Reboot \/ CmdReboot
-----------------------------------------------------------------------------
Next == Request \/ Fw \/ DownloadBegins \/ DownloadEnds \/ ReleaseTimeout \/ Sys

\* Tasks and workers run, the download times out and the timer expires.
Fairness ==
  /\ WF_vars(Fw) /\ WF_vars(Sys)
  /\ WF_vars(DownloadBegins) /\ WF_vars(DownloadEnds) /\ WF_vars(ReleaseTimeout)

Spec == Init /\ [][Next]_vars
FairSpec == Spec /\ Fairness
-----------------------------------------------------------------------------
Count(box, signal) == Cardinality({i \in 1..Len(box) : box[i] = signal})

Bit(b) == IF b THEN 1 ELSE 0

\* The places an upgrade can be in.
Stages ==
  Count(fw, "DOWNLOAD_START") + queued + downloading + Count(fw, "UPGRADE_START")
    + Count(fw, "RELEASE") + Bit(flashing) + Bit(timer)

TypeOK ==
  /\ running \in BOOLEAN /\ flashing \in BOOLEAN /\ timer \in BOOLEAN
  /\ fw \in Seq({"GET_URL", "DOWNLOAD_START", "UPGRADE_START", "RELEASE"})
  /\ sys \in Seq({"REBOOT", "CMD_REBOOT"})
  /\ queued \in Nat /\ downloading \in 0..WORKERS
  /\ file \in {"none", "partial", "checked"}

\* isOtaRunning is set exactly while an upgrade is in one of its stages, and it is in one
\* only, through requests that come at any moment, failures and reboots.
OneUpgrade == Stages = Bit(running)

\* Nothing writes or removes FIRMWARE_FILE between its MD5 check and the end of the flash:
\* what is flashed is what was checked.
FlashedIsChecked == flashing \/ Count(fw, "UPGRADE_START") > 0 => file = "checked"

\* No upgrade keeps the flag for ever: a later one can start.
UpgradeEnds == running ~> ~running
=============================================================================
