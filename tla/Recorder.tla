------------------------------ MODULE Recorder ------------------------------
(***************************************************************************)
(* Recording to the SD card: app/task_record.cpp, storage/SdCard.cpp and   *)
(* the MP4v2Writer of storage/recorder.cpp.                                *)
(*                                                                         *)
(* The task, the scanner of the card, the capture threads and the thread   *)
(* that formats the card share enablePollingCaptureSamples, the state of   *)
(* the card and the writer.  A step is what a thread does under one lock,  *)
(* or between two accesses to shared state.                                *)
(*                                                                         *)
(* The k-th PREPARE creates the k-th video and the k-th audio thread.  Of  *)
(* the frames only the I frames matter: the others change nothing here.    *)
(***************************************************************************)
EXTENDS Integers, Sequences, SequencesExt

CONSTANTS
  MaxCaptures, \* bound: the PREPAREs that the events below can lead to
  MaxDay,      \* bound: the dates of the run
  MaxEvents    \* bound: removals, failing mounts, erased folders, formats, midnights

ASSUME RecorderAssumption ==
  /\ {MaxCaptures, MaxEvents} \subseteq Nat
  /\ MaxCaptures > MaxEvents
  /\ MaxDay \in Nat \ {0}

Captures == 1..MaxCaptures
Days == 1..MaxDay

VARIABLES
  disk,       \* the card is in its slot
  fs,         \* at the mount point: "none", "live", or "dead", a card that is gone
  dirs,       \* the folders, named by date, on the card
  mState,     \* the state of the card, mPerformTestWrite and mContainerFolder
  mPerformTestWrite, mContainerFolder,
  polling,    \* mEnablePollingScanner
  spc, lastState,      \* the scanner thread
  mail, tpc,           \* the task
  containerFolder, armed, \* its global, and whether the timer GW_RECORD_CLOSE is set
  enable,     \* enablePollingCaptureSamples
  joinable,   \* thCaptureSamplesId[0]: 0, or the audio thread it holds
  prepared,   \* the number of PREPAREs done
  vpc, apc,   \* the video and audio threads
  fpc,        \* the thread that formats the card
  open, mPromiseSafeClosure,  \* the writer
  day, events

card == <<disk, fs, dirs>>
sdcard == <<mState, mPerformTestWrite, mContainerFolder, polling>>
scanner == <<spc, lastState>>
task == <<mail, tpc, containerFolder, armed>>
capture == <<enable, joinable, prepared, vpc, apc>>
writer == <<open, mPromiseSafeClosure>>
env == <<day, events>>
vars == <<card, sdcard, scanner, task, capture, fpc, writer, env>>

Init ==
  /\ disk \in BOOLEAN /\ fs = "none" /\ dirs = {}
  /\ mState = "REMOVED" /\ mPerformTestWrite = TRUE /\ mContainerFolder = 0
  /\ polling = FALSE /\ spc = "none" /\ lastState = "REMOVED"
  /\ mail = <<"INIT">> /\ tpc = "idle" /\ containerFolder = 0 /\ armed = FALSE
  /\ enable = FALSE /\ joinable = 0 /\ prepared = 0
  /\ vpc = [k \in Captures |-> "none"] /\ apc = [k \in Captures |-> "none"]
  /\ fpc = "none"
  /\ open = FALSE /\ mPromiseSafeClosure = FALSE
  /\ day = 1 /\ events = 0
-----------------------------------------------------------------------------
(* The world: the card, the clock, the requests of users. *)

\* The new card is blank, and was out long enough for the scanner to see it.
InsertCard ==
  /\ ~disk
  /\ mState = "REMOVED"
  /\ disk' = TRUE /\ dirs' = {}
  /\ UNCHANGED <<fs, sdcard, scanner, task, capture, fpc, writer, env>>

RemoveCard ==
  /\ disk
  /\ events < MaxEvents
  /\ disk' = FALSE
  /\ fs' = IF fs = "live" THEN "dead" ELSE fs
  /\ events' = events + 1
  /\ UNCHANGED <<dirs, sdcard, scanner, task, capture, fpc, writer, day>>

Midnight ==
  /\ day + 1 \in Days
  /\ events < MaxEvents
  /\ day' = day + 1
  /\ events' = events + 1
  /\ UNCHANGED <<card, sdcard, scanner, task, capture, fpc, writer>>

\* The requests come one at a time, after the first GW_RECORD_INIT.
RequestFormat ==
  /\ events < MaxEvents
  /\ fpc = "none" /\ spc # "none" /\ ~Contains(mail, "FORMAT")
  /\ mail' = Append(mail, "FORMAT")
  /\ events' = events + 1
  /\ UNCHANGED <<card, sdcard, scanner, tpc, containerFolder, armed, capture, fpc,
                 writer, day>>
-----------------------------------------------------------------------------
(* SdCard: the scanner *)

\* What scans() finds: the card, a mount that works, a write test that passes.
Scan(mounts, healthy) ==
  /\ spc = "scan"
  /\ polling
  /\ \/ mounts /\ healthy /\ events' = events
     \/ ~(mounts /\ healthy) /\ disk /\ fs = "none" /\ events < MaxEvents /\ events' = events + 1
  /\ CASE ~disk ->
            /\ mState' = "REMOVED"
            /\ mPerformTestWrite' = (mState # "REMOVED" \/ mPerformTestWrite)
            /\ fs' = fs
       [] disk /\ fs # "none" ->
            mState' = "MOUNTED" /\ UNCHANGED <<mPerformTestWrite, fs>>
       [] disk /\ fs = "none" /\ ~mounts ->
            mState' = "INSERTED" /\ UNCHANGED <<mPerformTestWrite, fs>>
       [] disk /\ fs = "none" /\ mounts /\ mPerformTestWrite /\ ~healthy ->
            mState' = "REMOVED" /\ UNCHANGED <<mPerformTestWrite, fs>>
       [] OTHER ->
            mState' = "MOUNTED" /\ mPerformTestWrite' = FALSE /\ fs' = "live"
  /\ spc' = "report"
  /\ UNCHANGED <<disk, dirs, mContainerFolder, polling, lastState, task, capture, fpc,
                 writer, day>>

\* The callback of the task posts nothing for an inserted card.
StatusSig(state) ==
  CASE state = "REMOVED" -> <<"ON_REMOVED">>
    [] state = "MOUNTED" -> <<"ON_MOUNTED">>
    [] OTHER -> <<>>

\* Mutant: the scanner forgets what it has reported.
ReportAlways ==
  /\ spc = "report"
  /\ mail' = mail \o StatusSig(mState)
  /\ spc' = "scan"
  /\ UNCHANGED <<card, sdcard, lastState, tpc, containerFolder, armed, capture, fpc, writer, env>>

Report ==
  /\ spc = "report"
  /\ mail' = IF mState # lastState THEN mail \o StatusSig(mState) ELSE mail
  /\ lastState' = mState
  /\ spc' = "scan"
  /\ UNCHANGED <<card, sdcard, tpc, containerFolder, armed, capture, fpc, writer, env>>

\* More than 80% of the card are used: the oldest folder goes.
EraseOldestFolder ==
  /\ spc = "scan"
  /\ lastState = "MOUNTED" /\ mState = "MOUNTED"
  /\ events < MaxEvents
  /\ fs = "live" /\ dirs # {}
  /\ dirs' = {d \in dirs : \E e \in dirs : e < d}
  /\ events' = events + 1
  /\ UNCHANGED <<disk, fs, sdcard, scanner, task, capture, fpc, writer, day>>

ScannerEnds ==
  /\ spc = "scan"
  /\ ~polling
  /\ spc' = "done"
  /\ UNCHANGED <<card, sdcard, lastState, task, capture, fpc, writer, env>>

Scanner ==
  \/ \E mounts, healthy \in BOOLEAN : Scan(mounts, healthy)
  \/ Report \/ EraseOldestFolder \/ ScannerEnds
-----------------------------------------------------------------------------
(* MP4v2Writer *)

\* close(): the descriptor is posted when the file got its final name.
Close(done) ==
  /\ open' = FALSE
  /\ UNCHANGED mPromiseSafeClosure
  /\ mail' = IF open /\ done THEN Append(mail, "UPDATE_INDEX") ELSE mail

\* Mp4v2CreateMP4File succeeds when the folder exists: nothing is known of the
\* root directory and of the bare mount point.
Creates(ok) ==
  CASE containerFolder = 0 \/ fs = "none" -> ok \in BOOLEAN
    [] fs = "dead" -> ok = FALSE
    [] OTHER -> ok = (containerFolder \in dirs)

\* Mutant: the promise is kept for the next file.
BeginPromised(ok) ==
  /\ ~open /\ Creates(ok)
  /\ open' = ok
  /\ UNCHANGED mPromiseSafeClosure

\* begin(); it fails without a further effect while a file is open.
Begin(ok) ==
  \/ ~open /\ Creates(ok)
     /\ open' = ok
     /\ mPromiseSafeClosure' = FALSE
  \/ open /\ ~ok /\ UNCHANGED writer
-----------------------------------------------------------------------------
(* The capture threads *)

GoTo(k, pc) == vpc' = [vpc EXCEPT ![k] = pc]

VideoEnds(k) ==
  /\ vpc[k] = "loop"
  /\ ~enable
  /\ GoTo(k, "done")
  /\ UNCHANGED <<card, sdcard, scanner, task, enable, joinable, prepared, apc, fpc, writer, env>>

\* An I frame, and the card is mounted.
VideoFrame(k) ==
  /\ vpc[k] = "loop"
  /\ enable
  /\ mState = "MOUNTED"
  /\ GoTo(k, "frame")
  /\ UNCHANGED <<card, sdcard, scanner, task, enable, joinable, prepared, apc, fpc, writer, env>>

VideoPromise(k) ==
  /\ vpc[k] = "frame"
  /\ GoTo(k, IF mPromiseSafeClosure THEN "close" ELSE "check")
  /\ UNCHANGED <<card, sdcard, scanner, task, enable, joinable, prepared, apc, fpc, writer, env>>

VideoClose(k) ==
  /\ vpc[k] = "close"
  /\ \E done \in BOOLEAN : Close(done)
  /\ GoTo(k, "check")
  /\ UNCHANGED <<card, sdcard, scanner, tpc, containerFolder, armed, enable, joinable,
                 prepared, apc, fpc, env>>

\* isOpening()
VideoCheck(k) ==
  /\ vpc[k] = "check"
  /\ GoTo(k, IF open THEN "loop" ELSE "begin")
  /\ UNCHANGED <<card, sdcard, scanner, task, enable, joinable, prepared, apc, fpc, writer, env>>

VideoBegin(k) ==
  /\ vpc[k] = "begin"
  /\ \E ok \in BOOLEAN : Begin(ok)
  /\ GoTo(k, "loop")
  /\ UNCHANGED <<card, sdcard, scanner, task, enable, joinable, prepared, apc, fpc, env>>

Video(k) ==
  \/ VideoEnds(k) \/ VideoFrame(k) \/ VideoPromise(k)
  \/ VideoClose(k) \/ VideoCheck(k) \/ VideoBegin(k)

AudioEnds(k) ==
  /\ apc[k] = "loop"
  /\ ~enable
  /\ apc' = [apc EXCEPT ![k] = "done"]
  /\ UNCHANGED <<card, sdcard, scanner, task, enable, joinable, prepared, vpc, fpc, writer, env>>
-----------------------------------------------------------------------------
(* safeCollapseAllCapturingSamples, by the task or by the formatting thread *)

CollapseFlag ==
  /\ enable' = FALSE
  /\ UNCHANGED <<joinable, prepared, vpc, apc>>

\* thCaptureSamplesId[1] is always 0.
CollapseJoin ==
  /\ joinable # 0 => apc[joinable] = "done"
  /\ joinable' = 0
  /\ UNCHANGED <<enable, prepared, vpc, apc>>

\* preparingBeforeCapturingSamples: both threads are created into
\* thCaptureSamplesId[0], where the audio thread remains.
Preparing ==
  /\ enable' = TRUE
  /\ prepared' = prepared + 1
  /\ apc' = [apc EXCEPT ![prepared + 1] = "loop"]
  /\ vpc' = IF joinable = 0 THEN [vpc EXCEPT ![prepared + 1] = "loop"] ELSE vpc
  /\ joinable' = prepared + 1
-----------------------------------------------------------------------------
(* The task *)

Received(sig) == tpc = "idle" /\ mail # <<>> /\ Head(mail) = sig

HandleInit ==
  /\ Received("INIT")
  /\ mail' = Tail(mail)
  /\ mPerformTestWrite' = TRUE
  /\ mState' = "REMOVED"
  /\ polling' = TRUE
  /\ IF spc = "none" THEN spc' = "scan" /\ lastState' = "REMOVED" ELSE UNCHANGED scanner
  /\ UNCHANGED <<card, mContainerFolder, tpc, containerFolder, armed, capture, fpc, writer, env>>

HandleOnMounted ==
  /\ Received("ON_MOUNTED")
  /\ mail' = Append(Tail(mail), "PREPARE")
  /\ UNCHANGED <<card, sdcard, scanner, tpc, containerFolder, armed, capture, fpc, writer, env>>

\* Mutant: the card that is gone stays mounted.
HandleOnRemovedMounted ==
  /\ Received("ON_REMOVED")
  /\ mail' = Tail(mail)
  /\ tpc' = "removed_flag"
  /\ UNCHANGED <<card, sdcard, scanner, containerFolder, armed, capture, fpc, writer, env>>

HandleOnRemoved ==
  /\ Received("ON_REMOVED")
  /\ mail' = Tail(mail)
  /\ fs' = "none"
  /\ tpc' = "removed_flag"
  /\ UNCHANGED <<disk, dirs, sdcard, scanner, containerFolder, armed, capture, fpc, writer, env>>

HandlePrepare ==
  /\ Received("PREPARE")
  /\ mail' = Tail(mail)
  /\ tpc' = "prepare_flag"
  /\ UNCHANGED <<card, sdcard, scanner, containerFolder, armed, capture, fpc, writer, env>>

\* The collapse of the two handlers.
TaskFlag ==
  /\ \/ tpc = "removed_flag" /\ tpc' = "removed_join"
     \/ tpc = "prepare_flag" /\ tpc' = "prepare_join"
  /\ CollapseFlag
  /\ UNCHANGED <<card, sdcard, scanner, mail, containerFolder, armed, fpc, writer, env>>

TaskJoin ==
  /\ \/ tpc = "removed_join" /\ tpc' = "removed_close"
     \/ tpc = "prepare_join" /\ tpc' = "prepare_close"
  /\ CollapseJoin
  /\ UNCHANGED <<card, sdcard, scanner, mail, containerFolder, armed, fpc, writer, env>>

\* close(), and then the rest of ON_REMOVED.
TaskCloseRemoved ==
  /\ tpc = "removed_close"
  /\ \E done \in BOOLEAN : Close(done)
  /\ armed' = FALSE
  /\ tpc' = "idle"
  /\ UNCHANGED <<card, sdcard, scanner, containerFolder, capture, fpc, env>>

TaskClosePrepare ==
  /\ tpc = "prepare_close"
  /\ \E done \in BOOLEAN : Close(done)
  /\ tpc' = "prepare"
  /\ UNCHANGED <<card, sdcard, scanner, containerFolder, armed, capture, fpc, env>>

TaskPrepare ==
  /\ tpc = "prepare"
  /\ Preparing
  /\ mail' = Append(mail, "START")
  /\ tpc' = "idle"
  /\ UNCHANGED <<card, sdcard, scanner, containerFolder, armed, fpc, writer, env>>

\* prepareContainerFolder creates the folder wherever the mount point leads.
HandleStart ==
  /\ Received("START")
  /\ mail' = Tail(mail)
  /\ mContainerFolder' = IF mState = "MOUNTED" THEN day ELSE mContainerFolder
  /\ dirs' = IF mState = "MOUNTED" /\ fs = "live" THEN dirs \cup {day} ELSE dirs
  /\ containerFolder' = mContainerFolder'
  /\ armed' = TRUE
  /\ UNCHANGED <<disk, fs, mState, mPerformTestWrite, polling, scanner, tpc, capture, fpc, writer, env>>

\* Mutant: nothing starts the next interval.
HandleCloseLast ==
  /\ Received("CLOSE")
  /\ mPromiseSafeClosure' = TRUE
  /\ mail' = Tail(mail)
  /\ UNCHANGED <<card, sdcard, scanner, tpc, containerFolder, armed, capture, fpc, open, env>>

HandleClose ==
  /\ Received("CLOSE")
  /\ mPromiseSafeClosure' = TRUE
  /\ mail' = Append(Tail(mail), "START")
  /\ UNCHANGED <<card, sdcard, scanner, tpc, containerFolder, armed, capture, fpc, open, env>>

\* updateIndexDatabase appends to a file nothing here reads.
HandleUpdateIndex ==
  /\ Received("UPDATE_INDEX")
  /\ mail' = Tail(mail)
  /\ UNCHANGED <<card, sdcard, scanner, tpc, containerFolder, armed, capture, fpc, writer, env>>

HandleFormat ==
  /\ Received("FORMAT")
  /\ mail' = Tail(mail)
  /\ fpc' = "stop"
  /\ UNCHANGED <<card, sdcard, scanner, tpc, containerFolder, armed, capture, writer, env>>

\* The timer service posts GW_RECORD_CLOSE.
TimerFires ==
  /\ armed
  /\ armed' = FALSE
  /\ mail' = Append(mail, "CLOSE")
  /\ UNCHANGED <<card, sdcard, scanner, tpc, containerFolder, capture, fpc, writer, env>>

Task ==
  \/ HandleInit \/ HandleOnMounted \/ HandleOnRemoved \/ HandlePrepare \/ HandleStart
  \/ HandleClose \/ HandleUpdateIndex \/ HandleFormat
  \/ TaskFlag \/ TaskJoin \/ TaskCloseRemoved \/ TaskClosePrepare \/ TaskPrepare
-----------------------------------------------------------------------------
(* isolateSafeFormatExtDisk *)

FormatStop ==
  /\ fpc = "stop"
  /\ polling' = FALSE
  /\ fpc' = "join_scanner"
  /\ UNCHANGED <<card, mState, mPerformTestWrite, mContainerFolder, scanner, task, capture, writer, env>>

FormatJoinScanner ==
  /\ fpc = "join_scanner"
  /\ spc \in {"done", "none"}
  /\ spc' = "none"
  /\ fpc' = "flag"
  /\ UNCHANGED <<card, sdcard, lastState, task, capture, writer, env>>

FormatFlag ==
  /\ fpc = "flag"
  /\ CollapseFlag
  /\ fpc' = "join"
  /\ UNCHANGED <<card, sdcard, scanner, task, writer, env>>

FormatJoin ==
  /\ fpc = "join"
  /\ CollapseJoin
  /\ fpc' = "close"
  /\ UNCHANGED <<card, sdcard, scanner, task, writer, env>>

FormatClose ==
  /\ fpc = "close"
  /\ \E done \in BOOLEAN : Close(done)
  /\ fpc' = "format"
  /\ UNCHANGED <<card, sdcard, scanner, tpc, containerFolder, armed, capture, env>>

\* ForceFormat does nothing to a card that was removed.
ForceFormat ==
  /\ fpc = "format"
  /\ IF mState # "REMOVED"
       THEN fs' = "none" /\ dirs' = {} /\ mState' = "REMOVED"
       ELSE UNCHANGED <<fs, dirs, mState>>
  /\ fpc' = "init"
  /\ UNCHANGED <<disk, mPerformTestWrite, mContainerFolder, polling, scanner, task, capture, writer, env>>

FormatInit ==
  /\ fpc = "init"
  /\ mail' = Append(mail, "INIT")
  /\ fpc' = "none"
  /\ UNCHANGED <<card, sdcard, scanner, tpc, containerFolder, armed, capture, writer, env>>

Format ==
  \/ FormatStop \/ FormatJoinScanner \/ FormatFlag \/ FormatJoin
  \/ FormatClose \/ ForceFormat \/ FormatInit
-----------------------------------------------------------------------------
World == InsertCard \/ RemoveCard \/ Midnight \/ RequestFormat

Next ==
  \/ World \/ Scanner \/ Task \/ TimerFires \/ Format
  \/ \E k \in Captures : Video(k) \/ AudioEnds(k)

\* Every thread runs, I frames keep coming, the timer service counts.
Fairness ==
  /\ WF_vars((\E ok \in BOOLEAN : Scan(ok, ok)) \/ Report \/ ScannerEnds)
  /\ WF_vars(Task) /\ WF_vars(TimerFires) /\ WF_vars(Format)
  /\ \A k \in Captures : WF_vars(Video(k)) /\ WF_vars(AudioEnds(k))

Spec == Init /\ [][Next]_vars
FairSpec == Spec /\ Fairness
-----------------------------------------------------------------------------
Sigs == {"INIT", "ON_MOUNTED", "ON_REMOVED", "PREPARE", "START", "CLOSE", "UPDATE_INDEX", "FORMAT"}

\* Types of the state; no more threads are created than the bound foresees.
TypeOK ==
  /\ disk \in BOOLEAN /\ fs \in {"none", "live", "dead"} /\ dirs \subseteq Days
  /\ {mState, lastState} \subseteq {"REMOVED", "INSERTED", "MOUNTED"}
  /\ {mContainerFolder, containerFolder} \subseteq Days \cup {0}
  /\ spc \in {"none", "scan", "report", "done"}
  /\ \A i \in 1..Len(mail) : mail[i] \in Sigs
  /\ {mPerformTestWrite, polling, armed, enable, open, mPromiseSafeClosure} \subseteq BOOLEAN
  /\ prepared \in Captures \cup {0} /\ joinable \in Captures \cup {0}
  /\ day \in Days

\* While capturing is enabled a CLOSE is due, so that every file is ended: the timer
\* of GW_RECORD_CLOSE is set, or CLOSE or START is in the mailbox.
ClosureIsDue ==
  enable => armed \/ Contains(mail, "CLOSE") \/ Contains(mail, "START")

\* The card stays in and no thread hangs in formatting it.
Steady == <>[](disk /\ fpc = "none")

\* A card that stays in its slot is recorded to, whatever was removed, erased or
\* formatted before.
RecordsAgain == Steady => []<>(open)

\* A promised closure is kept: the file is closed and the next one begins.
PromiseKept == Steady => []<>(~mPromiseSafeClosure)

\* "Close all current threads are running and reopen again": there is one video thread.
OneVideoThread ==
  \A j, k \in Captures : {vpc[j], vpc[k]} \cap {"none", "done"} = {} => j = k
=============================================================================
