# RAL-FCA in TLA+

A specification of the concurrent core of the IP camera firmware RAL-FCA
(`src/sources/`), checked with TLC on small instances and, for ten of its
modules, proved with TLAPS for every value of the constants. Every definition
is translated from the C and C++ code; `PROJECT.json` names the lines. They are
lines of the firmware's own code, some 18,500; most of the repository (the
camera's libraries, an RTSP server, a JSON header) was not written here and is
not modelled.

## 1. Inventory

The firmware is one process of eleven *tasks* (`app/task_list.cpp`), each a
thread with a mailbox, run by a small kernel (`ak/`). Tasks exchange messages;
they share globals as well, and many threads that are no tasks post to them:
the callbacks of libraries, workers of a dispatch queue, timers, and threads
that the tasks create.

| Component | State | Operations | Talks to | What makes it correct |
|---|---|---|---|---|
| `ak/message` | doubly linked list, `len` | put, get, free | kernel | the list is a FIFO queue, no message in it twice |
| `ak/ak` | thread table, mutex and condition variable per mailbox, start barrier | start up, post, receive, free | everyone | no lost wake-up, one owner per message, each posted message handled |
| `ak/timer` | list of armed timers | set, remove, handler per tick | tasks (timeouts as messages) | each armed timer counted once a pass, one timer per (task, signal) |
| `common/mediabuffer` | ring in shared memory, without locks | send, read | encoder thread to recorder, RTSP and WebRTC | whole frames to consumers that keep up and do not meet a header half-way, wild links only for overtaken ones |
| `storage/SdCard`, `task_record`, `storage/recorder` | state of the card, capture threads, open file, promise to close | mount, remove, prepare, start, close, format | scanner thread, cloud, capture threads | a file is always about to be closed, recording comes back after every disturbance |
| `task_webrtc`, `webrtc/helpers` | map of clients, limits, connection timers, a playback thread per client | request, answer, check, play, stop, erase | MQTT, WebSocket, libdatachannel, `MainThread` | dead clients leave the map, playback ends with its client and does not hold it |
| push to talk (`datachannel_hdl`, audio tracks) | holder of the speaker, release timer | begin, stop, keep, release | apps, tracks, kernel timer | nobody holds it for ever, a release ends the talk it was posted for |
| `task_fw` and the reboot of `task_sys` | `isOtaRunning`, `FIRMWARE_FILE` | get URL, download, flash, release, reboot | cloud, `MainThread`, SYS | one upgrade at a time, only a checked file is flashed |
| `task_sys` watchdog | ping chain, `bDisableWdt` | ping next, pong, start, stop | all tasks | refreshed as long as all tasks answer |
| `task_cloud`, `mqtt/mqtt` | client object and its thread, subscriptions, timers | try connect, callbacks, publish, release | server, all tasks | another attempt is always due, each topic subscribed, the status told |
| `task_network`, `net/`, `av/fca_gpio` | Wi-Fi, BLE and access point, ping thread, LED, recovery timers | connect, set up, report, recover | shell, LED, cloud, SYS | the camera comes back when the network does, the LED tells the truth |
| `webrtc/stream`, sources, `mp4v2_mp4` | readers of rings and files | start, stop, load | data channel, rings | samples in their order |
| `task_config`, `app_config`, `json/` | configuration files | load, store | cloud, tasks | values round-trip, files are whole |
| `task_av`, `av/`, `task_detect`, `rtspd` | vendor handles | set-up, parameters | rings | - |
| `task_upload` | none: its handlers are commented out | - | - | - |
| `3rd-party/`, `libraries/`, `json.hpp`, codecs | - | - | - | not written here |

Where the hard behaviour is:

* *interleaving and atomicity*: kernel (test of `len` against post), ring
  (nothing locked), recorder (four kinds of threads on one writer), audio
  tracks against the release of the speaker, reboot against upgrade, playback
  against the destructor of its client, ping thread and blink timers against
  the LED controller;
* *stale messages*: a timeout that is removed may be in the mailbox already;
  erasures name a client by an id that may have come back; the callbacks of a
  replaced MQTT client are taken for those of its successor;
* *protocol sequences*: CLOSE, START, timer, CLOSE of the recorder; GET_URL to
  RELEASE of the upgrade; TRY_CONNECT with its timer against ON_CONNECTED;
* *crashes and failures*: card pulled out, failing mount, erased folder,
  failing download or flash, lost server, router or internet, reboot at any
  stage;
* *boundaries*: the end of the ring, durations below the timer's unit, full
  map of clients.

`PROJECT.json` lists these hazards one by one at the line where they bite, with
the property that covers them or the reason why none does.

## 2. Modules

| Module | Models | Composition |
|---|---|---|
| `Mailboxes` | abstract: what the kernel promises to tasks | implemented by `MsgQueue` and by `ActiveKernel` |
| `MsgQueue` | the list of `message.cpp`, pointer by pointer | refines `Mailboxes` with one task |
| `ActiveKernel` | `ak.cpp`: start-up, barrier, locks, condition variables | uses the queue as the sequence `MsgQueue` shows it to be; refines `Mailboxes` |
| `Timers` | abstract: one timer per key, counted once per pass | implemented by `AkTimer` |
| `AkTimer` | `timer.cpp`: the list, its lock, concurrent handlers | refines `Timers` |
| `MediaRing` | `mediabuffer.c`: the stores of a frame in their order against the loads of the consumer | |
| `Recorder` | `SdCard`, `task_record`, `MP4v2Writer` together | the task's mailbox is one of `Mailboxes` |
| `WebRtc` | clients, signaling and playback | mailbox as above, `MainThread` as a counter per id |
| `PushToTalk` | who speaks through the camera | mailbox and timer as in `Mailboxes` and `Timers` |
| `Upgrade` | `task_fw` with the reboot of `task_sys` | two mailboxes, `MainThread` |
| `Cloud` | the MQTT session: `task_cloud` with `mqtt` | task, thread of the library and server; mailbox and timers as above |
| `Indicator` | the LED controller of `fca_gpio` | operators and actions that `Network` uses |
| `Network` | `task_network` | composes ping thread, task, LED (`Indicator`), SYS and the timers |

Two small modules hold constants that components share: `Pointers` (`NULL`) and
`Apps` (the ids of the apps). The names of `MsgQueue` carry a `q`, those of
`PushToTalk` a `talk`, so that a module of proofs can extend two components.

The components above the kernel use a mailbox as a sequence with one reader and
a kernel timer as a flag whose expiry is a message: this is what `Mailboxes`
and `Timers` promise and the lower modules were shown to implement. `MC...`
modules instantiate a module for TLC, `...Proofs` modules hold the theorems.

Actions are named after the function or handler they model. A handler of a task
is one action when nothing outside the task's own lock can come between its
accesses to shared state, and several otherwise (`Recorder`, `ActiveKernel`).
Posting to a mailbox is an `Append`, the receipt the `Head`. Definitions marked
*Mutant* in a comment are not part of `Next`: they are versions of a definition
with a plausible mistake, and the property that a run checks fails with them.

### Correspondence, module by module

* `MsgQueue`: `qhead`, `qtail`, `qnext`, `qprev`, `len` are the fields of `q_msg_t`
  and `ak_msg_t`. Mutual exclusion is the caller's, so each call is one step.
* `ActiveKernel`: `pc` follows each thread through `ak_msg_rev`, `task_post` and
  `wait_all_tasks_started`; `mainpc` follows `main`. `wake` is what
  `pthread_cond_wait` has seen; POSIX allows a spurious wake-up, and because
  `ak.cpp:521` tests `len` with `if` it makes `ak_msg_rev` return
  `AK_MSG_NULL`, of which the task dies (`crash`).
* `AkTimer`: one step per node of the handler's walk. `Expire` starts handler
  threads that wait for the lock.
* `MediaRing`: a header is sealed by its checksum (`ok`). One action of the
  producer for each `memcpy` and each group of header stores, of which the last
  one alone changes how the consumer's next test comes out. The test at :227 is one
  step; every later load of the header is one more (`ReadLength` at :235, `ReadId`,
  `ReadDataLen`, `ReadBytes`, `ReadFinish`, which loads NextId), and so is each
  `memcpy`. Stores and loads are taken in program order. A consumer whose header
  is partly overwritten loads any number: it is `Lost` and followed no further.
  History variables: `end` and `start` measure how far the consumer is behind,
  `size` is what was sent, `found` the frame whose header passed the test,
  `early` that the length was loaded before that header was complete, and `raced`
  that an id was once loaded from an incomplete header, or between the sealing of a
  frame and the clearing of the next header.
* `Recorder`: the scanner (`spc`), the task (`tpc`), video and audio threads
  (`vpc`, `apc`, one pair for each PREPARE), the formatting thread (`fpc`).
  Folders are dates, and the names of files are left out.
* `WebRtc`: the peer connection under an id has its state, whether an answer
  came, whether the channel is open, whether its timer runs. An erasure whose
  payload counts the NUL (`length() + 1`) names no key of the map. `player` is
  the place of a playback thread in its loop: it tests `mLoop`, waits for the
  client's mutex or for the time of a sample, or sends with the mutex held.
  Both STOP and the destructor (the client is out of the map, and
  `mtxClientsProtect` is held: `Erasing`) join it, `joins`.
* `PushToTalk`: `track` holds the apps whose audio callback has passed its test
  and not yet called `timer_set`. A RELEASE in `talkMail` carries, as history, for
  whose talk it was posted: the code's message carries nothing.
* `Upgrade`: `queued` and `downloading` count jobs in `MainThread`; the flash
  blocks the task FW (`flashing`). `CmdReboot` is a restart in the middle of
  anything: all state is lost, `/tmp` included.
* `Cloud`: `conn` is the object `mospp` with its thread, `pc` the half second of
  its destructor, in which the old thread still calls back. `pending` is
  `m_subTopicMap`; `asked` and `subs` are the server's side of a session.
  `orphaned`, `unwatched` and `forgotten` are history variables: they name the
  cases in which the code drops its own safety nets.
* `Indicator`: `led` is `eventCur` with `netStatus`; `ledTimer` is what
  `_idLedTimer` will report, `ledCaller` the callback that has claimed the timer
  and waits for the mutex. Colours are left out.
* `Network`: `ping` follows `pingInternetCalls`, which arms the timer that tells
  of a change before it stores the change. `file` is the Wi-Fi file, the only
  thing that survives a restart. The recovery timers are armed inside
  `parserEvent` of the LED controller.

## 3. Runs

| Run | Checks | Bounds |
|---|---|---|
| `msg_queue` | types, no duplicates, FIFO order, `len`, refinement of `Mailboxes` | 4 messages: the list has middle nodes, and all reuse orders occur |
| `active_kernel` | no lost wake-up, NULL only after a spurious wake-up, one owner, start-up, every message handled, refinement | timer task, two workers, one callback thread, two messages: the last task is the special one, two posters compete |
| `ak_timer` | list, refinement of `Timers`, timers that are left alone fire | 3 timers, the least for removal in the middle; a duty of several ticks and one below the unit |
| `media_ring` | headers fit, frames whole within a lap unless met half-way, wild links only when overtaken, consumer catches up, goes back only by a race | 10 cells, headers of 2, payloads of 1, 3 and 5, 4 frames: wraps of header, payload and both |
| `recorder` | types, closure due, recording resumes, promise kept | 2 pairs of capture threads, 2 dates, 1 disturbance at any moment |
| `recorder_threads` | *violated*: one video thread | as above |
| `webrtc` | playback has its client, dead clients leave the map | 2 apps, 3 calls, any number of PLAY and STOP, limits of 0 or 1 (so that a channel opens beyond the limit), map of at most one over MQTT; apps send while the mailbox is empty |
| `webrtc_no_answer` | *violated*: who does not answer is erased | as above, 2 calls, limits of 1 or 2 |
| `push_to_talk` | a release is coming, a release meets the talk it was posted for, talks end | 2 apps, 4 commands, 2 packets |
| `upgrade` | one upgrade, checked file, flag given back | 5 requests: two upgrades, a reboot in between and more |
| `cloud` | types, another attempt due, topics subscribed or checked, server reached, status told | 2 events: a server that goes and comes, or a session lost while another is refused; two topics, as one answer may hide the other |
| `network` | types, recovery stays armed, camera comes back, LED ends up right | 3 turns of the network (out, back, and out in another way), 1 request of a user, the server or an upgrade |

The bounds are the CONSTANTS `Max...` and the sets in each `.cfg`; every
counter that the code lets grow (calls, frames, events, dates, commands) is cut
by one of them in the guard of an action of the environment, with one exception:
`HandlerLock` of `AkTimer`, an action of the code, waits while the mailbox lacks
room (`MaxMail`) for one timeout of each timer, and goes on once the tasks have
taken some. Deadlock is checked where the component never stops;
elsewhere the run ends because the environment has used up its bound, or
because the code ends the process (FATAL, a NULL message).

### What the violated properties show

* `OneVideoThread`: both capture threads are created into
  `thCaptureSamplesId[0]` (`task_record.cpp:311`), so only the audio thread is
  ever joined; a video thread that was not looking while capture was disabled
  runs on beside its successor.
* `NoAnswerIsErased`: after 40 s the task posts an erasure with
  `id.length() + 1` bytes (`task_webrtc.cpp:354`), which its handler compares
  with the keys including the NUL. Clients that never answer keep their place.

### What the other properties say of the code

Properties that hold often name the case in which the code does not do what one
would hope for:

* `IntactWithinLap` (`MediaRing`): a reader that keeps up may still be handed a
  frame whose payload is not written yet. It has tested the sealed, empty header
  of the frame to come (:227); the producer fills that header; and the length that
  the reader loads at :235 is no longer zero. The property exempts just this case
  (`early`).
* `BackOnlyByRace` (`MediaRing`): the header that such a reader has met links to 0,
  so that it goes on at the beginning of the ring, with whatever frame is there. The
  other way back is to resynchronise while a frame is sealed and the header after it
  not yet cleared. A caught-up reader that meets a half-filled header goes back to
  `u32CommitId` and gets the newest frame again.
* `SpeakerIsKept` (`PushToTalk`): the speaker is taken from its holder by a RELEASE
  only: by one that was posted while this holder talked, or else while nobody did or
  behind another RELEASE that still waited. Stop and the timer may both post one for
  the same holder, and the second meets whoever has begun in between; and the timer
  may be one that a late packet of the holder before has set (`task_webrtc.cpp:1033`).
* `RetryIsDue`, `ReachesServer` (`Cloud`): a camera without a session tries
  again, unless it is *orphaned*: ON_CONNECTED comes a second late from a timer
  that nobody takes back, `on_connect` arms it even for a refusal, and it removes
  the timer of an attempt that failed before `loop_start`. A disconnect of the
  camera's own destructor is reported like a loss, so a TRY_CONNECT in a session
  that is up may cause another; each round reaches the server, none is the last.
* `SubscribedOrRetried` (`Cloud`): every topic of a session is subscribed, or
  still in the map with a check to come, unless TRY_CONNECT removed the check and
  then could not resolve the server (*unwatched*), or the answer to a former
  object, whose message numbers are the same, took the topic away (*forgotten*).
* `StatusIsTold` (`Cloud`): a session that lasts is shown as Connected. The
  reverse fails by design: a clean disconnect publishes no will, and what was
  retained stays.
* `RecoveryStaysArmed` (`Network`): nothing but a restart ends the recovery;
  `removeCheckErrorNetworkTimers` has no caller. After one outage the interface
  is restarted every few minutes, and the camera rebooted after hours, although
  the internet is back.
* `ComesBack`, `OutageIsOverOnLed` (`Network`): they exempt `LedIsTaken`, the
  priority that a late blink callback restores after the pairing is over: the
  LED controller then ignores every later event of the internet, and with the
  outage also the arming of the recovery. `ComesBack` exempts a camera that was
  never online since its start as well: its first failed ping repeats what
  `lastState` says from the beginning. The premise of `OutageIsOverOnLed`, an
  internet that is there to stay, is narrow: after an outage REBOOT restarts the
  camera sooner or later, and then no outage is left to be over. It speaks of
  cameras whose reboot is refused during an upgrade or whose Wi-Fi file was reset.
* `PlaybackHasClient`, `DownIsErased` (`WebRtc`): the destructor joins the
  playback thread under `mtxClientsProtect`, and this does not lock up: the thread
  takes only the client's own mutex, which STOP has given back before it joins.

### Fairness

Always weak or strong fairness of the code's own threads, because the scheduler
of the camera runs every thread that can run, and of its timers, because time
passes; never of the environment: apps, the network, the server, users and the
card may do nothing.

* `ActiveKernel`: the receive and post steps need strong fairness: threads
  compete for a mutex, and POSIX threads of equal priority get it in the end.
* `AkTimer`, `MediaRing`: handlers and the consumer run; the producer finishes a
  frame that it began.
* `Recorder`: I frames keep coming and mounting succeeds when it is tried for
  ever (`Scan(ok, ok)`); `RecordsAgain` and `PromiseKept` are claimed for runs in
  which the card stays in from some moment on and no formatting thread hangs.
* `PushToTalk`: `TalkEnds` rests on the bounded number of commands and packets:
  an app that renews for ever may talk for ever.
* `Upgrade`: a running task, worker and timer; a download ends because
  `FIRMWARE_DOWNLOAD_TIMEOUT` limits it, and a call of the flash library is
  assumed to return.
* `WebRtc`: the task is strongly fair because PLAY and STOP take the mutex that
  a playback thread takes for every sample and gives back at every sample.
* `Cloud`: `OnConnect` is strongly fair: a server that can be reached is
  connected to within the five seconds of an attempt, not always but again and
  again. ON_CONNECTED is, because `TimerFires` requires an empty mailbox, which
  comes and goes.
* `Network`: the timers are strongly fair for the same reason.

## 4. Proofs

All theorems hold for every value of the constants that satisfies the named
`ASSUME` of the module: any number of tasks (two or more, the timer task
included), callback threads, messages and apps, and any bound.

* `AkListsProofs`, the lists of the kernel. For `MsgQueue`, `Inv` relates the
  pointers to the history of the queue: an abstract sequence without duplicates
  whose neighbours are linked both ways. `TypeOK` alone is not inductive: `get`
  follows `next` of the head, which only the relation makes the right one.
  Theorems: `ListIsFifo`, `NoDuplicatesTheorem`, `QueueImplementsMailbox` (every
  step is a step of `Mailboxes` or a stutter). For `AkTimer`, the same for the
  list of timers, from which nodes are removed in the middle and by a handler on
  its walk: the links spell the sequence `order`, which has no node twice
  (`Distinct`, `Linked`), a key has at most one node (`OneTimer`), and a walk is
  under way only under the lock (`CursorInv`), so that nobody frees the node it
  stands on. For the refinement the keys of the nodes not yet visited are the pass
  of `Timers`: locking begins it, each node of the walk counts one timer down.
  Theorems: `TimerListTheorem`, `TimersImplemented`.
* `ActiveKernelProofs`. `IInv` adds to the properties: `BootInv` (which threads
  exist, by the position of `main`), `CountInv` (`ak_thread_started` is the
  number of threads past the start, by cardinality), `BarrierInv` (nobody runs
  or has mail before all tasks were created), `LockInv` (who holds which mutex)
  and `SleepInv` (a thread that waits is asleep, one that signals has filled
  the mailbox). The argument for the wake-up: a post that makes a mailbox
  non-empty happens under its mutex, which the receiver holds from its test of
  `len` to its wait, so that the signal finds it waiting. Two more invariants
  follow the messages: `Owners` (a message is with one poster, at one position
  of one mailbox, or with one task) and `HandlingInv` (a task has a message only
  while it runs the handler, so that a take never drops one). With them every
  step is a step of `Mailboxes` or a stutter. Theorems: `KernelInvariant`,
  `KernelTypes`, `NoWakeupIsLost`, `NullNeedsSpuriousWakeup`, `SetupIsSafe`,
  `OneOwnerTheorem`, `KernelImplementsMailboxes`. The task created last is left out
  of `NoWakeupIsLost`, because its condition variable is initialised after it may be
  waiting on it.
* `MediaRingProofs`. `IInv` adds to `HeadersFit` that every link stored in the
  memory leads to a place where a header fits: the consumer follows links it has
  not written. The place after a payload is rounded up to the alignment; that
  the result still leaves room for a header rests on the memory and the header
  being multiples of it (lemmas `RoundUp`, `NextPlaceFits`). Theorem:
  `HeadersFitTheorem`.
  For the delivery, `RingInv` says of every sealed header whose frame is less than
  a lap behind (`Alive`) that its distance to the producer, walking up the ring, is
  the number of cells claimed since it began, and that its own payload follows it
  (`Kept`); that the producer has written what it should have of the frame in
  progress (`Written`); and that a header which is not sealed is the one in progress
  or the empty one for the next frame, and links to 0 (`Headers`). Of the consumer
  it says that, from the test to the last load, the header it has tested stays that
  of `found`, complete or in progress, until that frame is overtaken (`Tested`, by
  `Held`), or is still the empty one (`Awaited`); and that, unless it was early, what
  it has loaded and copied is of that frame only (`Reading`, `Copied`). One operator,
  `Writes`, says what a step of the producer may do: claim some cells, and store at
  most a header above what it has claimed. The actions of the producer are shown to
  be such steps, and one lemma (`FramesKept`, by the arithmetic of `Apart` and
  `TopMoves`) says that such a step leaves alone every frame that is still alive
  after it. The lap of `OvertakenBy` includes one header because the header after
  the newest frame is cleared beyond what is claimed. Theorems: `IntactTheorem`,
  `WildTheorem`.
  For the order, `BackInv` says of all headers, the overtaken ones too, that outside
  of the gap the links lead up in time: a sealed header stands where its frame
  began, of a frame no newer than the committed one, and links to none that is older
  (`Ordered`); `u32CommitId` names none older than the committed one (`Newest`). A
  reader that has not `raced` loaded its id from a complete header; that header may
  be overtaken and replaced by an incomplete one before NextId is loaded at :273,
  which then is 0. The frame at the beginning of the ring is not older
  (`ZeroIsNewer`), because the producer writes over the beginning whenever it passes
  it, and so what begins there began in the last lap (`Recent`), while the frame of
  the header that was written over is a whole lap behind. Theorem: `BackTheorem`.
  The first three assume `FramesFit`, no frame larger than the memory, because the
  size test of `ringBufferSendTo` lets larger ones pass; the last assumes
  `FrameAndHeaderFit`, that the header fits too: a payload that goes round and
  overwrites its own header leaves none to order. The run's frames satisfy both.
* `RecorderProofs`. `ClosureIsDue` needs little more than itself: `Closure`, which
  adds that ON_REMOVED cancels the timer only once the flag of the capture threads
  is reset. The types are the hard part, because the pairs of capture threads are
  numbered and no more may be created than there are numbers: `Budget` counts what
  leads to a pair (a mounted card to one ON_MOUNTED, that to one PREPARE, that to
  one pair) against what lets the scanner see a mounted card anew (a removal, a
  failing mount, a format); `Turn` says that of INIT, FORMAT and a thread that
  formats there is one at a time. Assumed, beyond the types of the constants: the
  numbers suffice for one pair for each event and one more (`MaxCaptures >
  MaxEvents`). Theorems: `RecorderTypes`, `ClosureTheorem`.
* `UpgradeProofs`. `OneUpgrade` counts the places an upgrade can be in
  (messages, jobs of `MainThread`, the flash, the timer): one while
  `isOtaRunning` is set, none otherwise. With the types it is inductive, once
  three lemmas say what `Append` and `Tail` do to the number of messages of a
  kind. `FlashedIsChecked` follows: whoever is in one place is the only one who
  writes the file. Theorems: `OneUpgradeTheorem`, `FlashedIsCheckedTheorem`.
* `NetworkProofs`. `RecoveryStaysArmed` is inductive with the types: the LED gets
  to say DISCONNECT by an event that it takes, exactly then the timers are armed,
  a timer goes only in exchange for its message, and the handler of the message
  sets the timer again. The types are needed for the LED's callbacks, none of
  whose events says DISCONNECT. Theorems: `RecoveryTheorem`, `NetworkTypes`.
* `CloudProofs`. `SubscribedOrRetried` is inductive with the types; `RetryIsDue`
  needs two facts about the restart: the object goes for good only when the
  process is about to be killed (`ReleasedToDie`), and an ON_CONNECTED that is
  under way has had an object (`ConnectedHadObject`). Theorems: `RetryTheorem`,
  `SubscriptionTheorem`, `CloudTypes`.
* `WebRtcProofs`. For `WebRtc`, `PlaybackHasClient` is inductive with the types,
  which say also that a message names an app, so that no other id gets into the
  map, and that only a client in the map or the one whose thread is joined has a
  connection. For `PushToTalk`, `TalkTypeOK /\ TalkIsReleased` is inductive: only
  Begin makes a holder, and sets the timer; the timer goes away only in exchange
  for its message, and the message only with the holder. `SpeakerIsKept` needs
  `ForHolder` besides: a release posted for somebody is the first one in the
  mailbox, and meets that app still speaking. The lemmas say what `Append` and
  `Tail` do to the releases in a mailbox. Theorems: `PlaybackTheorem`,
  `WebRtcTypes`, `ReleaseTheorem`, `KeptTheorem`.

Only model-checked: every liveness property (fairness and ENABLED are beyond the
prover). Every invariant and action property of a passing run is a theorem.

## 5. What is not modelled

* Payloads, JSON, formatting, logs and the answers to requests.
* Undefined behaviour with no outcome to name: use of a client after
  `clients.end()`, two threads that join the same thread. The actions that would
  run into it are disabled or end the process; the hazards say so.
* The watchdog of `task_sys`: config.mk builds with `RELEASE := 0`, in which it
  does nothing. With `RELEASE=1` it would be kept off by `bDisableWdt`, which
  starts as true, until an upgrade has failed; and a ping that reaches the task
  of uploads, all of whose handlers are commented out, is not answered.
* In `Recorder`: a card is out long enough for the scanner to notice, one
  format at a time; samples, the names of files, the index file and what a close
  reads after its unlock are left out. So it is not seen that a file
  closed after midnight is indexed in the folder of the new day
  (`SdCard.cpp:430`), nor that the video thread may run before START is handled
  and put its first file into the folder of an earlier interval
  (`task_record.cpp:148`).
* In `MediaRing`: frames larger than the memory without its two headers, which
  the test of `mediabuffer.c:143` admits and which overwrite their own header;
  collisions of the checksum, the reallocation of the consumer's buffer at :240,
  several consumers (they write
  nothing that is shared, so one stands for all).
* In `WebRtc`: recovery of a disconnected connection, ICE, the WebSocket, the
  live media, samples of a playback and their times, pause, seek and speed. A
  client's connection that is erased reports Closed, as libdatachannel does when
  a peer connection is destroyed. The destructor runs in the task: a callback
  that still holds the client would move it to its own thread.
* In `Cloud`: messages other than the status, the requests that come in (they are
  inputs of other modules), CHECK_BROKER_STATUS, with which the camera corrects
  its own retained status (`StatusIsTold` holds without it). `on_connect` is one
  step, although `m_mid` is shared with the task without a lock: a session that
  begins again in the same object is replaced at once by the TRY_CONNECT that
  its loss has posted. Timers fire when no message waits. To expire behind a message
  or after it was handled is not always the same: a TRY that expires behind
  ON_CONNECTED is not removed by it (`task_cloud.cpp:90`). A TRY that waits behind
  ON_CONNECTED occurs in the model all the same, posted by others. An answer to a
  subscription is matched by its topic, in the code by its message number
  (`mqtt.cpp:175`): a late answer of the same object, which the code ignores, counts
  as *forgotten*, which only widens that exemption. The destructor's disconnect of a
  connection that was still being made counts as one of the bounded events, as it
  could otherwise happen for ever.
* In `Network`: `fca_wifi_connect` is a function of a vendor's binary library: that
  it fails with bad credentials or without a router, and only then, is an assumption
  about the environment. Left out are shell commands, parsers and scans of `net/`,
  Ethernet (not in the build), signals that nobody sends. `ServerConnects` may
  happen at any time, more often than `Cloud` allows. RESTART and REBOOT fire when
  the mailboxes are empty: they take minutes and hours.
* The components that `PROJECT.json` lists as `not_modelled`, each with its
  reason.

## 6. Plan

Done, in this order: kernel (queue, kernel, timers), ring, recorder, clients,
push to talk, upgrade; then the network with its LED controller, the session
with the server, and the playback of the clients; proofs of queue, kernel, push
to talk, upgrade, network, session and clients, then of the timers, the recorder
and the ring, its delivery and its order.

Next, in order of importance:

1. `Watchdog` for `RELEASE=1`, composed with `Upgrade`: the chain of pings,
   `bDisableWdt`, a task that does not answer.
2. Configuration files: what a crash between two writes leaves
   (`utils.cpp:74`: `write_raw_file` truncates first).
3. `MP4v2Reader`: sample numbers under seek and speed.
4. A composition of `Cloud` and `Network`: `ServerConnects` of the LED from the
   session, and a status for the time of an outage.

Theorems worth proving next: none of the safety properties is left; the modules
above bring their own.
