------------------------- MODULE ActiveKernelProofs -------------------------
(***************************************************************************)
(* Safety of the kernel of ak/ak.cpp for any number of tasks, callback     *)
(* threads and messages.  The invariants the run checks are not inductive: *)
(* NoLostWakeup needs to know who holds which mutex (LockInv), what a      *)
(* sleeping thread has seen (SleepInv), and that main has created every    *)
(* thread before anybody passes the barrier (BootInv, CountInv and         *)
(* BarrierInv).  OneOwner and the refinement of Mailboxes relate every two *)
(* places a message can be in (Owners) and the message of a task to the    *)
(* place of its thread (HandlingInv).                                      *)
(***************************************************************************)
EXTENDS ActiveKernel, FiniteSetTheorems, SequenceTheorems, TLAPS

BootInv ==
  /\ idx = N <=> mainpc = "join"
  /\ condReady = 0..(idx - 1)
  /\ \A t \in Tasks : pc[t] = "unborn" <=> \/ t > idx
                                           \/ t = idx /\ mainpc \in {"init", "create"}
  /\ \A c \in Callbacks : pc[c] \in {"unborn", "run", "post", "signal", "unlock"}
  /\ pc[0] \in {"unborn", "start", "barrier", "ended"}

Counted == {t \in Tasks : pc[t] \notin {"unborn", "start"}}
CountInv == started = Cardinality(Counted)

BarrierInv ==
  /\ \A p \in Threads : pc[p] \notin {"unborn", "start", "barrier"} => started >= N
  /\ \A t \in Tasks : queue[t] # <<>> => started >= N

LockInv ==
  /\ \A p \in Threads : pc[p] \in {"post", "signal", "unlock"} => dst[p] \in Workers
  /\ \A p \in Threads : pc[p] = "post" => out[p] # NONE
  /\ \A p \in Threads : pc[p] \in {"signal", "unlock"} => mutex[dst[p]] = p
  /\ \A t \in Workers : pc[t] \in {"check", "take"} => mutex[t] = t

SleepOf(t) ==
  /\ wake[t] # "none" => pc[t] \in {"asleep", "take", "crash"}
  /\ wake[t] \in {"waiting", "lost"} => pc[t] = "asleep"
  /\ wake[t] = "lost" => t = LastTask
  /\ pc[t] = "take" /\ wake[t] = "none" => queue[t] # <<>>

SleepInv ==
  /\ \A t \in Tasks : SleepOf(t)
  /\ \A p \in Threads : pc[p] = "signal" => queue[dst[p]] # <<>>

IInv ==
  /\ TypeOK /\ BootInv /\ CountInv /\ BarrierInv /\ LockInv /\ SleepInv
  /\ NoLostWakeup /\ NullOnlyIfSpurious
-----------------------------------------------------------------------------
\* Once the counter of wait_all_tasks_started has reached the number of tasks,
\* main has created every thread, and each has counted itself.
LEMMA AllCounted ==
  ASSUME TypeOK, CountInv, started >= N
  PROVE  \A t \in Tasks : pc[t] \notin {"unborn", "start"}
  <1>1. IsFiniteSet(Tasks) /\ Cardinality(Tasks) = N
    BY FS_Interval, ConstantsAssumption DEF Tasks
  <1>2. Counted \subseteq Tasks
    BY DEF Counted
  <1>3. Cardinality(Counted) <= Cardinality(Tasks)
        /\ (Cardinality(Counted) = Cardinality(Tasks) => Counted = Tasks)
    BY <1>1, <1>2, FS_Subset
  <1>4. IsFiniteSet(Counted) /\ Cardinality(Counted) \in Nat
    BY <1>1, <1>2, FS_Subset, FS_CardinalityType
  <1>5. Cardinality(Counted) = Cardinality(Tasks)
    BY <1>1, <1>3, <1>4, ConstantsAssumption DEF CountInv
  <1> QED
    BY <1>3, <1>5 DEF Counted

LEMMA InitIInv == Init => IInv
  <1> SUFFICES ASSUME Init PROVE IInv
    OBVIOUS
  <1>1. Counted = {}
    BY DEF Init, Counted, Threads
  <1>2. CountInv
    BY <1>1, FS_EmptySet DEF Init, CountInv
  <1>3. TypeOK /\ BootInv
    BY ConstantsAssumption DEF Init, TypeOK, BootInv, Tasks, Threads, PC
  <1>4. BarrierInv /\ LockInv /\ SleepInv /\ NoLostWakeup /\ NullOnlyIfSpurious
    BY ConstantsAssumption
       DEF Init, BarrierInv, LockInv, SleepInv, SleepOf, NoLostWakeup, NullOnlyIfSpurious, Tasks, Workers, Threads
  <1> QED
    BY <1>2, <1>3, <1>4 DEF IInv

\* Only CountStarted changes which tasks have counted themselves.
LEMMA CountStep ==
  ASSUME IInv, [Next]_vars
  PROVE  CountInv'
  <1> USE ConstantsAssumption DEF IInv, TypeOK, Tasks, Workers, Threads, Go
  <1>1. ASSUME NEW t \in Tasks, CountStarted(t)
        PROVE  CountInv'
    <2>1. t \notin Counted /\ Counted' = Counted \cup {t} /\ started' = started + 1
      BY <1>1 DEF CountStarted, Counted
    <2>2. IsFiniteSet(Counted)
      <3>1. IsFiniteSet(Tasks)
        BY FS_Interval
      <3>2. Counted \subseteq Tasks
        BY DEF Counted
      <3> QED
        BY <3>1, <3>2, FS_Subset
    <2> QED
      BY <2>1, <2>2, FS_AddElement DEF CountInv
  <1>2. ASSUME ~ \E t \in Tasks : CountStarted(t)
        PROVE  Counted' = Counted /\ started' = started
    <2>1. CASE MainInitMailbox \/ MainInitCond
      BY <2>1 DEF MainInitMailbox, MainInitCond, Counted
    <2>2. CASE MainCreateThread
      BY <2>2 DEF MainCreateThread, Counted, BootInv
    <2>3. ASSUME NEW t \in Tasks, PassBarrier(t) PROVE Counted' = Counted /\ started' = started
      BY <2>3 DEF PassBarrier, bootVars, Counted
    <2>4. ASSUME NEW t \in Workers, Receive(t) PROVE Counted' = Counted /\ started' = started
      BY <2>4 DEF Receive, LockToReceive, CheckLen, Awake, TakeAndUnlock, bootVars, Counted
    <2>5. ASSUME NEW t \in Workers, SpuriousWakeup(t) \/ FreeMsg(t) PROVE Counted' = Counted /\ started' = started
      BY <2>5 DEF SpuriousWakeup, FreeMsg, bootVars, Counted
    <2>6. ASSUME NEW p \in Workers \cup Callbacks, PostOf(p) PROVE Counted' = Counted /\ started' = started
      BY <2>6 DEF PostOf, LockAndPut, Signal, Unlock, bootVars, Counted
    <2>7. ASSUME NEW p \in Workers \cup Callbacks, NEW d \in Workers, GetMsg(p, d)
          PROVE Counted' = Counted /\ started' = started
      BY <2>7 DEF GetMsg, bootVars, Counted
    <2>8. ASSUME NEW c \in Callbacks, StartCallback(c) PROVE Counted' = Counted /\ started' = started
      BY <2>8 DEF StartCallback, bootVars, Counted
    <2>9. CASE UNCHANGED vars
      BY <2>9 DEF vars, Counted
    <2> QED
      BY <1>2, <2>1, <2>2, <2>3, <2>4, <2>5, <2>6, <2>7, <2>8, <2>9 DEF Next, Step, Main
  <1> QED
    BY <1>1, <1>2 DEF CountInv

\* The parts of the invariant other than CountInv.
Rest == /\ TypeOK /\ BootInv /\ BarrierInv /\ LockInv /\ SleepInv
        /\ NoLostWakeup /\ NullOnlyIfSpurious

\* The sets of threads, without the intervals.
LEMMA Sets ==
  /\ Tasks = Workers \cup {0} /\ 0 \notin Workers
  /\ Threads = Tasks \cup Callbacks
  /\ \A c \in Callbacks : c \notin Tasks
  /\ NONE \notin Threads /\ NONE \notin Msgs
  /\ N \in Nat /\ N >= 2
  BY ConstantsAssumption DEF Tasks, Workers, Threads

\* What head and append return.
LEMMA QueueFacts ==
  ASSUME NEW S, NEW q \in Seq(S), NEW m \in S
  PROVE  /\ q # <<>> => Head(q) \in S /\ Tail(q) \in Seq(S)
         /\ Append(q, m) \in Seq(S) /\ Append(q, m) # <<>>
  <1>1. q # <<>> => Head(q) \in S /\ Tail(q) \in Seq(S)
    OBVIOUS
  <1>2. Append(q, m) \in Seq(S) /\ Len(Append(q, m)) = Len(q) + 1 /\ Len(q) \in Nat
    OBVIOUS
  <1>3. Append(q, m) # <<>>
    BY <1>2
  <1> QED
    BY <1>1, <1>2, <1>3

\* main has done with a thread that runs: its steps do not matter to main.
LEMMA BootKept ==
  ASSUME TypeOK, BootInv, NEW t \in Workers \cup Callbacks, NEW x \in PC \ {"unborn"},
         pc' = [pc EXCEPT ![t] = x], UNCHANGED <<idx, mainpc, condReady>>,
         pc[t] # "unborn" \/ t \in Callbacks,
         t \in Callbacks => x \in {"run", "post", "signal", "unlock"}
  PROVE  BootInv'
  BY Sets DEF TypeOK, BootInv, PC

\* Threads past the barrier may do what they like once all tasks are counted.
LEMMA BarrierKept ==
  ASSUME BarrierInv, started >= N, UNCHANGED started
  PROVE  BarrierInv'
  BY DEF BarrierInv

\* Before the last thread is created nobody is past the barrier.
LEMMA NobodyRuns ==
  ASSUME IInv, idx \in Tasks, mainpc \in {"init", "create"}
  PROVE  /\ \A p \in Threads : pc[p] \in {"unborn", "start", "barrier"}
         /\ \A t \in Tasks : queue[t] = <<>> /\ wake[t] = "none"
         /\ pc[idx] = "unborn"
  BY Sets, AllCounted DEF IInv, TypeOK, PC, BootInv, BarrierInv, SleepInv, SleepOf

\* The mailboxes that main initialises are empty already.
LEMMA InitErasesNothing ==
  ASSUME IInv, MainInitMailbox
  PROVE  queue' = queue
  <1> DEFINE q == [queue EXCEPT ![idx] = <<>>]
  <1>1. idx \in Tasks /\ queue \in [Tasks -> Seq(Msgs)]
    BY Sets DEF IInv, TypeOK, BootInv, MainInitMailbox, Tasks
  <1>2. q \in [Tasks -> Seq(Msgs)] /\ \A t \in Tasks : q[t] = queue[t]
    BY <1>1, NobodyRuns DEF MainInitMailbox
  <1>3. q = queue
    BY <1>1, <1>2
  <1> QED
    BY <1>3 DEF MainInitMailbox

\* Nobody posts to the thread that main creates.
LEMMA MainStep ==
  ASSUME IInv, Main
  PROVE  Rest'
  <1> USE Sets DEF IInv, TypeOK, Go, PC, postVars, bootVars
  <1>1. idx \in Tasks /\ mainpc \in {"init", "create", "cond"}
    BY DEF Main, MainInitMailbox, MainCreateThread, MainInitCond, BootInv, Tasks
  <1>2. mainpc \in {"init", "create"} =>
          /\ \A p \in Threads : pc[p] \in {"unborn", "start", "barrier"}
          /\ \A t \in Tasks : queue[t] = <<>> /\ wake[t] = "none"
          /\ pc[idx] = "unborn"
    BY <1>1, NobodyRuns
  <1>3. CASE MainInitMailbox
    <2>1. queue' = queue
      BY <1>3, InitErasesNothing
    <2>2. TypeOK' /\ BootInv'
      BY <1>1, <1>3, <2>1 DEF MainInitMailbox, BootInv
    <2>3. BarrierInv' /\ LockInv' /\ SleepInv' /\ NoLostWakeup' /\ NullOnlyIfSpurious'
      BY <1>3, <2>1 DEF MainInitMailbox, BarrierInv, LockInv, SleepInv, SleepOf, NoLostWakeup, NullOnlyIfSpurious
    <2> QED
      BY <2>2, <2>3 DEF Rest
  <1>4. CASE MainCreateThread
    <2>1. TypeOK'
      BY <1>4, <1>1, <1>2 DEF MainCreateThread
    <2>2. BootInv'
      <3>1. \A t \in Tasks : pc'[t] = IF t = idx THEN "start" ELSE pc[t]
        BY <1>1, <1>4 DEF MainCreateThread
      <3>2. \A t \in Tasks : pc'[t] = "unborn" <=> t > idx
        BY <1>1, <1>4, <3>1 DEF MainCreateThread, BootInv, Tasks
      <3>3. \A c \in Callbacks : pc'[c] = pc[c]
        BY <1>1, <1>4 DEF MainCreateThread
      <3>4. pc'[0] \in {"unborn", "start", "barrier", "ended"}
        BY <3>1 DEF BootInv
      <3> QED
        BY <1>1, <1>4, <3>2, <3>3, <3>4 DEF MainCreateThread, BootInv
    <2>3. BarrierInv'
      BY <1>4, <1>1, <1>2 DEF MainCreateThread, BarrierInv
    <2>4. LockInv'
      BY <1>4, <1>1, <1>2 DEF MainCreateThread, LockInv
    <2>5. SleepInv'
      BY <1>4, <1>1, <1>2 DEF MainCreateThread, LockInv, SleepInv, SleepOf
    <2>6. NoLostWakeup'
      BY <1>4, <1>1, <1>2 DEF MainCreateThread, LockInv, SleepInv, SleepOf, NoLostWakeup
    <2>7. NullOnlyIfSpurious'
      BY <1>4, <1>1, <1>2 DEF MainCreateThread, SleepInv, SleepOf, NullOnlyIfSpurious
    <2> QED
      BY <2>1, <2>2, <2>3, <2>4, <2>5, <2>6, <2>7 DEF Rest
  <1>5. CASE MainInitCond
    <2>1. wake[idx] = "waiting" => idx = LastTask
      <3>1. SUFFICES ASSUME wake[idx] = "waiting" PROVE idx = LastTask
        OBVIOUS
      <3>2. started >= N
        BY <1>1, <3>1 DEF SleepInv, SleepOf, BarrierInv
      <3> QED
        <4>1. LastTask \in Tasks /\ pc[LastTask] # "unborn"
          <5>1. LastTask \in Tasks
            BY DEF LastTask, Tasks
          <5> QED
            BY <5>1, <3>2, AllCounted
        <4> QED
          BY <1>1, <4>1 DEF BootInv, LastTask, Tasks
    <2>2. TypeOK'
      <3>1. wake' \in [Tasks -> {"none", "waiting", "signalled", "spurious", "lost"}]
        BY <1>5, <1>1 DEF MainInitCond
      <3>2. condReady' \in SUBSET Tasks
        BY <1>5, <1>1 DEF MainInitCond
      <3>3. idx' \in 0..N /\ mainpc' \in {"init", "create", "cond", "join"}
        BY <1>5, <1>1 DEF MainInitCond, Tasks
      <3> QED
        BY <1>5, <3>1, <3>2, <3>3 DEF MainInitCond
    <2>3. BootInv'
      BY <1>5, <1>1, <2>1 DEF MainInitCond, BootInv, Tasks
    <2>4. BarrierInv'
      BY <1>5, <1>1, <2>1 DEF MainInitCond, BarrierInv
    <2>5. LockInv'
      BY <1>5, <1>1, <2>1 DEF MainInitCond, LockInv
    <2>6. SleepInv'
      BY <1>5, <1>1, <2>1 DEF MainInitCond, LockInv, SleepInv, SleepOf
    <2>7. NoLostWakeup'
      BY <1>5, <1>1, <2>1 DEF MainInitCond, LockInv, SleepInv, SleepOf, NoLostWakeup
    <2>8. NullOnlyIfSpurious'
      BY <1>5, <1>1, <2>1 DEF MainInitCond, SleepInv, SleepOf, NullOnlyIfSpurious
    <2> QED
      BY <2>2, <2>3, <2>4, <2>5, <2>6, <2>7, <2>8 DEF Rest
  <1> QED
    BY <1>3, <1>4, <1>5 DEF Main

LEMMA StartStep ==
  ASSUME IInv, NEW t \in Tasks, CountStarted(t) \/ PassBarrier(t)
  PROVE  Rest'
  <1> USE Sets DEF IInv, TypeOK, Go, PC, postVars, bootVars
  <1>1. CASE CountStarted(t)
    <2>1. TypeOK'
      BY <1>1 DEF CountStarted
    <2>2. BootInv'
      BY <1>1 DEF CountStarted, BootInv
    <2>3. BarrierInv'
      BY <1>1 DEF CountStarted, BarrierInv
    <2>4. LockInv'
      BY <1>1 DEF CountStarted, LockInv
    <2>5. SleepInv'
      BY <1>1 DEF CountStarted, LockInv, SleepInv, SleepOf
    <2>6. NoLostWakeup'
      BY <1>1 DEF CountStarted, LockInv, SleepInv, SleepOf, NoLostWakeup
    <2>7. NullOnlyIfSpurious'
      BY <1>1 DEF CountStarted, SleepInv, SleepOf, NullOnlyIfSpurious
    <2> QED
      BY <2>1, <2>2, <2>3, <2>4, <2>5, <2>6, <2>7 DEF Rest
  <1>2. CASE PassBarrier(t)
    <2>1. TypeOK'
      BY <1>2 DEF PassBarrier
    <2>2. BootInv'
      BY <1>2 DEF PassBarrier, BootInv
    <2>3. BarrierInv'
      BY <1>2 DEF PassBarrier, BarrierInv
    <2>4. LockInv'
      BY <1>2 DEF PassBarrier, LockInv
    <2>5. SleepInv'
      BY <1>2 DEF PassBarrier, LockInv, SleepInv, SleepOf
    <2>6. NoLostWakeup'
      BY <1>2 DEF PassBarrier, LockInv, SleepInv, SleepOf, NoLostWakeup
    <2>7. NullOnlyIfSpurious'
      BY <1>2 DEF PassBarrier, SleepInv, SleepOf, NullOnlyIfSpurious
    <2> QED
      BY <2>1, <2>2, <2>3, <2>4, <2>5, <2>6, <2>7 DEF Rest
  <1> QED
    BY <1>1, <1>2

LEMMA ReceiveStep ==
  ASSUME IInv, NEW t \in Workers, Receive(t) \/ SpuriousWakeup(t) \/ FreeMsg(t)
  PROVE  Rest'
  <1> USE Sets DEF IInv, TypeOK, Go, PC, postVars, bootVars
  <1>0. started >= N /\ pc[t] # "unborn"
    BY DEF Receive, LockToReceive, CheckLen, Awake, TakeAndUnlock, SpuriousWakeup, FreeMsg, BarrierInv, SleepInv, SleepOf
  <1>1. CASE LockToReceive(t)
    <2>1. TypeOK'
      BY <1>1 DEF LockToReceive
    <2>2. BootInv'
      BY <1>1, <1>0, BootKept DEF LockToReceive, BootInv
    <2>3. BarrierInv'
      BY <1>1, <1>0, BarrierKept DEF LockToReceive, BarrierInv
    <2>4. LockInv'
      BY <1>1 DEF LockToReceive, LockInv
    <2>5. SleepInv'
      BY <1>1 DEF LockToReceive, LockInv, SleepInv, SleepOf
    <2>6. NoLostWakeup'
      BY <1>1 DEF LockToReceive, LockInv, SleepInv, SleepOf, NoLostWakeup
    <2>7. NullOnlyIfSpurious'
      BY <1>1 DEF LockToReceive, SleepInv, SleepOf, NullOnlyIfSpurious
    <2> QED
      BY <2>1, <2>2, <2>3, <2>4, <2>5, <2>6, <2>7 DEF Rest
  <1>2. CASE CheckLen(t)
    <2>1. TypeOK'
      <3>1. CASE queue[t] = <<>>
        <4>1. pc' = [pc EXCEPT ![t] = "asleep"] /\ mutex' = [mutex EXCEPT ![t] = NONE]
              /\ wake' = [wake EXCEPT ![t] = "waiting"]
          BY <1>2, <3>1 DEF CheckLen
        <4>2. pc' \in [Threads -> PC]
          BY <4>1
        <4>3. mutex' \in [Tasks -> Threads \cup {NONE}]
          BY <4>1
        <4>4. wake' \in [Tasks -> {"none", "waiting", "signalled", "spurious", "lost"}]
          BY <4>1
        <4> QED
          BY <1>2, <4>2, <4>3, <4>4 DEF CheckLen
      <3>2. CASE queue[t] # <<>>
        <4>1. pc' = [pc EXCEPT ![t] = "take"] /\ mutex' = mutex /\ wake' = wake
          BY <1>2, <3>2 DEF CheckLen
        <4>2. pc' \in [Threads -> PC]
          BY <4>1
        <4> QED
          BY <1>2, <4>1, <4>2 DEF CheckLen
      <3> QED
        BY <3>1, <3>2
    <2>2. BootInv'
      <3>1. CASE queue[t] = <<>>
        BY <1>2, <3>1, <1>0, BootKept DEF CheckLen
      <3>2. CASE queue[t] # <<>>
        BY <1>2, <3>2, <1>0, BootKept DEF CheckLen
      <3> QED
        BY <3>1, <3>2
    <2>3. BarrierInv'
      BY <1>2, <1>0, BarrierKept DEF CheckLen, BarrierInv
    <2>4. LockInv'
      <3>1. CASE queue[t] = <<>>
        <4>1. \A p \in Threads : pc'[p] = IF p = t THEN "asleep" ELSE pc[p]
          BY <1>2, <3>1 DEF CheckLen
        <4>2. \A u \in Tasks \ {t} : mutex'[u] = mutex[u]
          BY <1>2, <3>1 DEF CheckLen
        <4>3. mutex[t] = t /\ pc[t] = "check" /\ dst' = dst /\ out' = out
          BY <1>2 DEF CheckLen, LockInv
        <4>4. \A p \in Threads : pc[p] \in {"signal", "unlock"} =>
                                dst[p] \in Tasks \ {t} /\ mutex[dst[p]] = p
          BY <4>3 DEF LockInv
        <4>6. \A u \in Workers : pc'[u] \in {"check", "take"} => mutex'[u] = u
          BY <4>1, <4>2 DEF LockInv
        <4>7. \A p \in Threads : pc'[p] \in {"post", "signal", "unlock"} => dst'[p] \in Workers
          BY <4>1, <4>3 DEF LockInv
        <4>8. \A p \in Threads : pc'[p] = "post" => out'[p] # NONE
          BY <4>1, <4>3 DEF LockInv
        <4> HIDE DEF IInv, TypeOK
        <4>9. \A p \in Threads : pc'[p] \in {"signal", "unlock"} => mutex'[dst'[p]] = p
          BY <4>1, <4>2, <4>3, <4>4
        <4> QED
          BY <4>6, <4>7, <4>8, <4>9, Zenon DEF LockInv
      <3>2. CASE queue[t] # <<>>
        BY <1>2, <3>2 DEF CheckLen, LockInv
      <3> QED
        BY <3>1, <3>2
    <2>5. SleepInv'
      <3>1. CASE queue[t] = <<>>
        <4>1. \A p \in Threads : pc'[p] = IF p = t THEN "asleep" ELSE pc[p]
          BY <1>2, <3>1 DEF CheckLen
        <4>2. \A u \in Tasks : wake'[u] = IF u = t THEN "waiting" ELSE wake[u]
          BY <1>2, <3>1 DEF CheckLen
        <4>3. \A u \in Tasks : queue'[u] = queue[u]
          BY <1>2, <3>1 DEF CheckLen
        <4>4. \A p \in Threads : dst'[p] = dst[p]
          BY <1>2 DEF CheckLen
        <4>5. \A p \in Threads : pc'[p] = "signal" => queue'[dst'[p]] # <<>>
          BY <1>2, <4>1, <4>3, <4>4 DEF CheckLen, LockInv, SleepInv, SleepOf
        <4>6. \A u \in Tasks \ {t} : SleepOf(u)'
          <5>1. \A u \in Tasks \ {t} : wake'[u] = wake[u] /\ pc'[u] = pc[u] /\ queue'[u] = queue[u]
            BY <4>1, <4>2, <4>3
          <5>2. \A u \in Tasks \ {t} : SleepOf(u)
            BY DEF SleepInv
          <5> HIDE DEF IInv, TypeOK
          <5> QED
            BY <5>1, <5>2 DEF SleepOf
        <4>7. SleepOf(t)'
          BY <1>2, <3>1, <4>1, <4>2, <4>3 DEF CheckLen, SleepInv, SleepOf
        <4>8. \A u \in Tasks : SleepOf(u)'
          BY <4>6, <4>7
        <4> QED
          BY <4>5, <4>8 DEF SleepInv
      <3>2. CASE queue[t] # <<>>
        <4>1. \A p \in Threads : pc'[p] = IF p = t THEN "take" ELSE pc[p]
          BY <1>2, <3>2 DEF CheckLen
        <4>2. \A u \in Tasks : wake'[u] = wake[u]
          BY <1>2, <3>2 DEF CheckLen
        <4>3. \A u \in Tasks : queue'[u] = queue[u]
          BY <1>2, <3>2 DEF CheckLen
        <4>4. \A p \in Threads : dst'[p] = dst[p]
          BY <1>2 DEF CheckLen
        <4>5. \A p \in Threads : pc'[p] = "signal" => queue'[dst'[p]] # <<>>
          BY <1>2, <4>1, <4>3, <4>4 DEF CheckLen, LockInv, SleepInv, SleepOf
        <4>6. \A u \in Tasks \ {t} : SleepOf(u)'
          <5>1. \A u \in Tasks \ {t} : wake'[u] = wake[u] /\ pc'[u] = pc[u] /\ queue'[u] = queue[u]
            BY <4>1, <4>2, <4>3
          <5>2. \A u \in Tasks \ {t} : SleepOf(u)
            BY DEF SleepInv
          <5> HIDE DEF IInv, TypeOK
          <5> QED
            BY <5>1, <5>2 DEF SleepOf
        <4>7. SleepOf(t)'
          BY <1>2, <3>2, <4>1, <4>2, <4>3 DEF CheckLen, SleepInv, SleepOf
        <4>8. \A u \in Tasks : SleepOf(u)'
          BY <4>6, <4>7
        <4> QED
          BY <4>5, <4>8 DEF SleepInv
      <3> QED
        BY <3>1, <3>2
    <2>6. NoLostWakeup'
      BY <1>2 DEF CheckLen, LockInv, SleepInv, SleepOf, NoLostWakeup
    <2>7. NullOnlyIfSpurious'
      BY <1>2 DEF CheckLen, SleepInv, SleepOf, NullOnlyIfSpurious
    <2> QED
      BY <2>1, <2>2, <2>3, <2>4, <2>5, <2>6, <2>7 DEF Rest
  <1>3. CASE Awake(t)
    <2>1. TypeOK'
      BY <1>3 DEF Awake
    <2>2. BootInv'
      BY <1>3, <1>0, BootKept DEF Awake, BootInv
    <2>3. BarrierInv'
      BY <1>3, <1>0, BarrierKept DEF Awake, BarrierInv
    <2>4. LockInv'
      BY <1>3 DEF Awake, LockInv
    <2>5. SleepInv'
      BY <1>3 DEF Awake, LockInv, SleepInv, SleepOf
    <2>6. NoLostWakeup'
      BY <1>3 DEF Awake, LockInv, SleepInv, SleepOf, NoLostWakeup
    <2>7. NullOnlyIfSpurious'
      BY <1>3 DEF Awake, SleepInv, SleepOf, NullOnlyIfSpurious
    <2> QED
      BY <2>1, <2>2, <2>3, <2>4, <2>5, <2>6, <2>7 DEF Rest
  <1>4. CASE TakeAndUnlock(t)
    <2>1. TypeOK'
      <3>1. CASE queue[t] = <<>>
        <4>1. pc' = [pc EXCEPT ![t] = "crash"] /\ mutex' = [mutex EXCEPT ![t] = NONE]
              /\ UNCHANGED <<msg, queue, wake>>
          BY <1>4, <3>1 DEF TakeAndUnlock
        <4>2. pc' \in [Threads -> PC]
          BY <4>1
        <4>3. mutex' \in [Tasks -> Threads \cup {NONE}]
          BY <4>1
        <4> QED
          BY <1>4, <4>1, <4>2, <4>3 DEF TakeAndUnlock
      <3>2. CASE queue[t] # <<>>
        <4>1. Head(queue[t]) \in Msgs /\ Tail(queue[t]) \in Seq(Msgs)
          BY <3>2, QueueFacts
        <4>0. /\ queue' = [queue EXCEPT ![t] = Tail(@)] /\ msg' = [msg EXCEPT ![t] = Head(queue[t])]
              /\ wake' = [wake EXCEPT ![t] = "none"] /\ pc' = [pc EXCEPT ![t] = "run"]
          BY <1>4, <3>2 DEF TakeAndUnlock
        <4>2. queue' \in [Tasks -> Seq(Msgs)]
          BY <4>0, <4>1
        <4>3. msg' \in [Tasks -> Msgs \cup {NONE}]
          BY <4>0, <4>1
        <4>4. pc' \in [Threads -> PC]
          BY <4>0
        <4>5. wake' \in [Tasks -> {"none", "waiting", "signalled", "spurious", "lost"}]
          BY <4>0
        <4>6. mutex' \in [Tasks -> Threads \cup {NONE}]
          BY <1>4 DEF TakeAndUnlock
        <4> QED
          BY <1>4, <4>2, <4>3, <4>4, <4>5, <4>6 DEF TakeAndUnlock
      <3> QED
        BY <3>1, <3>2
    <2>2. BootInv'
      <3>1. CASE queue[t] = <<>>
        BY <1>4, <3>1, <1>0, BootKept DEF TakeAndUnlock
      <3>2. CASE queue[t] # <<>>
        BY <1>4, <3>2, <1>0, BootKept DEF TakeAndUnlock
      <3> QED
        BY <3>1, <3>2
    <2>3. BarrierInv'
      BY <1>4, <1>0, BarrierKept DEF TakeAndUnlock, BarrierInv
    <2>4. LockInv'
      BY <1>4 DEF TakeAndUnlock, LockInv
    <2>5. SleepInv'
      <3>1. CASE queue[t] = <<>>
        <4>1. \A p \in Threads : pc'[p] = IF p = t THEN "crash" ELSE pc[p]
          BY <1>4, <3>1 DEF TakeAndUnlock
        <4>2. \A u \in Tasks : wake'[u] = wake[u]
          BY <1>4, <3>1 DEF TakeAndUnlock
        <4>3. \A u \in Tasks : queue'[u] = queue[u]
          BY <1>4, <3>1 DEF TakeAndUnlock
        <4>4. \A p \in Threads : dst'[p] = dst[p]
          BY <1>4 DEF TakeAndUnlock
        <4>5. \A p \in Threads : pc'[p] = "signal" => queue'[dst'[p]] # <<>>
          BY <1>4, <4>1, <4>3, <4>4 DEF TakeAndUnlock, LockInv, SleepInv, SleepOf
        <4>6. \A u \in Tasks \ {t} : SleepOf(u)'
          <5>1. \A u \in Tasks \ {t} : wake'[u] = wake[u] /\ pc'[u] = pc[u] /\ queue'[u] = queue[u]
            BY <4>1, <4>2, <4>3
          <5>2. \A u \in Tasks \ {t} : SleepOf(u)
            BY DEF SleepInv
          <5> HIDE DEF IInv, TypeOK
          <5> QED
            BY <5>1, <5>2 DEF SleepOf
        <4>7. SleepOf(t)'
          BY <1>4, <3>1, <4>1, <4>2, <4>3 DEF TakeAndUnlock, SleepInv, SleepOf
        <4>8. \A u \in Tasks : SleepOf(u)'
          BY <4>6, <4>7
        <4> QED
          BY <4>5, <4>8 DEF SleepInv
      <3>2. CASE queue[t] # <<>>
        <4>1. \A p \in Threads : pc'[p] = IF p = t THEN "run" ELSE pc[p]
          BY <1>4, <3>2 DEF TakeAndUnlock
        <4>2. \A u \in Tasks : wake'[u] = IF u = t THEN "none" ELSE wake[u]
          BY <1>4, <3>2 DEF TakeAndUnlock
        <4>3. \A u \in Tasks : queue'[u] = IF u = t THEN Tail(queue[u]) ELSE queue[u]
          <5>1. queue' = [queue EXCEPT ![t] = Tail(@)]
            BY <1>4, <3>2 DEF TakeAndUnlock
          <5> QED
            BY <5>1
        <4>4. \A p \in Threads : dst'[p] = dst[p]
          BY <1>4 DEF TakeAndUnlock
        <4>5. \A p \in Threads : pc'[p] = "signal" => queue'[dst'[p]] # <<>>
          BY <1>4, <4>1, <4>3, <4>4 DEF TakeAndUnlock, LockInv, SleepInv, SleepOf
        <4>6. \A u \in Tasks \ {t} : SleepOf(u)'
          <5>1. \A u \in Tasks \ {t} : wake'[u] = wake[u] /\ pc'[u] = pc[u] /\ queue'[u] = queue[u]
            BY <4>1, <4>2, <4>3
          <5>2. \A u \in Tasks \ {t} : SleepOf(u)
            BY DEF SleepInv
          <5> HIDE DEF IInv, TypeOK
          <5> QED
            BY <5>1, <5>2 DEF SleepOf
        <4>7. SleepOf(t)'
          BY <1>4, <3>2, <4>1, <4>2, <4>3 DEF TakeAndUnlock, SleepInv, SleepOf
        <4>8. \A u \in Tasks : SleepOf(u)'
          BY <4>6, <4>7
        <4> QED
          BY <4>5, <4>8 DEF SleepInv
      <3> QED
        BY <3>1, <3>2
    <2>6. NoLostWakeup'
      BY <1>4 DEF TakeAndUnlock, LockInv, SleepInv, SleepOf, NoLostWakeup
    <2>7. NullOnlyIfSpurious'
      BY <1>4 DEF TakeAndUnlock, SleepInv, SleepOf, NullOnlyIfSpurious
    <2> QED
      BY <2>1, <2>2, <2>3, <2>4, <2>5, <2>6, <2>7 DEF Rest
  <1>5. CASE SpuriousWakeup(t)
    <2>1. TypeOK'
      BY <1>5 DEF SpuriousWakeup
    <2>2. BootInv'
      BY <1>5 DEF SpuriousWakeup, BootInv
    <2>3. BarrierInv'
      BY <1>5 DEF SpuriousWakeup, BarrierInv
    <2>4. LockInv'
      BY <1>5 DEF SpuriousWakeup, LockInv
    <2>5. SleepInv'
      BY <1>5 DEF SpuriousWakeup, LockInv, SleepInv, SleepOf
    <2>6. NoLostWakeup'
      BY <1>5 DEF SpuriousWakeup, LockInv, SleepInv, SleepOf, NoLostWakeup
    <2>7. NullOnlyIfSpurious'
      BY <1>5 DEF SpuriousWakeup, SleepInv, SleepOf, NullOnlyIfSpurious
    <2> QED
      BY <2>1, <2>2, <2>3, <2>4, <2>5, <2>6, <2>7 DEF Rest
  <1>6. CASE FreeMsg(t)
    <2>1. TypeOK'
      BY <1>6 DEF FreeMsg
    <2>2. BootInv'
      BY <1>6, <1>0, BootKept DEF FreeMsg, BootInv
    <2>3. BarrierInv'
      BY <1>6, <1>0, BarrierKept DEF FreeMsg, BarrierInv
    <2>4. LockInv'
      BY <1>6 DEF FreeMsg, LockInv
    <2>5. SleepInv'
      BY <1>6 DEF FreeMsg, LockInv, SleepInv, SleepOf
    <2>6. NoLostWakeup'
      BY <1>6 DEF FreeMsg, LockInv, SleepInv, SleepOf, NoLostWakeup
    <2>7. NullOnlyIfSpurious'
      BY <1>6 DEF FreeMsg, SleepInv, SleepOf, NullOnlyIfSpurious
    <2> QED
      BY <2>1, <2>2, <2>3, <2>4, <2>5, <2>6, <2>7 DEF Rest
  <1> QED
    BY <1>1, <1>2, <1>3, <1>4, <1>5, <1>6 DEF Receive

LEMMA PostStep ==
  ASSUME IInv, NEW p \in Workers \cup Callbacks,
         PostOf(p) \/ \E d \in Workers : GetMsg(p, d)
  PROVE  Rest'
  <1> USE Sets DEF IInv, TypeOK, Go, PC, postVars, bootVars
  <1>0. started >= N /\ pc[p] # "unborn"
    BY DEF PostOf, LockAndPut, Signal, Unlock, GetMsg, BarrierInv
  <1>1. CASE LockAndPut(p)
    <2>0. /\ dst[p] \in Workers /\ dst[p] \in Tasks /\ out[p] \in Msgs
          /\ Append(queue[dst[p]], out[p]) \in Seq(Msgs)
          /\ Append(queue[dst[p]], out[p]) # <<>>
      <3>1. dst[p] \in Workers /\ dst[p] \in Tasks /\ out[p] \in Msgs
        BY <1>1 DEF LockAndPut, LockInv
      <3> QED
        BY <3>1, QueueFacts
    <2>1. TypeOK'
      <3>1. queue' \in [Tasks -> Seq(Msgs)]
        BY <1>1, <2>0 DEF LockAndPut
      <3>2. pc' \in [Threads -> PC] /\ out' \in [Threads -> Msgs \cup {NONE}]
        BY <1>1 DEF LockAndPut
      <3>3. mutex' \in [Tasks -> Threads \cup {NONE}]
        BY <1>1, <2>0 DEF LockAndPut
      <3> QED
        BY <1>1, <3>1, <3>2, <3>3 DEF LockAndPut
    <2>2. BootInv'
      BY <1>1, <1>0, BootKept DEF LockAndPut, BootInv
    <2>3. BarrierInv'
      BY <1>1, <1>0, BarrierKept DEF LockAndPut, BarrierInv
    <2>4. LockInv'
      BY <1>1 DEF LockAndPut, LockInv
    <2>5. SleepInv'
      <3>1. \A u \in Tasks : queue'[u] = IF u = dst[p] THEN Append(queue[u], out[p]) ELSE queue[u]
        BY <1>1, <2>0 DEF LockAndPut
      <3>2. \A u \in Tasks : queue'[u] = <<>> => queue[u] = <<>>
        BY <2>0, <3>1
      <3>3. \A q \in Threads : pc'[q] = IF q = p THEN "signal" ELSE pc[q]
        BY <1>1 DEF LockAndPut
      <3>4. \A u \in Tasks : pc[u] # pc'[u] => u = p /\ wake[u] = "none" /\ pc'[u] = "signal"
        BY <1>1, <3>3 DEF LockAndPut, SleepInv, SleepOf
      <3>5. \A q \in Threads : pc'[q] = "signal" => queue'[dst[q]] # <<>>
        <4>1. queue'[dst[p]] # <<>>
          BY <2>0, <3>1
        <4>2. \A q \in Threads : pc[q] = "signal" => queue'[dst[q]] # <<>>
          BY <3>2 DEF SleepInv, SleepOf
        <4> QED
          BY <4>1, <4>2, <3>3
      <3> QED
        BY <1>1, <3>2, <3>4, <3>5 DEF LockAndPut, SleepInv, SleepOf
    <2>6. NoLostWakeup'
      BY <1>1 DEF LockAndPut, LockInv, SleepInv, SleepOf, NoLostWakeup
    <2>7. NullOnlyIfSpurious'
      BY <1>1, <2>0 DEF LockAndPut, SleepInv, SleepOf, NullOnlyIfSpurious
    <2> QED
      BY <2>1, <2>2, <2>3, <2>4, <2>5, <2>6, <2>7 DEF Rest
  <1>2. CASE Signal(p)
    <2>1. TypeOK'
      BY <1>2 DEF Signal
    <2>2. BootInv'
      BY <1>2, <1>0, BootKept DEF Signal, BootInv
    <2>3. BarrierInv'
      BY <1>2, <1>0, BarrierKept DEF Signal, BarrierInv
    <2>4. LockInv'
      BY <1>2 DEF Signal, LockInv
    <2>5. SleepInv'
      BY <1>2 DEF Signal, LockInv, SleepInv, SleepOf
    <2>6. NoLostWakeup'
      BY <1>2 DEF Signal, LockInv, SleepInv, SleepOf, NoLostWakeup
    <2>7. NullOnlyIfSpurious'
      BY <1>2 DEF Signal, SleepInv, SleepOf, NullOnlyIfSpurious
    <2> QED
      BY <2>1, <2>2, <2>3, <2>4, <2>5, <2>6, <2>7 DEF Rest
  <1>3. CASE Unlock(p)
    <2>1. TypeOK'
      BY <1>3 DEF Unlock
    <2>2. BootInv'
      BY <1>3, <1>0, BootKept DEF Unlock, BootInv
    <2>3. BarrierInv'
      BY <1>3, <1>0, BarrierKept DEF Unlock, BarrierInv
    <2>4. LockInv'
      BY <1>3 DEF Unlock, LockInv
    <2>5. SleepInv'
      BY <1>3 DEF Unlock, LockInv, SleepInv, SleepOf
    <2>6. NoLostWakeup'
      BY <1>3 DEF Unlock, LockInv, SleepInv, SleepOf, NoLostWakeup
    <2>7. NullOnlyIfSpurious'
      BY <1>3 DEF Unlock, SleepInv, SleepOf, NullOnlyIfSpurious
    <2> QED
      BY <2>1, <2>2, <2>3, <2>4, <2>5, <2>6, <2>7 DEF Rest
  <1>4. CASE \E d \in Workers : GetMsg(p, d)
    <2>1. TypeOK'
      BY <1>4 DEF GetMsg
    <2>2. BootInv'
      BY <1>4, <1>0, BootKept DEF GetMsg, BootInv
    <2>3. BarrierInv'
      BY <1>4, <1>0, BarrierKept DEF GetMsg, BarrierInv
    <2>4. LockInv'
      BY <1>4 DEF GetMsg, LockInv
    <2>5. SleepInv'
      BY <1>4 DEF GetMsg, LockInv, SleepInv, SleepOf
    <2>6. NoLostWakeup'
      BY <1>4 DEF GetMsg, LockInv, SleepInv, SleepOf, NoLostWakeup
    <2>7. NullOnlyIfSpurious'
      BY <1>4 DEF GetMsg, SleepInv, SleepOf, NullOnlyIfSpurious
    <2> QED
      BY <2>1, <2>2, <2>3, <2>4, <2>5, <2>6, <2>7 DEF Rest
  <1> QED
    BY <1>1, <1>2, <1>3, <1>4 DEF PostOf

LEMMA CallbackStep ==
  ASSUME IInv, NEW c \in Callbacks, StartCallback(c)
  PROVE  Rest'
  <1> USE Sets DEF IInv, TypeOK, Go, PC, postVars, bootVars
  <1>0. started >= N
    BY DEF StartCallback, BarrierInv
  <1>1. CASE StartCallback(c)
    <2>1. TypeOK'
      BY <1>1 DEF StartCallback
    <2>2. BootInv'
      BY <1>1, <1>0, BootKept DEF StartCallback, BootInv
    <2>3. BarrierInv'
      BY <1>1, <1>0, BarrierKept DEF StartCallback, BarrierInv
    <2>4. LockInv'
      BY <1>1 DEF StartCallback, LockInv
    <2>5. SleepInv'
      BY <1>1 DEF StartCallback, LockInv, SleepInv, SleepOf
    <2>6. NoLostWakeup'
      BY <1>1 DEF StartCallback, LockInv, SleepInv, SleepOf, NoLostWakeup
    <2>7. NullOnlyIfSpurious'
      BY <1>1 DEF StartCallback, SleepInv, SleepOf, NullOnlyIfSpurious
    <2> QED
      BY <2>1, <2>2, <2>3, <2>4, <2>5, <2>6, <2>7 DEF Rest
  <1> QED
    BY <1>1

LEMMA StepIInv == IInv /\ [Next]_vars => IInv'
  <1> SUFFICES ASSUME IInv, [Next]_vars PROVE IInv'
    OBVIOUS
  <1>1. CountInv'
    BY CountStep
  <1>2. Rest'
    <2>1. CASE UNCHANGED vars
      BY <2>1 DEF vars, IInv, Rest, TypeOK, BootInv, BarrierInv, LockInv, SleepInv, SleepOf, NoLostWakeup, NullOnlyIfSpurious
    <2>2. CASE Next
      BY <2>2, MainStep, StartStep, ReceiveStep, PostStep, CallbackStep DEF Next, Step
    <2> QED
      BY <2>1, <2>2
  <1> QED
    BY <1>1, <1>2 DEF Rest, IInv

\* For any number of tasks, callback threads and messages the kernel keeps its
\* inductive invariant.
THEOREM KernelInvariant == Spec => []IInv
  <1> QED
    BY InitIInv, StepIInv, PTL DEF Spec

\* Every variable of the kernel keeps its type.
THEOREM KernelTypes == Spec => []TypeOK
  <1>1. IInv => TypeOK
    BY DEF IInv
  <1> QED
    BY <1>1, KernelInvariant, PTL

\* ak_msg_rev and task_post lose no wake-up: a task asleep on a mailbox with a
\* message in it is about to be signalled.
THEOREM NoWakeupIsLost == Spec => []NoLostWakeup
  <1>1. IInv => NoLostWakeup
    BY DEF IInv
  <1> QED
    BY <1>1, KernelInvariant, PTL

\* A signalled task finds its message: only a spurious return of
\* pthread_cond_wait makes ak_msg_rev return AK_MSG_NULL.
THEOREM NullNeedsSpuriousWakeup == Spec => []NullOnlyIfSpurious
  <1>1. IInv => NullOnlyIfSpurious
    BY DEF IInv
  <1> QED
    BY <1>1, KernelInvariant, PTL

\* main may initialise mailboxes after other threads have started, and all
\* condition variables but the last one: the barrier keeps everybody away.
THEOREM SetupIsSafe == Spec => []SetupBeforeUse
  <1>1. IInv => SetupBeforeUse
    <2> SUFFICES ASSUME IInv PROVE SetupBeforeUse
      OBVIOUS
    <2> USE DEF IInv
    <2>1. idx \in 0..N /\ LastTask \in Tasks /\ N \in Nat
      BY ConstantsAssumption DEF TypeOK, LastTask, Tasks
    <2>2. started < N \/ pc[LastTask] # "unborn"
      BY <2>1, AllCounted DEF TypeOK
    <2>3. ASSUME NEW t \in Tasks, t >= idx, mainpc = "init"
          PROVE  queue[t] = <<>>
      <3>1. started < N
        BY <2>1, <2>3, <2>2 DEF BootInv, LastTask, Tasks
      <3> QED
        BY <2>1, <3>1 DEF BarrierInv, TypeOK
    <2>4. ASSUME NEW t \in Tasks \ {LastTask}, t \notin condReady
          PROVE  wake[t] = "none" /\ \A p \in Threads : pc[p] # "signal"
      <3>1. t >= idx /\ t < LastTask
        BY <2>1, <2>4 DEF BootInv, LastTask, Tasks
      <3>2. pc[LastTask] = "unborn"
        BY <2>1, <3>1 DEF BootInv, LastTask, Tasks
      <3>3. started < N
        BY <2>2, <3>2
      <3>4. \A p \in Threads : pc[p] \in {"unborn", "start", "barrier"}
        BY <2>1, <3>3 DEF BarrierInv, TypeOK
      <3> QED
        BY <2>4, <3>4 DEF SleepInv, SleepOf, Threads
    <2> QED
      BY <2>3, <2>4 DEF SetupBeforeUse
  <1> QED
    BY <1>1, KernelInvariant, PTL
-----------------------------------------------------------------------------
(* Who owns a message, and the mailboxes of Mailboxes.tla *)

\* A task has a message only while it runs its handler.
HandlingInv ==
  \A t \in Tasks : msg[t] # NONE => pc[t] \in {"run", "post", "signal", "unlock"}

\* What a step does to the messages.
LEMMA MessagesMove ==
  ASSUME IInv, [Next]_vars
  PROVE  \/ UNCHANGED <<queue, msg, out>>
         \/ \E p \in Threads : \E m \in Msgs :
              ~Allocated(m) /\ out' = [out EXCEPT ![p] = m] /\ UNCHANGED <<queue, msg>>
         \/ \E p \in Threads : LockAndPut(p)
         \/ \E t \in Workers : TakeAndUnlock(t) /\ queue[t] # <<>>
         \/ \E t \in Workers : FreeMsg(t)
  <1> USE DEF postVars
  <1>1. CASE Main
    BY <1>1, InitErasesNothing DEF Main, MainInitMailbox, MainCreateThread, MainInitCond
  <1>2. ASSUME NEW t \in Tasks, CountStarted(t) \/ PassBarrier(t)
        PROVE  UNCHANGED <<queue, msg, out>>
    BY <1>2 DEF CountStarted, PassBarrier
  <1>3. ASSUME NEW t \in Workers, LockToReceive(t) \/ CheckLen(t) \/ Awake(t) \/ SpuriousWakeup(t)
        PROVE  UNCHANGED <<queue, msg, out>>
    BY <1>3 DEF LockToReceive, CheckLen, Awake, SpuriousWakeup
  <1>4. ASSUME NEW t \in Workers, TakeAndUnlock(t), queue[t] = <<>>
        PROVE  UNCHANGED <<queue, msg, out>>
    BY <1>4 DEF TakeAndUnlock
  <1>5. ASSUME NEW p \in Workers \cup Callbacks, Signal(p) \/ Unlock(p)
        PROVE  UNCHANGED <<queue, msg, out>>
    BY <1>5 DEF Signal, Unlock
  <1>6. ASSUME NEW p \in Workers \cup Callbacks, NEW d \in Workers, GetMsg(p, d)
        PROVE  \E m \in Msgs :
                 ~Allocated(m) /\ out' = [out EXCEPT ![p] = m] /\ UNCHANGED <<queue, msg>>
    BY <1>6 DEF GetMsg
  <1>7. ASSUME NEW c \in Callbacks, StartCallback(c)
        PROVE  UNCHANGED <<queue, msg, out>>
    BY <1>7 DEF StartCallback
  <1>8. CASE UNCHANGED vars
    BY <1>8 DEF vars
  <1>9. Workers \cup Callbacks \subseteq Threads
    BY Sets
  <1> QED
    BY <1>1, <1>2, <1>3, <1>4, <1>5, <1>6, <1>7, <1>8, <1>9 DEF Next, Step, Receive, PostOf

LEMMA HandlingStep ==
  ASSUME IInv, HandlingInv, [Next]_vars
  PROVE  HandlingInv'
  <1> USE Sets DEF IInv, TypeOK, HandlingInv, Go, postVars, bootVars
  <1>1. CASE Main
    <2>1. UNCHANGED msg
      BY <1>1 DEF Main, MainInitMailbox, MainCreateThread, MainInitCond
    <2>2. idx \in Tasks
      BY <1>1 DEF Main, MainInitMailbox, MainCreateThread, MainInitCond, BootInv, Tasks
    <2>3. CASE MainCreateThread
      BY <2>1, <2>2, <2>3, NobodyRuns DEF MainCreateThread
    <2> QED
      BY <1>1, <2>1, <2>3 DEF Main, MainInitMailbox, MainInitCond
  <1>2. ASSUME NEW t \in Tasks, CountStarted(t) \/ PassBarrier(t) PROVE HandlingInv'
    BY <1>2 DEF CountStarted, PassBarrier
  <1>3. ASSUME NEW t \in Workers, LockToReceive(t) \/ Awake(t) \/ SpuriousWakeup(t) \/ FreeMsg(t)
        PROVE  HandlingInv'
    BY <1>3 DEF LockToReceive, Awake, SpuriousWakeup, FreeMsg
  <1>4. ASSUME NEW t \in Workers, CheckLen(t) PROVE HandlingInv'
    <2>1. msg[t] = NONE /\ UNCHANGED msg
      BY <1>4 DEF CheckLen
    <2>2. pc' = [pc EXCEPT ![t] = "asleep"] \/ pc' = [pc EXCEPT ![t] = "take"]
      BY <1>4 DEF CheckLen
    <2> QED
      BY <2>1, <2>2
  <1>5. ASSUME NEW t \in Workers, TakeAndUnlock(t) PROVE HandlingInv'
    <2>1. \A u \in Tasks \ {t} : pc'[u] = pc[u] /\ msg'[u] = msg[u]
      BY <1>5 DEF TakeAndUnlock
    <2>2. msg[t] = NONE
      BY <1>5 DEF TakeAndUnlock
    <2>3. msg'[t] # NONE => pc'[t] = "run"
      BY <1>5, <2>2 DEF TakeAndUnlock
    <2> QED
      BY <2>1, <2>3
  <1>6. ASSUME NEW p \in Workers \cup Callbacks,
               LockAndPut(p) \/ Signal(p) \/ Unlock(p) \/ \E d \in Workers : GetMsg(p, d)
        PROVE  HandlingInv'
    BY <1>6 DEF LockAndPut, Signal, Unlock, GetMsg
  <1>7. ASSUME NEW c \in Callbacks, StartCallback(c) PROVE HandlingInv'
    BY <1>7 DEF StartCallback
  <1>8. CASE UNCHANGED vars
    BY <1>8 DEF vars
  <1> QED
    BY <1>1, <1>2, <1>3, <1>4, <1>5, <1>6, <1>7, <1>8 DEF Next, Step, Receive, PostOf

\* m is at position i of the mailbox of t.
At(t, i, m) == i \in 1..Len(queue[t]) /\ queue[t][i] = m

\* OneOwner, one conjunct for each two places a message can be in.
Owners ==
  /\ \A t, u \in Tasks : msg[t] = msg[u] /\ msg[t] # NONE => t = u
  /\ \A p, q \in Threads : out[p] = out[q] /\ out[p] # NONE => p = q
  /\ \A t \in Tasks, p \in Threads : msg[t] = out[p] => msg[t] = NONE
  /\ \A m \in Msgs, t \in Tasks : \A i \in Nat : At(t, i, m) =>
       /\ \A p \in Threads : out[p] # m
       /\ \A u \in Tasks : msg[u] # m
  /\ \A m \in Msgs, t, u \in Tasks : \A i, j \in Nat : At(t, i, m) /\ At(u, j, m) => t = u /\ i = j

LEMMA OwnersIsOneOwner ==
  ASSUME TypeOK, Owners
  PROVE  OneOwner
  <1> SUFFICES ASSUME NEW m \in Msgs
               PROVE  /\ \A t, u \in Tasks : msg[t] = m /\ msg[u] = m => t = u
                      /\ \A p, q \in Threads : out[p] = m /\ out[q] = m => p = q
                      /\ \A t \in Tasks, p \in Threads : ~(msg[t] = m /\ out[p] = m)
                      /\ InMailbox(m) => \A p \in Threads : out[p] # m
                      /\ InMailbox(m) => \A t \in Tasks : msg[t] # m
                      /\ \A t, u \in Tasks : \A i \in 1..Len(queue[t]), j \in 1..Len(queue[u]) :
                           queue[t][i] = m /\ queue[u][j] = m => t = u /\ i = j
    BY DEF OneOwner
  <1>1. m # NONE
    BY Sets
  <1>2. \A t \in Tasks : Len(queue[t]) \in Nat
    BY LenProperties DEF TypeOK
  <1>3. \A t \in Tasks : \A i \in 1..Len(queue[t]) : i \in Nat /\ (queue[t][i] = m => At(t, i, m))
    BY <1>2 DEF At
  <1>4. InMailbox(m) => \A p \in Threads : out[p] # m
    BY <1>3 DEF InMailbox, Owners
  <1>5. InMailbox(m) => \A t \in Tasks : msg[t] # m
    BY <1>3 DEF InMailbox, Owners
  <1>6. \A t, u \in Tasks : \A i \in 1..Len(queue[t]), j \in 1..Len(queue[u]) :
          queue[t][i] = m /\ queue[u][j] = m => t = u /\ i = j
    BY <1>3 DEF Owners
  <1> QED
    BY <1>1, <1>4, <1>5, <1>6 DEF Owners

\* What appending and taking do to the places in a mailbox.
LEMMA AtAfterPut ==
  ASSUME TypeOK, NEW d \in Tasks, NEW m \in Msgs, queue' = [queue EXCEPT ![d] = Append(@, m)]
  PROVE  \A n \in Msgs, t \in Tasks : \A i \in Nat :
           At(t, i, n)' => At(t, i, n) \/ (t = d /\ n = m /\ i = Len(queue[d]) + 1)
  <1>1. /\ Len(Append(queue[d], m)) = Len(queue[d]) + 1 /\ Len(queue[d]) \in Nat
        /\ Append(queue[d], m)[Len(queue[d]) + 1] = m
        /\ \A i \in 1..Len(queue[d]) : Append(queue[d], m)[i] = queue[d][i]
    BY AppendProperties, LenProperties DEF TypeOK
  <1>2. queue'[d] = Append(queue[d], m) /\ \A t \in Tasks \ {d} : queue'[t] = queue[t]
    BY DEF TypeOK
  <1> QED
    BY <1>1, <1>2 DEF At

LEMMA AtAfterTake ==
  ASSUME TypeOK, NEW t \in Tasks, queue[t] # <<>>, queue' = [queue EXCEPT ![t] = Tail(@)]
  PROVE  /\ Head(queue[t]) \in Msgs /\ At(t, 1, Head(queue[t]))
         /\ \A n \in Msgs, u \in Tasks : \A i \in Nat :
              At(u, i, n)' => IF u = t THEN At(t, i + 1, n) /\ i # 0 ELSE At(u, i, n)
  <1>1. /\ Head(queue[t]) \in Msgs /\ Head(queue[t]) = queue[t][1]
        /\ Len(queue[t]) \in Nat /\ Len(queue[t]) # 0 /\ Len(Tail(queue[t])) = Len(queue[t]) - 1
        /\ \A i \in 1..Len(Tail(queue[t])) : Tail(queue[t])[i] = queue[t][i + 1]
    BY HeadTailProperties, LenProperties, EmptySeq DEF TypeOK
  <1>2. queue'[t] = Tail(queue[t]) /\ \A u \in Tasks \ {t} : queue'[u] = queue[u]
    BY DEF TypeOK
  <1>3. ASSUME NEW n \in Msgs, NEW i \in Nat, At(t, i, n)' PROVE At(t, i + 1, n) /\ i # 0
    <2>1. i \in 1..Len(Tail(queue[t])) /\ Tail(queue[t])[i] = n
      BY <1>2, <1>3 DEF At
    <2> QED
      BY <1>1, <2>1 DEF At
  <1>4. ASSUME NEW n \in Msgs, NEW u \in Tasks \ {t}, NEW i \in Nat, At(u, i, n)' PROVE At(u, i, n)
    BY <1>2, <1>4 DEF At
  <1>5. At(t, 1, Head(queue[t]))
    BY <1>1 DEF At
  <1> QED
    BY <1>1, <1>3, <1>4, <1>5

LEMMA InitOwners == Init => Owners /\ HandlingInv
  <1> SUFFICES ASSUME Init PROVE Owners /\ HandlingInv
    OBVIOUS
  <1>1. \A t \in Tasks : Len(queue[t]) = 0
    BY EmptySeq DEF Init
  <1>2. \A t \in Tasks : \A i \in Nat, m \in Msgs : ~At(t, i, m)
    BY <1>1 DEF At
  <1> QED
    BY <1>2 DEF Init, Owners, HandlingInv

\* malloc, the posting, the receipt and the freeing of a message pass it on.
LEMMA OwnersStep ==
  ASSUME IInv, Owners, [Next]_vars
  PROVE  Owners'
  <1>0. TypeOK /\ LockInv
    BY DEF IInv
  <1>1. CASE UNCHANGED <<queue, msg, out>>
    BY <1>1 DEF Owners, At
  <1>2. ASSUME NEW p \in Threads, NEW m \in Msgs, ~Allocated(m),
               out' = [out EXCEPT ![p] = m], UNCHANGED <<queue, msg>>
        PROVE  Owners'
    <2>1. /\ \A t \in Tasks : msg[t] # m
          /\ \A q \in Threads : out[q] # m
          /\ \A t \in Tasks : \A i \in Nat : ~At(t, i, m)
      BY <1>2 DEF Allocated, InMailbox, At
    <2>2. out'[p] = m /\ \A q \in Threads \ {p} : out'[q] = out[q]
      BY <1>0, <1>2 DEF TypeOK
    <2>3. \A n, t, i : At(t, i, n)' <=> At(t, i, n)
      BY <1>2 DEF At
    <2>4. \A q, r \in Threads : out'[q] = out'[r] /\ out'[q] # NONE => q = r
      BY <2>1, <2>2 DEF Owners
    <2>5. \A t \in Tasks, q \in Threads : msg'[t] = out'[q] => msg'[t] = NONE
      BY <1>2, <2>1, <2>2 DEF Owners
    <2>6. \A n \in Msgs, t \in Tasks : \A i \in Nat : At(t, i, n)' =>
            /\ \A q \in Threads : out'[q] # n
            /\ \A u \in Tasks : msg'[u] # n
      BY <1>2, <2>1, <2>2, <2>3 DEF Owners
    <2> QED
      BY <1>2, <2>3, <2>4, <2>5, <2>6 DEF Owners
  <1>3. ASSUME NEW p \in Threads, LockAndPut(p) PROVE Owners'
    <2>1. dst[p] \in Tasks /\ out[p] \in Msgs
      BY <1>0, <1>3, Sets DEF TypeOK, LockInv, LockAndPut
    <2>2. /\ queue' = [queue EXCEPT ![dst[p]] = Append(@, out[p])]
          /\ out' = [out EXCEPT ![p] = NONE] /\ UNCHANGED msg
      BY <1>3 DEF LockAndPut
    <2>3. out'[p] = NONE /\ \A q \in Threads \ {p} : out'[q] = out[q]
      BY <1>0, <2>2 DEF TypeOK
    <2>4. \A n \in Msgs, t \in Tasks : \A i \in Nat :
            At(t, i, n)' => At(t, i, n) \/ (t = dst[p] /\ n = out[p] /\ i = Len(queue[dst[p]]) + 1)
      BY <1>0, <2>1, <2>2, AtAfterPut
    <2>5. /\ \A t \in Tasks : \A i \in Nat : ~At(t, i, out[p])
          /\ \A t \in Tasks : msg[t] # out[p]
          /\ \A q \in Threads \ {p} : out[q] # out[p]
          /\ out[p] # NONE
      BY <2>1, Sets DEF Owners
    <2>6. \A q, r \in Threads : out'[q] = out'[r] /\ out'[q] # NONE => q = r
      BY <2>3 DEF Owners
    <2>7. \A t \in Tasks, q \in Threads : msg'[t] = out'[q] => msg'[t] = NONE
      BY <2>2, <2>3 DEF Owners
    <2>8. \A n \in Msgs, t \in Tasks : \A i \in Nat : At(t, i, n)' =>
            /\ \A q \in Threads : out'[q] # n
            /\ \A u \in Tasks : msg'[u] # n
      BY <2>2, <2>3, <2>4, <2>5, Sets DEF Owners
    <2>9. \A n \in Msgs, t, u \in Tasks : \A i, j \in Nat :
            At(t, i, n)' /\ At(u, j, n)' => t = u /\ i = j
      BY <2>4, <2>5 DEF Owners
    <2> QED
      BY <2>2, <2>6, <2>7, <2>8, <2>9 DEF Owners
  <1>4. ASSUME NEW t \in Workers, TakeAndUnlock(t), queue[t] # <<>> PROVE Owners'
    <2>0. PICK h \in Msgs : h = Head(queue[t])
      BY <1>0, <1>4, Sets, QueueFacts DEF TypeOK
    <2>1. /\ t \in Tasks /\ queue' = [queue EXCEPT ![t] = Tail(@)]
          /\ msg' = [msg EXCEPT ![t] = h] /\ UNCHANGED out
      BY <1>4, <2>0, Sets DEF TakeAndUnlock, postVars
    <2>2. /\ At(t, 1, h)
          /\ \A n \in Msgs, u \in Tasks : \A i \in Nat :
               At(u, i, n)' => IF u = t THEN At(t, i + 1, n) /\ i # 0 ELSE At(u, i, n)
      BY <1>0, <1>4, <2>0, <2>1, AtAfterTake
    <2>3. msg'[t] = h /\ \A u \in Tasks \ {t} : msg'[u] = msg[u]
      BY <1>0, <2>1 DEF TypeOK
    <2>4. (\A p \in Threads : out[p] # h) /\ (\A u \in Tasks : msg[u] # h) /\ h # NONE
      BY <2>1, <2>2, Sets DEF Owners
    <2>5. \A u \in Tasks : \A i \in Nat : ~At(u, i, h)'
      <3> SUFFICES ASSUME NEW u \in Tasks, NEW i \in Nat, At(u, i, h)' PROVE FALSE
        OBVIOUS
      <3>1. CASE u = t
        <4>1. At(t, i + 1, h) /\ i # 0 /\ i + 1 \in Nat
          BY <2>2, <3>1
        <4>2. i + 1 = 1
          BY <4>1, <2>1, <2>2 DEF Owners
        <4> QED
          BY <4>1, <4>2
      <3>2. CASE u # t
        <4>1. At(u, i, h)
          BY <2>2, <3>2
        <4> QED
          BY <4>1, <2>1, <2>2, <3>2 DEF Owners
      <3> QED
        BY <3>1, <3>2
    <2>6. \A u, v \in Tasks : msg'[u] = msg'[v] /\ msg'[u] # NONE => u = v
      BY <2>3, <2>4 DEF Owners
    <2>7. \A u \in Tasks, p \in Threads : msg'[u] = out'[p] => msg'[u] = NONE
      BY <2>1, <2>3, <2>4 DEF Owners
    <2>8. \A n \in Msgs, u \in Tasks : \A i \in Nat : At(u, i, n)' =>
            /\ \A p \in Threads : out'[p] # n
            /\ \A v \in Tasks : msg'[v] # n
      BY <2>1, <2>2, <2>3, <2>5 DEF Owners
    <2>9. \A n \in Msgs, u, v \in Tasks : \A i, j \in Nat :
            At(u, i, n)' /\ At(v, j, n)' => u = v /\ i = j
      <3> SUFFICES ASSUME NEW n \in Msgs, NEW u \in Tasks, NEW v \in Tasks, NEW i \in Nat, NEW j \in Nat,
                          At(u, i, n)', At(v, j, n)'
                   PROVE  u = v /\ i = j
        OBVIOUS
      <3>1. PICK k \in {i, i + 1} : At(u, k, n) /\ k = IF u = t THEN i + 1 ELSE i
        BY <2>2
      <3>2. PICK l \in {j, j + 1} : At(v, l, n) /\ l = IF v = t THEN j + 1 ELSE j
        BY <2>2
      <3>3. u = v /\ k = l
        BY <3>1, <3>2 DEF Owners
      <3> QED
        BY <3>1, <3>2, <3>3
    <2> QED
      BY <2>1, <2>6, <2>7, <2>8, <2>9 DEF Owners
  <1>5. ASSUME NEW t \in Workers, FreeMsg(t) PROVE Owners'
    <2>1. UNCHANGED <<queue, out>> /\ msg'[t] = NONE /\ \A u \in Tasks \ {t} : msg'[u] = msg[u]
      BY <1>0, <1>5, Sets DEF FreeMsg, postVars, TypeOK
    <2>2. \A n, u, i : At(u, i, n)' <=> At(u, i, n)
      BY <2>1 DEF At
    <2> QED
      BY <2>1, <2>2, Sets DEF Owners
  <1> QED
    BY <1>1, <1>2, <1>3, <1>4, <1>5, MessagesMove

\* For any number of tasks, callback threads and messages a message has one owner: it
\* is freed once, and not used after that.
THEOREM OneOwnerTheorem == Spec => []OneOwner
  <1>1. Spec => []Owners
    BY KernelInvariant, InitOwners, OwnersStep, PTL DEF Spec
  <1>2. IInv /\ Owners => OneOwner
    BY OwnersIsOneOwner DEF IInv
  <1> QED
    BY <1>1, <1>2, KernelInvariant, PTL

\* A step of the kernel is a step of the mailboxes, or no task can see it.
LEMMA StepRefines ==
  ASSUME IInv, Owners, HandlingInv, [Next]_vars
  PROVE  [Boxes!Next]_(Boxes!mvars)
  <1> USE DEF Boxes!mvars
  <1>0. TypeOK /\ LockInv
    BY DEF IInv
  <1>1. ASSUME NEW p \in Threads, LockAndPut(p) PROVE Boxes!Next
    <2>1. dst[p] \in Tasks /\ out[p] \in Msgs /\ out[p] # NONE
      BY <1>0, <1>1, Sets DEF TypeOK, LockInv, LockAndPut
    <2>2. \A u \in Tasks : msg[u] # out[p]
      BY <2>1 DEF Owners
    <2>3. \A u \in Tasks : \A i \in DOMAIN queue[u] : queue[u][i] # out[p]
      <3>1. \A u \in Tasks : \A i \in DOMAIN queue[u] : i \in 1..Len(queue[u]) /\ i \in Nat
        BY <1>0, LenProperties DEF TypeOK
      <3> QED
        BY <2>1, <3>1 DEF Owners, At
    <2>4. Boxes!Post(dst[p], out[p])
      BY <1>1, <2>2, <2>3 DEF LockAndPut, Boxes!Post
    <2> QED
      BY <2>1, <2>4 DEF Boxes!Next
  <1>2. ASSUME NEW t \in Workers, TakeAndUnlock(t), queue[t] # <<>> PROVE Boxes!Next
    <2>1. t \in Tasks /\ msg[t] = NONE
      BY <1>2, Sets DEF HandlingInv, TakeAndUnlock
    <2>2. Boxes!Receive(t)
      BY <1>2, <2>1 DEF TakeAndUnlock, Boxes!Receive
    <2> QED
      BY <2>1, <2>2 DEF Boxes!Next
  <1>3. ASSUME NEW t \in Workers, FreeMsg(t) PROVE Boxes!Next \/ UNCHANGED <<queue, msg>>
    <2>1. t \in Tasks /\ UNCHANGED queue /\ msg' = [msg EXCEPT ![t] = NONE]
      BY <1>3, Sets DEF FreeMsg
    <2>2. CASE msg[t] # NONE
      <3>1. Boxes!Done(t)
        BY <2>1, <2>2 DEF Boxes!Done
      <3> QED
        BY <2>1, <3>1 DEF Boxes!Next
    <2>3. CASE msg[t] = NONE
      <3>1. msg' = msg
        BY <1>0, <2>1, <2>3 DEF TypeOK
      <3> QED
        BY <2>1, <3>1
    <2> QED
      BY <2>2, <2>3
  <1> QED
    BY <1>1, <1>2, <1>3, MessagesMove

\* Locks, condition variables and the start-up implement the mailboxes of Mailboxes.tla.
THEOREM KernelImplementsMailboxes == Spec => ImplementsMailboxes
  <1>1. Init => Boxes!Init
    BY DEF Init, Boxes!Init
  <1>2. Spec => [](IInv /\ Owners /\ HandlingInv)
    BY KernelInvariant, InitOwners, OwnersStep, HandlingStep, PTL DEF Spec
  <1> QED
    BY <1>1, <1>2, StepRefines, PTL DEF Spec, ImplementsMailboxes, Boxes!Spec
=============================================================================
