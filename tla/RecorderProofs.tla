--------------------------- MODULE RecorderProofs ---------------------------
(***************************************************************************)
(* What holds of the recorder for every number of captures, days and       *)
(* events.                                                                 *)
(*                                                                         *)
(* ClosureIsDue needs little more than itself.  That no more threads are   *)
(* created than the events account for needs IInv, which counts signals in *)
(* the mailbox: a mounted card leads to one ON_MOUNTED, that to one        *)
(* PREPARE and that to one pair of threads (Owed); only a removal or a     *)
(* failing mount lets the scanner see a mounted card anew (MayMount); and  *)
(* of INIT, FORMAT and a thread that formats there is one at a time        *)
(* (Turn), so that a format resets the scanner once (MayFormat).           *)
(***************************************************************************)
EXTENDS Recorder, FiniteSetTheorems, SequenceTheorems, TLAPS

\* How often a signal is in a mailbox.
N(m, s) == Cardinality({i \in 1..Len(m) : m[i] = s})

\* A count is a number, and positive when the mailbox contains the signal.
LEMMA NType ==
  ASSUME NEW m \in Seq(Sigs), NEW s
  PROVE  /\ N(m, s) \in Nat /\ IsFiniteSet({i \in 1..Len(m) : m[i] = s})
         /\ Contains(m, s) <=> N(m, s) > 0
  <1> DEFINE A == {i \in 1..Len(m) : m[i] = s}
  <1>1. IsFiniteSet(1..Len(m)) /\ A \subseteq 1..Len(m)
    BY FS_Interval, LenProperties
  <1>2. IsFiniteSet(A)
    BY <1>1, FS_Subset
  <1>3. Cardinality(A) \in Nat /\ (Cardinality(A) = 0 <=> A = {})
    BY <1>2, FS_CardinalityType, FS_EmptySet
  <1>4. Contains(m, s) <=> A # {}
    BY DEF Contains
  <1> QED
    BY <1>2, <1>3, <1>4 DEF N

\* task_post adds one of the signal and none of the others.
LEMMA AppendN ==
  ASSUME NEW m \in Seq(Sigs), NEW e \in Sigs
  PROVE  /\ Append(m, e) \in Seq(Sigs)
         /\ \A s : N(Append(m, e), s) = N(m, s) + (IF s = e THEN 1 ELSE 0)
  <1>1. /\ Append(m, e) \in Seq(Sigs) /\ Len(Append(m, e)) = Len(m) + 1
        /\ Append(m, e)[Len(m) + 1] = e
        /\ \A i \in 1..Len(m) : Append(m, e)[i] = m[i]
    BY AppendProperties
  <1>2. Len(m) \in Nat
    BY LenProperties
  <1>3. ASSUME NEW s PROVE N(Append(m, e), s) = N(m, s) + (IF s = e THEN 1 ELSE 0)
    <2> DEFINE A == {i \in 1..Len(m) : m[i] = s}
               B == {i \in 1..Len(Append(m, e)) : Append(m, e)[i] = s}
    <2>0. IsFiniteSet(A) /\ N(m, s) = Cardinality(A) /\ N(Append(m, e), s) = Cardinality(B)
      BY NType DEF N
    <2>1. Cardinality(A) \in Nat /\ Len(m) + 1 \notin A
      BY <2>0, <1>2, FS_CardinalityType
    <2>2. CASE s = e
      <3>1. B = A \cup {Len(m) + 1}
        BY <1>1, <1>2, <2>2
      <3> HIDE DEF A, B
      <3>2. Cardinality(B) = Cardinality(A) + 1
        BY <2>0, <2>1, <3>1, FS_AddElement
      <3> QED
        BY <2>0, <2>2, <3>2
    <2>3. CASE s # e
      <3>1. B = A
        BY <1>1, <1>2, <2>3
      <3> HIDE DEF A, B
      <3> QED
        BY <2>0, <2>1, <2>3, <3>1
    <2> QED
      BY <2>2, <2>3
  <1> QED
    BY <1>1, <1>3

\* Receiving takes one of the signal at the head and none of the others.
LEMMA TailN ==
  ASSUME NEW m \in Seq(Sigs), m # <<>>
  PROVE  /\ Tail(m) \in Seq(Sigs) /\ Head(m) \in Sigs
         /\ \A s : N(m, s) = N(Tail(m), s) + (IF s = Head(m) THEN 1 ELSE 0)
  <1>1. /\ Tail(m) \in Seq(Sigs) /\ Head(m) \in Sigs /\ Head(m) = m[1]
        /\ Len(Tail(m)) = Len(m) - 1
        /\ \A i \in 1..Len(Tail(m)) : Tail(m)[i] = m[i + 1]
    BY HeadTailProperties
  <1>2. Len(m) \in Nat /\ Len(m) # 0
    BY LenProperties, EmptySeq
  <1>3. ASSUME NEW s PROVE N(m, s) = N(Tail(m), s) + (IF s = Head(m) THEN 1 ELSE 0)
    <2> DEFINE A == {i \in 1..Len(m) : m[i] = s}
               B == {i \in 1..Len(Tail(m)) : Tail(m)[i] = s}
               C == {i \in 2..Len(m) : m[i] = s}
               f == [i \in B |-> i + 1]
    <2>0. N(m, s) = Cardinality(A) /\ N(Tail(m), s) = Cardinality(B)
      BY DEF N
    <2>1. IsFiniteSet(B) /\ Cardinality(B) \in Nat
      BY <1>1, NType, FS_CardinalityType DEF N
    <2>2. f \in Bijection(B, C)
      <3>1. \A i \in B : i + 1 \in C
        BY <1>1, <1>2
      <3>2. \A j \in C : j - 1 \in B /\ (j - 1) + 1 = j
        BY <1>1, <1>2
      <3>3. \A i, j \in B : i + 1 = j + 1 => i = j
        BY <1>1, <1>2
      <3> HIDE DEF B, C
      <3>4. f \in [B -> C] /\ \A i \in B : f[i] = i + 1
        BY <3>1
      <3>5. \A j \in C : \E i \in B : f[i] = j
        BY <3>2, <3>4
      <3> QED
        BY <3>3, <3>4, <3>5 DEF Bijection, Injection, Surjection, IsInjective
    <2>3. IsFiniteSet(C) /\ Cardinality(C) = Cardinality(B)
      BY <2>1, <2>2, FS_Bijection DEF ExistsBijection
    <2>4. CASE s = Head(m)
      <3>1. A = C \cup {1} /\ 1 \notin C
        BY <1>1, <1>2, <2>4
      <3> HIDE DEF A, B, C
      <3>2. Cardinality(A) = Cardinality(C) + 1
        BY <2>3, <3>1, FS_AddElement
      <3> QED
        BY <2>0, <2>1, <2>3, <2>4, <3>2
    <2>5. CASE s # Head(m)
      <3>1. A = C
        BY <1>1, <1>2, <2>5
      <3> HIDE DEF A, B, C
      <3> QED
        BY <2>0, <2>1, <2>3, <2>5, <3>1
    <2> QED
      BY <2>4, <2>5
  <1> QED
    BY <1>1, <1>3
-----------------------------------------------------------------------------
\* What a step does to the counts: it posts a signal, takes one, or does both.
Posts(e) ==
  /\ mail' \in Seq(Sigs)
  /\ \A s \in Sigs : N(mail', s) = N(mail, s) + (IF s = e THEN 1 ELSE 0)

Takes(h) ==
  /\ mail' \in Seq(Sigs)
  /\ \A s \in Sigs : N(mail, s) = N(mail', s) + (IF s = h THEN 1 ELSE 0)

Exchanges(h, e) ==
  /\ mail' \in Seq(Sigs)
  /\ \A s \in Sigs : N(mail, s) + (IF s = e THEN 1 ELSE 0)
                       = N(mail', s) + (IF s = h THEN 1 ELSE 0)

\* Where the task is in PREPARE, and the formatting thread before its ForceFormat is done.
Prepares == {"prepare_flag", "prepare_join", "prepare_close", "prepare"}
Formats == {"stop", "join_scanner", "flag", "join", "close", "format"}

-----------------------------------------------------------------------------
(* The inductive invariant *)

\* TypeOK but for the mailbox and the bound on the threads.
Types ==
  /\ disk \in BOOLEAN /\ fs \in {"none", "live", "dead"} /\ dirs \subseteq Days
  /\ mState \in {"REMOVED", "INSERTED", "MOUNTED"}
  /\ lastState \in {"REMOVED", "INSERTED", "MOUNTED"}
  /\ mContainerFolder \in Days \cup {0} /\ containerFolder \in Days \cup {0}
  /\ spc \in {"none", "scan", "report", "done"}
  /\ mPerformTestWrite \in BOOLEAN /\ polling \in BOOLEAN /\ armed \in BOOLEAN
  /\ enable \in BOOLEAN /\ open \in BOOLEAN /\ mPromiseSafeClosure \in BOOLEAN
  /\ joinable \in Captures \cup {0}
  /\ day \in Days

Mailbox ==
  /\ mail \in Seq(Sigs)
  /\ \A s \in Sigs : N(mail, s) \in Nat
  /\ N(mail, "INIT") \in Nat /\ N(mail, "FORMAT") \in Nat
  /\ N(mail, "ON_MOUNTED") \in Nat /\ N(mail, "PREPARE") \in Nat
  /\ N(mail, "CLOSE") \in Nat /\ N(mail, "START") \in Nat

\* ON_REMOVED cancels the timer only when the flag of the capture threads was reset.
Closure ==
  /\ tpc \in {"removed_join", "removed_close"} => ~enable
  /\ enable => armed \/ N(mail, "CLOSE") > 0 \/ N(mail, "START") > 0

\* INIT comes first, and then once for every format; it finds no scanner and a card
\* that is not mounted.
Turn ==
  /\ N(mail, "INIT") + N(mail, "FORMAT") + (IF fpc = "none" THEN 0 ELSE 1) <= 1
  /\ N(mail, "INIT") > 0 \/ fpc \in {"flag", "join", "close", "format", "init"} => spc = "none"
  /\ N(mail, "INIT") > 0 \/ fpc = "init" => mState # "MOUNTED"

\* The PREPAREs done and those that are on their way.
Owed ==
  prepared + N(mail, "ON_MOUNTED") + N(mail, "PREPARE") + (IF tpc \in Prepares THEN 1 ELSE 0)
\* How often the scanner may still report a mounted card without an event: a card that
\* is gone and not yet missed can be inserted again.
MayMount ==
  (IF mState = "MOUNTED" /\ lastState = "MOUNTED" THEN 0 ELSE 1)
    + (IF ~disk /\ mState = "MOUNTED" THEN 1 ELSE 0)
\* A format lets the scanner report the card once more.
MayFormat == IF N(mail, "FORMAT") > 0 \/ fpc \in Formats THEN 1 ELSE 0

\* The threads owed never outnumber the events.
Budget ==
  /\ prepared \in Nat /\ events \in 0..MaxEvents
  /\ Owed + MayMount + MayFormat <= 1 + events

IInv == Types /\ Mailbox /\ Closure /\ Turn /\ Budget

-----------------------------------------------------------------------------
LEMMA Bounds == MaxCaptures \in Nat /\ MaxEvents \in Nat /\ MaxEvents < MaxCaptures
  BY RecorderAssumption

\* The arithmetic of Budget: an event makes room for one more report, ...
LEMMA Room ==
  ASSUME NEW o \in Int, NEW m \in Int, NEW f \in Int, NEW e \in Int,
         NEW n \in Int, NEW g \in Int,
         o + m + f <= 1 + e, g >= e, n <= m \/ (n <= m + 1 /\ g = e + 1)
  PROVE  o + n + f <= 1 + g
  OBVIOUS

\* ... a report moves from what may come to what is owed, ...
LEMMA Moved ==
  ASSUME NEW o \in Int, NEW m, NEW f \in Int, NEW e \in Int, NEW n \in Int,
         o + m + f <= 1 + e, m = n + 1
  PROVE  (o + 1) + n + f <= 1 + e
  OBVIOUS

\* ... and what is owed is bounded by the events.
LEMMA Most ==
  ASSUME NEW o \in Nat, NEW m \in Nat, NEW f \in Nat, NEW e, o + m + f <= 1 + e, e \in Int
  PROVE  o <= 1 + e
  OBVIOUS

\* The first GW_RECORD_INIT is in the mailbox, and nothing else.
LEMMA InitIInv == Init => IInv
  <1> SUFFICES ASSUME Init PROVE IInv
    OBVIOUS
  <1>1. /\ mail = Append(<<>>, "INIT") /\ <<>> \in Seq(Sigs) /\ "INIT" \in Sigs
        /\ \A s : N(<<>>, s) = 0
    <2>1. \A s : {i \in 1..Len(<<>>) : <<>>[i] = s} = {}
      BY EmptySeq
    <2> QED
      BY <2>1, FS_EmptySet DEF Init, Sigs, N
  <1>2. mail \in Seq(Sigs) /\ \A s : N(mail, s) = IF s = "INIT" THEN 1 ELSE 0
    <2> DEFINE e == <<>>
    <2>1. mail = Append(e, "INIT") /\ e \in Seq(Sigs) /\ \A s : N(e, s) = 0
      BY <1>1
    <2> HIDE DEF e
    <2> QED
      BY <2>1, <1>1, AppendN
  <1>3. Types
    <2>1. /\ disk \in BOOLEAN /\ mPerformTestWrite \in BOOLEAN /\ polling \in BOOLEAN
          /\ armed \in BOOLEAN /\ enable \in BOOLEAN /\ open \in BOOLEAN
          /\ mPromiseSafeClosure \in BOOLEAN
      BY Zenon DEF Init
    <2>2. 1 \in Days
      BY RecorderAssumption DEF Days
    <2> QED
      BY <2>1, <2>2 DEF Init, Types
  <1>4. Budget
    BY <1>2, Bounds DEF Init, Budget, Owed, MayMount, MayFormat, Prepares, Formats
  <1> QED
    BY <1>2, <1>3, <1>4 DEF Init, IInv, Mailbox, Closure, Turn

\* What task_post and the receipt of a signal do to the counts.
LEMMA PostsSig ==
  ASSUME IInv, NEW e \in Sigs, mail' = Append(mail, e)
  PROVE  Posts(e)
  BY AppendN DEF Posts, IInv, Mailbox

LEMMA TakesSig ==
  ASSUME IInv, NEW h, Received(h), mail' = Tail(mail)
  PROVE  h \in Sigs /\ Takes(h)
  BY TailN DEF Takes, IInv, Mailbox, Received

LEMMA ExchangesSig ==
  ASSUME IInv, NEW h, Received(h), NEW e \in Sigs, mail' = Append(Tail(mail), e)
  PROVE  h \in Sigs /\ Exchanges(h, e)
  <1>1. mail \in Seq(Sigs) /\ mail # <<>> /\ Head(mail) = h
    BY DEF IInv, Mailbox, Received
  <1>2. /\ Tail(mail) \in Seq(Sigs) /\ h \in Sigs
        /\ \A s : N(mail, s) = N(Tail(mail), s) + (IF s = h THEN 1 ELSE 0)
    BY <1>1, TailN
  <1>3. /\ mail' \in Seq(Sigs)
        /\ \A s : N(mail', s) = N(Tail(mail), s) + (IF s = e THEN 1 ELSE 0)
    BY <1>2, AppendN
  <1>4. \A s : N(mail, s) \in Nat /\ N(Tail(mail), s) \in Nat /\ N(mail', s) \in Nat
    BY <1>1, <1>2, <1>3, NType
  <1> QED
    BY <1>2, <1>3, <1>4 DEF Exchanges

LEMMA MailboxKept ==
  ASSUME mail' \in Seq(Sigs) PROVE Mailbox'
  BY NType DEF Mailbox

\* close() leaves all the signals in the mailbox that the invariant counts.
LEMMA CloseIs ==
  ASSUME IInv, NEW done \in BOOLEAN, Close(done)
  PROVE  /\ mail' \in Seq(Sigs) /\ open' \in BOOLEAN
         /\ UNCHANGED mPromiseSafeClosure
         /\ \A s \in Sigs \ {"UPDATE_INDEX"} : N(mail', s) = N(mail, s)
  <1>0. open' \in BOOLEAN /\ UNCHANGED mPromiseSafeClosure
    BY Zenon DEF Close
  <1>1. CASE mail' = mail
    BY <1>0, <1>1 DEF IInv, Mailbox
  <1>2. CASE mail' = Append(mail, "UPDATE_INDEX")
    <2>1. Posts("UPDATE_INDEX")
      BY <1>2, PostsSig DEF Sigs
    <2> QED
      BY <1>0, <2>1 DEF Posts, IInv, Mailbox
  <1> QED
    BY <1>1, <1>2 DEF Close

\* The sums of Budget are numbers, and the PREPAREs done are among those owed.
LEMMA Sums ==
  ASSUME IInv
  PROVE  /\ Owed \in Nat /\ MayMount \in Nat /\ MayFormat \in Nat
         /\ prepared \in Nat /\ events \in 0..MaxEvents
         /\ prepared <= Owed /\ (tpc \in Prepares => prepared + 1 <= Owed)
         /\ Owed + MayMount + MayFormat <= 1 + events
         /\ prepared <= 1 + events
  <1> DEFINE p == N(mail, "ON_MOUNTED")
             q == N(mail, "PREPARE")
             r == IF tpc \in Prepares THEN 1 ELSE 0
  <1>1. p \in Nat /\ q \in Nat /\ prepared \in Nat /\ events \in 0..MaxEvents
        /\ events \in Nat /\ events \in Int
    BY Bounds DEF IInv, Mailbox, Budget
  <1>2. r \in Nat /\ (tpc \in Prepares => r = 1)
    OBVIOUS
  <1>3. Owed = ((prepared + p) + q) + r
    BY DEF Owed
  <1> HIDE DEF p, q, r
  <1>4. Owed \in Nat /\ prepared <= Owed /\ (tpc \in Prepares => prepared + 1 <= Owed)
    BY <1>1, <1>2, <1>3
  <1>5. MayMount \in Nat /\ MayFormat \in Nat
    BY DEF MayMount, MayFormat
  <1>6. Owed + MayMount + MayFormat <= 1 + events
    BY DEF IInv, Budget
  <1>7. Owed <= 1 + events
    BY <1>1, <1>4, <1>5, <1>6, Most, Zenon
  <1>8. prepared <= 1 + events
    BY <1>1, <1>4, <1>7
  <1> QED
    BY <1>1, <1>4, <1>5, <1>6, <1>8

\* An event pays for one more report of a mounted card.
LEMMA EventPays ==
  ASSUME IInv, prepared' = prepared, events' = events + 1, events < MaxEvents,
         Owed' = Owed, MayFormat' = MayFormat, MayMount' \in Nat, MayMount' <= MayMount + 1
  PROVE  Budget'
  <1>1. /\ Owed \in Int /\ MayMount \in Int /\ MayFormat \in Int /\ MayMount' \in Int
        /\ prepared \in Nat /\ events \in Int /\ events' \in Int /\ events' >= events
        /\ events' \in 0..MaxEvents /\ Owed + MayMount + MayFormat <= 1 + events
    BY Sums, Bounds
  <1>2. Owed + MayMount' + MayFormat <= 1 + events'
    BY <1>1, Room, Zenon
  <1> QED
    BY <1>1, <1>2 DEF Budget

\* A step that touches neither a count nor what Closure and Turn speak of.
LEMMA QuietStep ==
  ASSUME IInv, Types',
         UNCHANGED <<disk, mState, lastState, spc, mail, tpc, armed, enable, fpc, prepared, events>>
  PROVE  IInv'
  BY DEF IInv, Mailbox, Closure, Turn, Budget, Owed, MayMount, MayFormat

-----------------------------------------------------------------------------
(* Each part of Next keeps the invariant. *)

\* Removing the card and asking for a format are events and pay for their reports.
LEMMA WorldStep == ASSUME IInv, World PROVE IInv'
  <1> USE DEF card, sdcard, scanner, task, capture, writer, env
  <1>1. CASE InsertCard
    <2>1. Types'
      BY <1>1 DEF InsertCard, IInv, Types
    <2> QED
      BY <1>1, <2>1 DEF InsertCard, IInv, Mailbox, Closure, Turn, Budget, Owed, MayMount, MayFormat
  <1>2. CASE RemoveCard
    <2>0. disk' \in BOOLEAN /\ fs' \in {"none", "live", "dead"}
      BY <1>2, Zenon DEF RemoveCard, IInv, Types
    <2>1. Types'
      BY <1>2, <2>0 DEF RemoveCard, IInv, Types
    <2>2. /\ UNCHANGED <<prepared, mail, tpc, fpc, mState, lastState>>
          /\ events' = events + 1 /\ events < MaxEvents
      BY <1>2 DEF RemoveCard
    <2>3. Budget'
      <3>1. Owed' = Owed /\ MayFormat' = MayFormat
        BY <2>2 DEF Owed, MayFormat
      <3>2. MayMount' \in Nat /\ MayMount' <= MayMount + 1
        BY <2>2 DEF MayMount
      <3> QED
        BY <2>2, <3>1, <3>2, EventPays
    <2> QED
      BY <1>2, <2>1, <2>3 DEF RemoveCard, IInv, Mailbox, Closure, Turn
  <1>3. CASE Midnight
    <2>1. Types'
      BY <1>3 DEF Midnight, IInv, Types
    <2>2. Budget'
      <3>1. /\ UNCHANGED <<prepared, mail, tpc, fpc, mState, lastState, disk>>
            /\ events' = events + 1 /\ events < MaxEvents
        BY <1>3 DEF Midnight
      <3>2. Owed' = Owed /\ MayFormat' = MayFormat /\ MayMount' = MayMount
        BY <3>1 DEF Owed, MayFormat, MayMount
      <3> QED
        BY <3>1, <3>2, Sums, EventPays
    <2> QED
      BY <1>3, <2>1, <2>2 DEF Midnight, IInv, Mailbox, Closure, Turn
  <1>4. CASE RequestFormat
    <2>1. Types'
      BY <1>4 DEF RequestFormat, IInv, Types
    <2>2. Posts("FORMAT") /\ N(mail, "FORMAT") = 0 /\ N(mail, "INIT") = 0 /\ fpc = "none"
      <3>1. Posts("FORMAT")
        BY <1>4, PostsSig DEF RequestFormat, Sigs
      <3>2. N(mail, "FORMAT") = 0
        <4>1. ~Contains(mail, "FORMAT") /\ mail \in Seq(Sigs)
          BY <1>4 DEF RequestFormat, IInv, Mailbox
        <4>2. ~(N(mail, "FORMAT") > 0)
          BY <4>1, NType
        <4>3. N(mail, "FORMAT") \in Nat
          BY DEF IInv, Mailbox
        <4> QED
          BY <4>2, <4>3
      <3>3. N(mail, "INIT") = 0
        BY <1>4 DEF RequestFormat, IInv, Mailbox, Turn, Sigs
      <3> QED
        BY <1>4, <3>1, <3>2, <3>3 DEF RequestFormat
    <2>3. /\ N(mail', "FORMAT") = 1 /\ N(mail', "INIT") = 0
          /\ N(mail', "ON_MOUNTED") = N(mail, "ON_MOUNTED")
          /\ N(mail', "PREPARE") = N(mail, "PREPARE")
          /\ N(mail', "CLOSE") = N(mail, "CLOSE") /\ N(mail', "START") = N(mail, "START")
      BY <2>2 DEF Posts, Sigs, IInv, Mailbox
    <2>4. Mailbox'
      BY <2>2, MailboxKept DEF Posts
    <2>5. Budget'
      BY <1>4, <2>2, <2>3, Bounds
        DEF RequestFormat, IInv, Budget, Owed, MayMount, MayFormat, Formats, Mailbox
    <2>6. Turn'
      BY <1>4, <2>2, <2>3 DEF RequestFormat, IInv, Turn
    <2>7. Closure'
      BY <1>4, <2>3 DEF RequestFormat, IInv, Closure
    <2> QED
      BY <2>1, <2>4, <2>5, <2>6, <2>7 DEF IInv
  <1> QED
    BY <1>1, <1>2, <1>3, <1>4 DEF World

\* A failing mount is an event; Report turns the right to report into an ON_MOUNTED.
LEMMA ScannerStep == ASSUME IInv, Scanner PROVE IInv'
  <1> USE DEF card, sdcard, scanner, task, capture, writer, env
  <1>1. ASSUME NEW mounts \in BOOLEAN, NEW healthy \in BOOLEAN, Scan(mounts, healthy)
        PROVE  IInv'
    <2>1. /\ mState' \in {"REMOVED", "INSERTED", "MOUNTED"}
          /\ mPerformTestWrite' \in BOOLEAN /\ fs' \in {"none", "live", "dead"}
          /\ ~disk => mState' = "REMOVED" /\ events' = events
          /\ mState' # "MOUNTED" /\ disk => events' = events + 1 /\ events < MaxEvents
          /\ events' = events \/ (events' = events + 1 /\ events < MaxEvents)
      <3>1. fs \in {"none", "live", "dead"} /\ mPerformTestWrite \in BOOLEAN
        BY DEF IInv, Types
      <3>2. CASE ~disk
        <4>1. /\ mState' = "REMOVED" /\ fs' = fs /\ events' = events
              /\ mPerformTestWrite' = (mState # "REMOVED" \/ mPerformTestWrite)
          BY <1>1, <3>2 DEF Scan
        <4>2. mPerformTestWrite' \in BOOLEAN
          BY <4>1, Zenon
        <4> QED
          BY <3>1, <3>2, <4>1, <4>2
      <3>3. CASE disk /\ ~(mounts /\ healthy)
        <4>1. fs = "none" /\ events' = events + 1 /\ events < MaxEvents
          BY <1>1, <3>3 DEF Scan
        <4>2. /\ mState' \in {"REMOVED", "INSERTED", "MOUNTED"} /\ fs' \in {"none", "live"}
              /\ mPerformTestWrite' = mPerformTestWrite \/ mPerformTestWrite' = FALSE
          BY <1>1, <3>3, <4>1 DEF Scan
        <4>3. mPerformTestWrite' \in BOOLEAN
          BY <3>1, <4>2, Zenon
        <4> QED
          BY <3>3, <4>1, <4>2, <4>3
      <3>4. CASE disk /\ mounts /\ healthy
        <4>1. /\ mState' = "MOUNTED" /\ fs' \in {fs, "live"} /\ events' = events
              /\ mPerformTestWrite' = mPerformTestWrite \/ mPerformTestWrite' = FALSE
          BY <1>1, <3>1, <3>4 DEF Scan
        <4>2. mPerformTestWrite' \in BOOLEAN
          BY <3>1, <4>1, Zenon
        <4> QED
          BY <3>1, <3>4, <4>1, <4>2
      <3> QED
        BY <3>2, <3>3, <3>4
    <2>2. /\ spc = "scan" /\ spc' = "report"
          /\ UNCHANGED <<disk, dirs, mContainerFolder, polling, lastState, task, capture, fpc,
                         writer, day>>
      BY <1>1 DEF Scan
    <2>3. Types'
      BY <2>1, <2>2 DEF IInv, Types
    <2>4. Turn'
      BY <2>2 DEF IInv, Turn, Mailbox, Sigs
    <2>5. Budget'
      <3>1. /\ Owed + MayMount + MayFormat <= 1 + events /\ prepared \in Nat
            /\ Owed \in Nat /\ MayFormat \in Nat /\ MayMount \in Nat
            /\ events \in 0..MaxEvents
        BY Sums
      <3>2. Owed' = Owed /\ MayFormat' = MayFormat
        BY <2>2 DEF Owed, MayFormat
      <3>3. /\ MayMount' \in Nat
            /\ \/ MayMount' <= MayMount
               \/ MayMount' <= MayMount + 1 /\ events' = events + 1
        BY <2>1, <2>2 DEF MayMount, IInv, Types
      <3>4. events' \in 0..MaxEvents /\ events' >= events /\ events' \in Nat
        BY <2>1, <3>1, Bounds
      <3>5. Owed' + MayMount' + MayFormat' <= 1 + events'
        <4>1. /\ Owed \in Int /\ MayFormat \in Int /\ MayMount \in Int /\ events \in Int
              /\ MayMount' \in Int /\ events' \in Int
              /\ Owed + MayMount + MayFormat <= 1 + events
          BY <3>1, <3>3, <3>4
        <4>2. Owed + MayMount' + MayFormat <= 1 + events'
          BY <3>3, <3>4, <4>1, Room, Zenon
        <4> QED
          BY <3>2, <4>2
      <3> QED
        BY <2>2, <3>1, <3>4, <3>5 DEF Budget
    <2> QED
      BY <2>2, <2>3, <2>4, <2>5 DEF IInv, Mailbox, Closure
  <1>2. CASE Report
    <2>1. spc = "report" /\ spc' = "scan" /\ lastState' = mState
          /\ UNCHANGED <<card, sdcard, tpc, containerFolder, armed, capture, fpc, writer, env>>
      BY <1>2 DEF Report
    <2>2. Types'
      BY <2>1 DEF IInv, Types
    <2>3. CASE mail' = mail /\ ~(mState = "MOUNTED" /\ mState # lastState)
      <3>1. Budget'
        BY <2>1, <2>3 DEF IInv, Budget, Owed, MayMount, MayFormat
      <3> QED
        BY <2>1, <2>2, <2>3, <3>1 DEF IInv, Mailbox, Closure, Turn
    <2>4. CASE mail' = Append(mail, "ON_REMOVED") /\ mState = "REMOVED"
      <3>1. Posts("ON_REMOVED")
        BY <2>4, PostsSig DEF Sigs
      <3>2. \A s \in Sigs \ {"ON_REMOVED"} : N(mail', s) = N(mail, s)
        BY <3>1 DEF Posts, IInv, Mailbox
      <3>3. Mailbox'
        BY <3>1, MailboxKept DEF Posts
      <3>4. Budget'
        BY <2>1, <2>4, <3>2 DEF IInv, Budget, Owed, MayMount, MayFormat, Sigs
      <3>5. Turn' /\ Closure'
        BY <2>1, <2>4, <3>2 DEF IInv, Turn, Closure, Sigs
      <3> QED
        BY <2>2, <3>3, <3>4, <3>5 DEF IInv
    <2>5. CASE mail' = Append(mail, "ON_MOUNTED") /\ mState = "MOUNTED" /\ mState # lastState
      <3>1. Posts("ON_MOUNTED")
        BY <2>5, PostsSig DEF Sigs
      <3>2. /\ \A s \in Sigs \ {"ON_MOUNTED"} : N(mail', s) = N(mail, s)
            /\ N(mail', "ON_MOUNTED") = N(mail, "ON_MOUNTED") + 1
        BY <3>1 DEF Posts, IInv, Mailbox, Sigs
      <3>3. Mailbox'
        BY <3>1, MailboxKept DEF Posts
      <3>4. Budget'
        <4>1. /\ Owed + MayMount + MayFormat <= 1 + events /\ prepared \in Nat
              /\ events \in 0..MaxEvents /\ events \in Int
              /\ Owed \in Int /\ MayFormat \in Int /\ MayMount' \in Int
          <5>1. MayMount' \in Int
            BY DEF MayMount
          <5> QED
            BY <5>1, Sums, Bounds
        <4>2. Owed' = Owed + 1
          BY <2>1, <3>2 DEF Owed, IInv, Mailbox, Budget, Sigs
        <4>3. MayMount = MayMount' + 1
          BY <2>1, <2>5 DEF MayMount
        <4>4. MayFormat' = MayFormat
          BY <2>1, <3>2 DEF MayFormat, Sigs
        <4>5. (Owed + 1) + MayMount' + MayFormat <= 1 + events
          BY <4>1, <4>3, Moved, Zenon
        <4> QED
          BY <2>1, <4>1, <4>2, <4>4, <4>5 DEF Budget
      <3>5. Turn' /\ Closure'
        BY <2>1, <2>5, <3>2 DEF IInv, Turn, Closure, Sigs
      <3> QED
        BY <2>2, <3>3, <3>4, <3>5 DEF IInv
    <2>6. \/ mail' = mail /\ ~(mState = "MOUNTED" /\ mState # lastState)
          \/ mail' = Append(mail, "ON_REMOVED") /\ mState = "REMOVED"
          \/ mail' = Append(mail, "ON_MOUNTED") /\ mState = "MOUNTED" /\ mState # lastState
      <3>1. mail \o <<>> = mail
        BY DEF IInv, Mailbox
      <3>2. \A e : mail \o <<e>> = Append(mail, e)
        BY DEF IInv, Mailbox
      <3> QED
        BY <1>2, <3>1, <3>2 DEF Report, StatusSig, IInv, Types
    <2> QED
      BY <2>3, <2>4, <2>5, <2>6
  <1>3. CASE EraseOldestFolder
    <2>1. Types'
      BY <1>3 DEF EraseOldestFolder, IInv, Types
    <2>2. Budget'
      BY <1>3, Bounds DEF EraseOldestFolder, IInv, Budget, Owed, MayMount, MayFormat, Mailbox
    <2> QED
      BY <1>3, <2>1, <2>2 DEF EraseOldestFolder, IInv, Mailbox, Closure, Turn
  <1>4. CASE ScannerEnds
    <2>1. Types'
      BY <1>4 DEF ScannerEnds, IInv, Types
    <2>2. Turn'
      BY <1>4 DEF ScannerEnds, IInv, Turn
    <2> QED
      BY <1>4, <2>1, <2>2 DEF ScannerEnds, IInv, Mailbox, Closure, Budget, Owed, MayMount, MayFormat
  <1> QED
    BY <1>1, <1>2, <1>3, <1>4 DEF Scanner

\* begin() keeps the types, whether a file is open or not.
LEMMA BeginIs ==
  ASSUME IInv, NEW ok \in BOOLEAN, Begin(ok)
  PROVE  /\ open' \in BOOLEAN /\ mPromiseSafeClosure' \in BOOLEAN
  <1>1. CASE open
    BY <1>1 DEF Begin, IInv, Types, writer
  <1>2. CASE ~open
    <2>1. open' = ok /\ mPromiseSafeClosure' = FALSE
      BY <1>2 DEF Begin
    <2>2. open' \in BOOLEAN /\ mPromiseSafeClosure' \in BOOLEAN
      BY <2>1, Zenon
    <2> QED
      BY <1>2, <2>1, <2>2 DEF IInv, Types
  <1> QED
    BY <1>1, <1>2

\* The capture threads touch the writer and post UPDATE_INDEX, which nothing counts.
LEMMA CaptureStep ==
  ASSUME IInv, NEW k \in Captures, Video(k) \/ AudioEnds(k)
  PROVE  IInv'
  <1> USE DEF card, sdcard, scanner, task, capture, writer, env
  <1>1. CASE VideoEnds(k) \/ VideoFrame(k) \/ VideoPromise(k) \/ VideoCheck(k) \/ AudioEnds(k)
    <2>1. UNCHANGED <<card, sdcard, scanner, task, enable, joinable, prepared, fpc, writer, env>>
      BY <1>1 DEF VideoEnds, VideoFrame, VideoPromise, VideoCheck, AudioEnds
    <2>2. Types'
      BY <2>1 DEF IInv, Types
    <2> QED
      BY <2>1, <2>2, QuietStep
  <1>2. CASE VideoClose(k)
    <2>1. PICK done \in BOOLEAN : Close(done)
      BY <1>2 DEF VideoClose
    <2>2. /\ mail' \in Seq(Sigs) /\ open' \in BOOLEAN
          /\ UNCHANGED mPromiseSafeClosure
          /\ \A s \in Sigs \ {"UPDATE_INDEX"} : N(mail', s) = N(mail, s)
      BY <2>1, CloseIs
    <2>3. UNCHANGED <<card, sdcard, scanner, tpc, containerFolder, armed, enable, joinable,
                      prepared, fpc, env>>
      BY <1>2 DEF VideoClose
    <2>4. Types' /\ Mailbox'
      BY <2>2, <2>3, MailboxKept DEF IInv, Types
    <2>5. Closure'
      BY <2>2, <2>3 DEF IInv, Closure, Sigs
    <2>6. Turn'
      BY <2>2, <2>3 DEF IInv, Turn, Sigs
    <2>7. Budget'
      BY <2>2, <2>3 DEF IInv, Budget, Owed, MayMount, MayFormat, Sigs
    <2> QED
      BY <2>4, <2>5, <2>6, <2>7 DEF IInv
  <1>3. CASE VideoBegin(k)
    <2>1. PICK ok \in BOOLEAN : Begin(ok)
      BY <1>3 DEF VideoBegin
    <2>2. open' \in BOOLEAN /\ mPromiseSafeClosure' \in BOOLEAN
      BY <2>1, BeginIs
    <2>3. UNCHANGED <<card, sdcard, scanner, task, enable, joinable, prepared, fpc, env>>
      BY <1>3 DEF VideoBegin
    <2>4. Types'
      BY <2>2, <2>3 DEF IInv, Types
    <2> QED
      BY <2>3, <2>4, QuietStep
  <1> QED
    BY <1>1, <1>2, <1>3 DEF Video

\* A handler that posts nothing, one that posts a signal, and a step that only posts.
LEMMA Taken ==
  ASSUME IInv, NEW h, Received(h), mail' = Tail(mail)
  PROVE  /\ Mailbox' /\ tpc = "idle" /\ h \in Sigs
         /\ \A s \in Sigs \ {h} : N(mail', s) = N(mail, s)
         /\ N(mail', h) = N(mail, h) - 1 /\ N(mail, h) > 0
  <1>1. h \in Sigs /\ Takes(h)
    BY TakesSig
  <1>2. Mailbox'
    BY <1>1, MailboxKept DEF Takes
  <1>3. \A s \in Sigs : N(mail, s) \in Nat /\ N(mail', s) \in Nat
    BY <1>2 DEF IInv, Mailbox
  <1> QED
    BY <1>1, <1>2, <1>3 DEF Takes, Received

LEMMA Exchanged ==
  ASSUME IInv, NEW h, Received(h), NEW e \in Sigs \ {h}, mail' = Append(Tail(mail), e)
  PROVE  /\ Mailbox' /\ tpc = "idle" /\ h \in Sigs
         /\ \A s \in Sigs \ {h, e} : N(mail', s) = N(mail, s)
         /\ N(mail', h) = N(mail, h) - 1 /\ N(mail, h) > 0
         /\ N(mail', e) = N(mail, e) + 1
  <1>1. h \in Sigs /\ Exchanges(h, e)
    BY ExchangesSig
  <1>2. Mailbox'
    BY <1>1, MailboxKept DEF Exchanges
  <1>3. \A s \in Sigs : N(mail, s) \in Nat /\ N(mail', s) \in Nat
    BY <1>2 DEF IInv, Mailbox
  <1> QED
    BY <1>1, <1>2, <1>3 DEF Exchanges, Received

LEMMA Posted ==
  ASSUME IInv, NEW e \in Sigs, mail' = Append(mail, e)
  PROVE  /\ Mailbox'
         /\ \A s \in Sigs \ {e} : N(mail', s) = N(mail, s)
         /\ N(mail', e) = N(mail, e) + 1
  <1>1. Posts(e)
    BY PostsSig
  <1>2. Mailbox'
    BY <1>1, MailboxKept DEF Posts
  <1> QED
    BY <1>1, <1>2 DEF Posts, IInv, Mailbox

\* The handlers of the task: ON_MOUNTED becomes PREPARE, CLOSE becomes START.
LEMMA HandlerStep ==
  ASSUME IInv,
         \/ HandleInit \/ HandleOnMounted \/ HandleOnRemoved \/ HandlePrepare \/ HandleStart
         \/ HandleClose \/ HandleUpdateIndex \/ HandleFormat
  PROVE  IInv'
  <1> USE DEF card, sdcard, scanner, task, capture, writer, env
  <1>1. CASE HandleInit
    <2>1. /\ Mailbox' /\ tpc = "idle"
          /\ \A s \in Sigs \ {"INIT"} : N(mail', s) = N(mail, s)
          /\ N(mail', "INIT") = N(mail, "INIT") - 1 /\ N(mail, "INIT") > 0
      BY <1>1, Taken DEF HandleInit
    <2>2. /\ N(mail, "INIT") = 1 /\ N(mail, "FORMAT") = 0 /\ fpc = "none" /\ spc = "none"
          /\ mState # "MOUNTED"
      BY <2>1 DEF IInv, Turn, Mailbox
    <2>3. /\ mPerformTestWrite' \in BOOLEAN /\ polling' \in BOOLEAN
          /\ mState' = "REMOVED" /\ lastState' = "REMOVED" /\ spc' = "scan"
          /\ UNCHANGED <<card, mContainerFolder, tpc, containerFolder, armed, capture, fpc,
                         writer, env>>
      <3>1. mPerformTestWrite' = TRUE /\ polling' = TRUE
        BY <1>1 DEF HandleInit
      <3> QED
        BY <1>1, <2>2, <3>1 DEF HandleInit
    <2>4. Types'
      BY <2>3 DEF IInv, Types
    <2>5. Turn'
      BY <2>1, <2>2, <2>3 DEF Turn, Sigs
    <2>6. Closure'
      BY <2>1, <2>3 DEF IInv, Closure, Sigs
    <2>7. Budget'
      BY <2>1, <2>2, <2>3 DEF IInv, Budget, Owed, MayMount, MayFormat, Sigs
    <2> QED
      BY <2>1, <2>4, <2>5, <2>6, <2>7 DEF IInv
  <1>2. CASE HandleOnMounted
    <2>1. /\ Mailbox' /\ tpc = "idle"
          /\ \A s \in Sigs \ {"ON_MOUNTED", "PREPARE"} : N(mail', s) = N(mail, s)
          /\ N(mail', "ON_MOUNTED") = N(mail, "ON_MOUNTED") - 1
          /\ N(mail', "PREPARE") = N(mail, "PREPARE") + 1
      BY <1>2, Exchanged DEF HandleOnMounted, Sigs
    <2>2. UNCHANGED <<card, sdcard, scanner, tpc, containerFolder, armed, capture, fpc, writer, env>>
      BY <1>2 DEF HandleOnMounted
    <2>3. Types'
      BY <2>2 DEF IInv, Types
    <2>4. Turn' /\ Closure'
      BY <2>1, <2>2 DEF IInv, Turn, Closure, Sigs
    <2>5. Budget'
      <3>1. Owed' = Owed
        <4> DEFINE p == N(mail, "ON_MOUNTED")
                   q == N(mail, "PREPARE")
                   r == IF tpc \in Prepares THEN 1 ELSE 0
        <4>1. /\ p \in Nat /\ q \in Nat /\ r \in Nat /\ prepared \in Nat
              /\ Owed = ((prepared + p) + q) + r
          BY DEF IInv, Mailbox, Budget, Owed
        <4>2. Owed' = ((prepared + (p - 1)) + (q + 1)) + r
          BY <2>1, <2>2 DEF Owed
        <4> HIDE DEF p, q, r
        <4> QED
          BY <4>1, <4>2
      <3> QED
        BY <2>1, <2>2, <3>1 DEF IInv, Budget, MayMount, MayFormat, Sigs
    <2> QED
      BY <2>1, <2>3, <2>4, <2>5 DEF IInv
  <1>3. CASE HandleOnRemoved
    <2>1. /\ Mailbox' /\ tpc = "idle"
          /\ \A s \in Sigs \ {"ON_REMOVED"} : N(mail', s) = N(mail, s)
      BY <1>3, Taken DEF HandleOnRemoved
    <2>2. /\ fs' = "none" /\ tpc' = "removed_flag"
          /\ UNCHANGED <<disk, dirs, sdcard, scanner, containerFolder, armed, capture, fpc,
                         writer, env>>
      BY <1>3 DEF HandleOnRemoved
    <2>3. Types'
      BY <2>2 DEF IInv, Types
    <2>4. Turn' /\ Closure'
      BY <2>1, <2>2 DEF IInv, Turn, Closure, Sigs
    <2>5. Budget'
      <3>1. Owed' = Owed
        BY <2>1, <2>2 DEF Owed, Prepares, Sigs
      <3> QED
        BY <2>1, <2>2, <3>1 DEF IInv, Budget, MayMount, MayFormat, Sigs
    <2> QED
      BY <2>1, <2>3, <2>4, <2>5 DEF IInv
  <1>4. CASE HandlePrepare
    <2>1. /\ Mailbox' /\ tpc = "idle"
          /\ \A s \in Sigs \ {"PREPARE"} : N(mail', s) = N(mail, s)
          /\ N(mail', "PREPARE") = N(mail, "PREPARE") - 1
      BY <1>4, Taken DEF HandlePrepare
    <2>2. /\ tpc' = "prepare_flag"
          /\ UNCHANGED <<card, sdcard, scanner, containerFolder, armed, capture, fpc, writer, env>>
      BY <1>4 DEF HandlePrepare
    <2>3. Types'
      BY <2>2 DEF IInv, Types
    <2>4. Turn' /\ Closure'
      BY <2>1, <2>2 DEF IInv, Turn, Closure, Sigs
    <2>5. Budget'
      <3>1. Owed' = Owed
        BY <2>1, <2>2 DEF Owed, Prepares, Sigs, IInv, Mailbox, Budget
      <3> QED
        BY <2>1, <2>2, <3>1 DEF IInv, Budget, MayMount, MayFormat, Sigs
    <2> QED
      BY <2>1, <2>3, <2>4, <2>5 DEF IInv
  <1>5. CASE HandleStart
    <2>1. /\ Mailbox' /\ tpc = "idle"
          /\ \A s \in Sigs \ {"START"} : N(mail', s) = N(mail, s)
      BY <1>5, Taken DEF HandleStart
    <2>2. /\ dirs' \subseteq Days /\ mContainerFolder' \in Days \cup {0}
          /\ containerFolder' \in Days \cup {0}
      BY <1>5 DEF HandleStart, IInv, Types
    <2>3. /\ armed' = TRUE
          /\ UNCHANGED <<disk, fs, mState, mPerformTestWrite, polling, scanner, tpc, capture, fpc,
                         writer, env>>
      BY <1>5 DEF HandleStart
    <2>4. Types'
      BY <2>2, <2>3 DEF IInv, Types
    <2>5. Turn' /\ Closure'
      BY <2>1, <2>3 DEF IInv, Turn, Closure, Sigs
    <2>6. Budget'
      BY <2>1, <2>3 DEF IInv, Budget, Owed, MayMount, MayFormat, Sigs
    <2> QED
      BY <2>1, <2>4, <2>5, <2>6 DEF IInv
  <1>6. CASE HandleClose
    <2>1. /\ Mailbox' /\ tpc = "idle"
          /\ \A s \in Sigs \ {"CLOSE", "START"} : N(mail', s) = N(mail, s)
          /\ N(mail', "START") = N(mail, "START") + 1
      BY <1>6, Exchanged DEF HandleClose, Sigs
    <2>2. /\ mPromiseSafeClosure' = TRUE
          /\ UNCHANGED <<card, sdcard, scanner, tpc, containerFolder, armed, capture, fpc, open, env>>
      BY <1>6 DEF HandleClose
    <2>3. Types'
      BY <2>2 DEF IInv, Types
    <2>4. Turn'
      BY <2>1, <2>2 DEF IInv, Turn, Sigs
    <2>5. Closure'
      BY <2>1, <2>2 DEF IInv, Closure, Mailbox
    <2>6. Budget'
      BY <2>1, <2>2 DEF IInv, Budget, Owed, MayMount, MayFormat, Sigs
    <2> QED
      BY <2>1, <2>3, <2>4, <2>5, <2>6 DEF IInv
  <1>7. CASE HandleUpdateIndex
    <2>1. /\ Mailbox' /\ tpc = "idle"
          /\ \A s \in Sigs \ {"UPDATE_INDEX"} : N(mail', s) = N(mail, s)
      BY <1>7, Taken DEF HandleUpdateIndex
    <2>2. UNCHANGED <<card, sdcard, scanner, tpc, containerFolder, armed, capture, fpc, writer, env>>
      BY <1>7 DEF HandleUpdateIndex
    <2>3. Types'
      BY <2>2 DEF IInv, Types
    <2>4. Turn' /\ Closure'
      BY <2>1, <2>2 DEF IInv, Turn, Closure, Sigs
    <2>5. Budget'
      BY <2>1, <2>2 DEF IInv, Budget, Owed, MayMount, MayFormat, Sigs
    <2> QED
      BY <2>1, <2>3, <2>4, <2>5 DEF IInv
  <1>8. CASE HandleFormat
    <2>1. /\ Mailbox' /\ tpc = "idle"
          /\ \A s \in Sigs \ {"FORMAT"} : N(mail', s) = N(mail, s)
          /\ N(mail', "FORMAT") = N(mail, "FORMAT") - 1 /\ N(mail, "FORMAT") > 0
      BY <1>8, Taken DEF HandleFormat
    <2>2. /\ fpc' = "stop"
          /\ UNCHANGED <<card, sdcard, scanner, tpc, containerFolder, armed, capture, writer, env>>
      BY <1>8 DEF HandleFormat
    <2>3. N(mail, "FORMAT") = 1 /\ N(mail, "INIT") = 0 /\ fpc = "none"
      BY <2>1 DEF IInv, Turn, Mailbox
    <2>4. Types'
      BY <2>2 DEF IInv, Types
    <2>5. Turn'
      BY <2>1, <2>2, <2>3 DEF Turn, Sigs
    <2>6. Closure'
      BY <2>1, <2>2 DEF IInv, Closure, Sigs
    <2>7. Budget'
      BY <2>1, <2>2, <2>3 DEF IInv, Budget, Owed, MayMount, MayFormat, Sigs, Formats
    <2> QED
      BY <2>1, <2>4, <2>5, <2>6, <2>7 DEF IInv
  <1> QED
    BY <1>1, <1>2, <1>3, <1>4, <1>5, <1>6, <1>7, <1>8

\* The rest of ON_REMOVED and of PREPARE: the flag falls before the timer is cancelled,
\* and rises together with the START that sets it.
LEMMA CollapseStep ==
  ASSUME IInv, TaskFlag \/ TaskJoin \/ TaskCloseRemoved \/ TaskClosePrepare \/ TaskPrepare
  PROVE  IInv'
  <1> USE DEF card, sdcard, scanner, task, capture, writer, env
  <1>1. CASE TaskFlag
    <2>1. /\ tpc' \in {"removed_join", "prepare_join"}
          /\ tpc' \in Prepares <=> tpc \in Prepares
          /\ enable' = FALSE
          /\ UNCHANGED <<card, sdcard, scanner, mail, containerFolder, armed, fpc, writer, env,
                         joinable, prepared>>
      BY <1>1 DEF TaskFlag, CollapseFlag, Prepares
    <2>2. enable' \in BOOLEAN
      BY <2>1, Zenon
    <2>3. Types'
      BY <2>1, <2>2 DEF IInv, Types
    <2>4. Mailbox' /\ Turn' /\ Closure'
      BY <2>1 DEF IInv, Mailbox, Turn, Closure
    <2>5. Budget'
      BY <2>1 DEF IInv, Budget, Owed, MayMount, MayFormat
    <2> QED
      BY <2>3, <2>4, <2>5 DEF IInv
  <1>2. CASE TaskJoin
    <2>0. /\ \/ tpc' = "removed_close" /\ tpc = "removed_join"
             \/ tpc' = "prepare_close" /\ tpc = "prepare_join"
          /\ joinable' = 0
          /\ UNCHANGED <<card, sdcard, scanner, mail, containerFolder, armed, fpc, writer, env,
                         enable, prepared>>
      BY <1>2 DEF TaskJoin, CollapseJoin
    <2>1. tpc' \in Prepares <=> tpc \in Prepares
      BY <2>0 DEF Prepares
    <2>2. Types'
      BY <2>0, <2>1 DEF IInv, Types
    <2>3. Mailbox' /\ Turn' /\ Closure'
      BY <2>0, <2>1 DEF IInv, Mailbox, Turn, Closure
    <2>4. Budget'
      BY <2>0, <2>1 DEF IInv, Budget, Owed, MayMount, MayFormat
    <2> QED
      BY <2>2, <2>3, <2>4 DEF IInv
  <1>3. ASSUME NEW done \in BOOLEAN, Close(done),
               \/ /\ tpc = "removed_close" /\ tpc' = "idle" /\ armed' = FALSE
               \/ /\ tpc = "prepare_close" /\ tpc' = "prepare" /\ armed' = armed,
               UNCHANGED <<card, sdcard, scanner, containerFolder, capture, fpc, env>>
        PROVE  IInv'
    <2>1. /\ mail' \in Seq(Sigs) /\ open' \in BOOLEAN
          /\ UNCHANGED mPromiseSafeClosure
          /\ \A s \in Sigs \ {"UPDATE_INDEX"} : N(mail', s) = N(mail, s)
      BY <1>3, CloseIs
    <2>2. armed' \in BOOLEAN
      BY <1>3 DEF IInv, Types
    <2>3. Types' /\ Mailbox'
      BY <1>3, <2>1, <2>2, MailboxKept DEF IInv, Types
    <2>4. tpc' \in Prepares <=> tpc \in Prepares
      BY <1>3 DEF Prepares
    <2>5. Turn'
      BY <1>3, <2>1 DEF IInv, Turn, Sigs
    <2>6. Closure'
      BY <1>3, <2>1 DEF IInv, Closure, Sigs
    <2>7. Budget'
      BY <1>3, <2>1, <2>4 DEF IInv, Budget, Owed, MayMount, MayFormat, Sigs
    <2> QED
      BY <2>3, <2>5, <2>6, <2>7 DEF IInv
  <1>4. CASE TaskCloseRemoved \/ TaskClosePrepare
    BY <1>3, <1>4 DEF TaskCloseRemoved, TaskClosePrepare
  <1>5. CASE TaskPrepare
    <2>1. /\ tpc = "prepare" /\ tpc' = "idle" /\ enable' = TRUE
          /\ prepared' = prepared + 1 /\ joinable' = prepared + 1
          /\ mail' = Append(mail, "START")
          /\ UNCHANGED <<card, sdcard, scanner, containerFolder, armed, fpc, writer, env>>
      BY <1>5 DEF TaskPrepare, Preparing
    <2>2. /\ Mailbox'
          /\ \A s \in Sigs \ {"START"} : N(mail', s) = N(mail, s)
          /\ N(mail', "START") = N(mail, "START") + 1
      BY <2>1, Posted DEF Sigs
    <2>3. Owed' = Owed /\ Owed >= prepared + 1 /\ Owed \in Nat
      <3> DEFINE p == N(mail, "ON_MOUNTED")
                 q == N(mail, "PREPARE")
      <3>1. /\ p \in Nat /\ q \in Nat /\ prepared \in Nat
            /\ Owed = ((prepared + p) + q) + 1
        BY <2>1 DEF IInv, Mailbox, Budget, Owed, Prepares
      <3>2. Owed' = (((prepared + 1) + p) + q) + 0
        BY <2>1, <2>2 DEF Owed, Prepares, Sigs
      <3> HIDE DEF p, q
      <3> QED
        BY <3>1, <3>2
    <2>4. prepared + 1 \in Captures
      <3>1. MayMount \in Nat /\ MayFormat \in Nat /\ prepared \in Nat /\ events \in 0..MaxEvents
            /\ Owed + MayMount + MayFormat <= 1 + events /\ events \in Int
        BY Sums, Bounds
      <3>2. Owed <= 1 + events
        BY <2>3, <3>1, Most, Zenon
      <3> QED
        BY <2>3, <3>1, <3>2, Bounds DEF Captures
    <2>5. Types'
      BY <2>1, <2>4 DEF IInv, Types
    <2>6. Turn'
      BY <2>1, <2>2 DEF IInv, Turn, Sigs
    <2>7. Closure'
      BY <2>1, <2>2 DEF IInv, Closure, Mailbox
    <2>8. Budget'
      BY <2>1, <2>2, <2>3 DEF IInv, Budget, MayMount, MayFormat, Sigs
    <2> QED
      BY <2>2, <2>5, <2>6, <2>7, <2>8 DEF IInv
  <1> QED
    BY <1>1, <1>2, <1>4, <1>5

\* The timer that has fired left its CLOSE.
LEMMA TimerStep == ASSUME IInv, TimerFires PROVE IInv'
  <1>1. /\ armed' = FALSE /\ mail' = Append(mail, "CLOSE")
        /\ UNCHANGED <<card, sdcard, scanner, tpc, containerFolder, capture, fpc, writer, env>>
    BY DEF TimerFires
  <1>2. /\ Mailbox'
        /\ \A s \in Sigs \ {"CLOSE"} : N(mail', s) = N(mail, s)
        /\ N(mail', "CLOSE") = N(mail, "CLOSE") + 1
    BY <1>1, Posted DEF Sigs
  <1> USE DEF card, sdcard, scanner, capture, writer, env
  <1>3. armed' \in BOOLEAN
    BY <1>1, Zenon
  <1>4. Types'
    BY <1>1, <1>3 DEF IInv, Types
  <1>5. Turn'
    BY <1>1, <1>2 DEF IInv, Turn, Sigs
  <1>6. Closure'
    BY <1>1, <1>2 DEF IInv, Closure, Mailbox
  <1>7. Budget'
    BY <1>1, <1>2 DEF IInv, Budget, Owed, MayMount, MayFormat, Sigs
  <1> QED
    BY <1>2, <1>4, <1>5, <1>6, <1>7 DEF IInv

\* The formatting thread: the scanner is gone before ForceFormat, and INIT follows.
LEMMA FormatStep == ASSUME IInv, Format PROVE IInv'
  <1> USE DEF card, sdcard, scanner, task, capture, writer, env
  <1>1. CASE FormatStop \/ FormatJoinScanner \/ FormatFlag \/ FormatJoin
    <2>1. /\ fpc \in {"stop", "join_scanner", "flag", "join"}
          /\ fpc' \in {"join_scanner", "flag", "join", "close"}
          /\ fpc \in {"flag", "join"} \/ spc' = "none" \/ (spc' = spc /\ fpc' = "join_scanner")
          /\ spc' \in {spc, "none"}
          /\ polling' = polling \/ polling' = FALSE
          /\ enable' = enable \/ enable' = FALSE
          /\ joinable' = joinable \/ joinable' = 0
          /\ UNCHANGED <<card, mState, mPerformTestWrite, mContainerFolder, lastState, task,
                         prepared, writer, env>>
      BY <1>1 DEF FormatStop, FormatJoinScanner, FormatFlag, FormatJoin, CollapseFlag, CollapseJoin
    <2>2. polling' \in BOOLEAN /\ enable' \in BOOLEAN
      BY <2>1, Zenon DEF IInv, Types
    <2>3. Types'
      BY <2>1, <2>2 DEF IInv, Types
    <2>4. Mailbox'
      BY <2>1 DEF IInv, Mailbox
    <2>5. Turn'
      BY <1>1, <2>1 DEF IInv, Turn, Mailbox, FormatStop, FormatJoinScanner, FormatFlag, FormatJoin
    <2>6. Closure'
      BY <2>1 DEF IInv, Closure
    <2>7. Budget'
      BY <2>1 DEF IInv, Budget, Owed, MayMount, MayFormat, Formats
    <2> QED
      BY <2>3, <2>4, <2>5, <2>6, <2>7 DEF IInv
  <1>2. CASE FormatClose
    <2>1. PICK done \in BOOLEAN : Close(done)
      BY <1>2 DEF FormatClose
    <2>2. /\ mail' \in Seq(Sigs) /\ open' \in BOOLEAN
          /\ UNCHANGED mPromiseSafeClosure
          /\ \A s \in Sigs \ {"UPDATE_INDEX"} : N(mail', s) = N(mail, s)
      BY <2>1, CloseIs
    <2>3. /\ fpc = "close" /\ fpc' = "format"
          /\ UNCHANGED <<card, sdcard, scanner, tpc, containerFolder, armed, capture, env>>
      BY <1>2 DEF FormatClose
    <2>4. Types' /\ Mailbox'
      BY <2>2, <2>3, MailboxKept DEF IInv, Types
    <2>5. Turn' /\ Closure'
      BY <2>2, <2>3 DEF IInv, Turn, Closure, Sigs
    <2>6. Budget'
      BY <2>2, <2>3 DEF IInv, Budget, Owed, MayMount, MayFormat, Sigs, Formats
    <2> QED
      BY <2>4, <2>5, <2>6 DEF IInv
  <1>3. CASE ForceFormat
    <2>1. /\ fpc = "format" /\ fpc' = "init" /\ mState' = "REMOVED"
          /\ fs' \in {fs, "none"} /\ dirs' \in {dirs, {}}
          /\ UNCHANGED <<disk, mPerformTestWrite, mContainerFolder, polling, scanner, task,
                         capture, writer, env>>
      BY <1>3 DEF ForceFormat
    <2>2. Types'
      BY <2>1 DEF IInv, Types
    <2>3. Turn' /\ Closure' /\ Mailbox'
      BY <2>1 DEF IInv, Turn, Closure, Mailbox
    <2>4. N(mail, "FORMAT") = 0
      BY <2>1 DEF IInv, Turn, Mailbox
    <2>5. Budget'
      <3>1. /\ Owed \in Int /\ MayMount \in Nat /\ MayMount' = 1 /\ MayFormat = 1 /\ MayFormat' = 0
            /\ Owed' = Owed /\ prepared' = prepared /\ events' = events
            /\ prepared \in Nat /\ events \in 0..MaxEvents
            /\ Owed + MayMount + MayFormat <= 1 + events
        <4>1. MayMount' = 1 /\ MayFormat = 1 /\ MayFormat' = 0 /\ Owed' = Owed
          BY <2>1, <2>4 DEF Owed, MayMount, MayFormat, Formats
        <4> QED
          BY <2>1, <4>1, Sums
      <3>2. Owed + 1 + 0 <= 1 + events
        BY <3>1
      <3> QED
        BY <3>1, <3>2 DEF Budget
    <2> QED
      BY <2>2, <2>3, <2>5 DEF IInv
  <1>4. CASE FormatInit
    <2>1. /\ fpc = "init" /\ fpc' = "none" /\ mail' = Append(mail, "INIT")
          /\ UNCHANGED <<card, sdcard, scanner, tpc, containerFolder, armed, capture, writer, env>>
      BY <1>4 DEF FormatInit
    <2>2. /\ Mailbox'
          /\ \A s \in Sigs \ {"INIT"} : N(mail', s) = N(mail, s)
          /\ N(mail', "INIT") = N(mail, "INIT") + 1
      BY <2>1, Posted DEF Sigs
    <2>3. Types'
      BY <2>1 DEF IInv, Types
    <2>4. Turn'
      BY <2>1, <2>2 DEF IInv, Turn, Sigs, Mailbox
    <2>5. Closure'
      BY <2>1, <2>2 DEF IInv, Closure, Sigs
    <2>6. Budget'
      BY <2>1, <2>2 DEF IInv, Budget, Owed, MayMount, MayFormat, Sigs, Formats
    <2> QED
      BY <2>2, <2>3, <2>4, <2>5, <2>6 DEF IInv
  <1> QED
    BY <1>1, <1>2, <1>3, <1>4 DEF Format

\* IInv is inductive.
LEMMA StepIInv == IInv /\ [Next]_vars => IInv'
  <1> SUFFICES ASSUME IInv, [Next]_vars PROVE IInv'
    OBVIOUS
  <1>1. CASE Task
    BY <1>1, HandlerStep, CollapseStep DEF Task
  <1>2. CASE \E k \in Captures : Video(k) \/ AudioEnds(k)
    BY <1>2, CaptureStep
  <1>3. CASE UNCHANGED vars
    <2>1. Types'
      BY <1>3 DEF vars, card, sdcard, scanner, task, capture, writer, env, IInv, Types
    <2> QED
      BY <1>3, <2>1, QuietStep DEF vars, card, sdcard, scanner, task, capture, writer, env
  <1> QED
    BY <1>1, <1>2, <1>3, WorldStep, ScannerStep, TimerStep, FormatStep DEF Next

-----------------------------------------------------------------------------
\* The state keeps its types and the mailbox holds signals of the task only.  Above all,
\* preparingBeforeCapturingSamples is not reached more often than one plus the number of
\* removals, failing mounts and formats: a card is reported as mounted once per cause.
THEOREM RecorderTypes == Spec => []TypeOK
  <1>1. IInv => TypeOK
    <2> SUFFICES ASSUME IInv PROVE TypeOK
      OBVIOUS
    <2>1. prepared \in Captures \cup {0}
      BY Sums, Bounds DEF Captures
    <2>2. \A i \in 1..Len(mail) : mail[i] \in Sigs
      BY DEF IInv, Mailbox
    <2> QED
      BY <2>1, <2>2 DEF IInv, Types, TypeOK
  <1> QED
    BY <1>1, InitIInv, StepIInv, PTL DEF Spec

\* As long as capturing is enabled, the timer of GW_RECORD_CLOSE is set or a CLOSE or a
\* START is in the mailbox, in every interleaving of the task with the scanner, the timer
\* service, the capture threads and the thread that formats the card.
THEOREM ClosureTheorem == Spec => []ClosureIsDue
  <1>1. IInv => ClosureIsDue
    BY NType DEF IInv, Closure, Mailbox, ClosureIsDue
  <1> QED
    BY <1>1, InitIInv, StepIInv, PTL DEF Spec
=============================================================================
