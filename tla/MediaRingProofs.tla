-------------------------- MODULE MediaRingProofs --------------------------
(***************************************************************************)
(* The ring of common/mediabuffer.c, for every size of the memory, of the  *)
(* header and of the alignment that satisfies RingAssumption, provided     *)
(* that no frame is larger than the memory: the size test of               *)
(* ringBufferSendTo lets larger ones pass.                                 *)
(*                                                                         *)
(* First, no header reaches past the end of the memory (IInv).  Then, what *)
(* a consumer gets that is less than a lap behind (RingInv): every sealed  *)
(* header that young is followed by its own payload, in the ring and in    *)
(* what the consumer has copied, because a step of the producer stores     *)
(* nothing more than a header above the cells it has claimed (Writes).     *)
(* The header that a consumer has tested stays the one whose fields it     *)
(* loads afterwards (Held), but it may have been the empty one, which the  *)
(* producer fills meanwhile.  Last, that a consumer does not go back in    *)
(* time (BackInv): the links between sealed headers lead to newer frames,  *)
(* and a header that is not complete leads to the beginning of the ring,   *)
(* where no frame is older.                                                *)
(***************************************************************************)
EXTENDS MediaRing, SequenceTheorems, TLAPS

\* No frame is larger than the memory of the ring.
FramesFit == \A len \in Lens : len <= M

\* A header at p is inside the memory, and so are those all of m's headers link to.
Fits(p) == p \in Addr /\ p + HDR <= M
MemFits(m) == m \in [Addr -> Cell] /\ \A a \in Addr : Fits(m[a].next) /\ m[a].len <= M

IInv ==
  /\ MemFits(mem)
  /\ Fits(tracks) /\ Fits(commit) /\ Fits(fhdr)
  /\ curr \in 0..M
  /\ flen \in Nat /\ flen <= M
  /\ ppc \in {"idle", "payload", "wrapped", "link", "commit", "clear", "mark"}
  /\ ppc \in {"commit", "clear", "mark", "idle"} => Fits(curr)
  /\ sent \in 0..MaxFrames
  /\ ppc # "idle" => sent \in 1..MaxFrames
  /\ rpc \in {"new", "idle", "resync", "length", "id", "datalen", "bytes",
               "payload", "wrapped", "finish", "lost"}
  /\ IF rpc = "lost" THEN rpos = WILD ELSE Fits(rpos)
  /\ rid \in 0..MaxFrames /\ rbytes \in 0..M
-----------------------------------------------------------------------------
(* Rounding up to the alignment *)

LEMMA DivMod ==
  ASSUME NEW a \in Nat \ {0}, NEW x \in Nat
  PROVE  /\ x % a \in 0..(a - 1)
         /\ x \div a \in Nat
         /\ x = (a * (x \div a)) + (x % a)
  <1>1. x % a \in 0..(a - 1)
    BY SMT
  <1>2. x \div a \in Int
    BY SMT
  <1>3. x \div a >= 0
    BY <1>2, SMT
  <1>4. x = (a * (x \div a)) + (x % a)
    BY <1>1, <1>2, SMT
  <1> QED
    BY <1>1, <1>2, <1>3, <1>4

\* Where x is no multiple of a, the next multiple is not past one that x is not past.
LEMMA RoundUp ==
  ASSUME NEW a \in Nat \ {0}, NEW x \in Nat, NEW j \in Int,
         x <= a * j, x % a # 0
  PROVE  x + (a - (x % a)) <= a * j
  <1> DEFINE q == x \div a
             r == x % a
  <1>1. q \in Nat /\ r \in 1..(a - 1) /\ x = (a * q) + r
    <2>1. q \in Nat /\ r \in 0..(a - 1) /\ x = (a * q) + r
      BY DivMod
    <2>2. r # 0
      OBVIOUS
    <2> HIDE DEF q, r
    <2> QED
      BY <2>1, <2>2
  <1> HIDE DEF q, r
  <1>2. q < j
    <2>1. SUFFICES ASSUME j <= q PROVE FALSE
      BY <1>1
    <2>2. a * j <= a * q
      BY <2>1, <1>1, SMT
    <2>3. a * j \in Int /\ a * q \in Int
      BY <1>1, SMT
    <2> QED
      BY <2>2, <2>3, <1>1
  <1>3. a * (q + 1) <= a * j
    BY <1>1, <1>2, SMT
  <1>4. a * (q + 1) = (a * q) + a
    BY <1>1, SMT
  <1>5. x + (a - r) = (a * q) + a
    BY <1>1, SMT
  <1>6. x + (a - r) <= a * j
    BY <1>3, <1>4, <1>5
  <1> QED
    BY <1>6 DEF r

\* The last place for a header is aligned.
LEMMA LastPlaceAligned ==
  \E j \in Int : M - HDR = ALIGN * j
  <1> DEFINE k == M \div ALIGN
             h == HDR \div ALIGN
  <1>1. k \in Nat /\ M = (ALIGN * k) + 0
    BY DivMod, RingAssumption
  <1>2. h \in Nat /\ HDR = (ALIGN * h) + 0
    BY DivMod, RingAssumption
  <1>3. ALIGN \in Nat
    BY RingAssumption
  <1> HIDE DEF k, h
  <1>4. ALIGN * (k - h) = (ALIGN * k) - (ALIGN * h)
    BY <1>1, <1>2, <1>3, SMT
  <1>5. ALIGN * k \in Int /\ ALIGN * h \in Int
    BY <1>1, <1>2, <1>3, SMT
  <1>6. M - HDR = ALIGN * (k - h)
    BY <1>1, <1>2, <1>4, <1>5
  <1> QED
    BY <1>1, <1>2, <1>6

LEMMA NextPlaceFits ==
  ASSUME NEW p \in 0..M
  PROVE  Fits(NextPlace(p))
  <1>1. M \in Nat /\ HDR \in Nat \ {0} /\ ALIGN \in Nat \ {0} /\ HDR <= M
    BY RingAssumption
  <1>2. CASE M - p < HDR
    BY <1>1, <1>2 DEF NextPlace, Fits, Addr
  <1>3. CASE ~(M - p < HDR) /\ p % ALIGN = 0
    BY <1>1, <1>3 DEF NextPlace, Fits, Addr
  <1>4. CASE ~(M - p < HDR) /\ p % ALIGN # 0
    <2>1. PICK j \in Int : M - HDR = ALIGN * j
      BY LastPlaceAligned
    <2>2. p + (ALIGN - (p % ALIGN)) <= M - HDR
      <3>1. p <= ALIGN * j
        BY <2>1, <1>1, <1>4
      <3>2. p + (ALIGN - (p % ALIGN)) <= ALIGN * j
        <4>1. p \in Nat
          BY <1>1
        <4> QED
          BY <3>1, <4>1, <1>1, <1>4, RoundUp, Zenon
      <3> QED
        BY <3>2, <2>1
    <2>3. p % ALIGN \in 0..(ALIGN - 1)
      BY <1>1, DivMod
    <2>4. NextPlace(p) = p + (ALIGN - (p % ALIGN))
      BY <1>4 DEF NextPlace
    <2> QED
      BY <2>2, <2>3, <2>4, <1>1 DEF Fits, Addr
  <1> QED
    BY <1>2, <1>3, <1>4
-----------------------------------------------------------------------------
(* What the producer stores *)

LEMMA SomeConstants ==
  /\ M \in Nat \ {0} /\ HDR \in Nat \ {0} /\ HDR <= M
  /\ MaxFrames \in Nat
  /\ WILD \notin 0..M
  /\ Fits(0)
  BY RingAssumption DEF Fits, Addr

LEMMA PartIsCell ==
  ASSUME NEW kind \in {"header", "payload"}, NEW id \in 0..MaxFrames, NEW part \in Nat
  PROVE  /\ Part(kind, id, part) \in Cell
         /\ Fits(Part(kind, id, part).next) /\ Part(kind, id, part).len <= M
  <1>1. Blank \in Cell /\ Fits(Blank.next) /\ Blank.len <= M
    BY SomeConstants DEF Blank, Cell, Fits, Addr
  <1>2. /\ Part(kind, id, part) \in Cell
        /\ Part(kind, id, part).next = Blank.next /\ Part(kind, id, part).len = Blank.len
    BY <1>1, SomeConstants DEF Part, Cell
  <1> QED
    BY <1>1, <1>2

LEMMA HeaderStored ==
  ASSUME NEW m, MemFits(m), NEW p \in 0..M,
         NEW id \in 0..MaxFrames, NEW len \in 0..M, NEW next, NEW prev, NEW ok \in BOOLEAN,
         Fits(next), Fits(prev)
  PROVE  MemFits(WithHeader(m, p, Header(id, len, next, prev, ok)))
  <1> DEFINE h == Header(id, len, next, prev, ok)
             new == WithHeader(m, p, h)
  <1>1. h \in Cell /\ h.next = next /\ h.id = id /\ h.len = len /\ len <= M
    BY SomeConstants DEF Header, Cell, Fits, Addr
  <1>2. new = [a \in Addr |-> IF a \in p..(p + HDR - 1)
                                THEN IF a - p = 0 THEN h ELSE Part("header", id, a - p)
                                ELSE m[a]]
    BY <1>1 DEF WithHeader, Stored
  <1> HIDE DEF h, new
  <1>3. ASSUME NEW a \in Addr
        PROVE  new[a] \in Cell /\ Fits(new[a].next) /\ new[a].len <= M
    <2>1. CASE a \notin p..(p + HDR - 1)
      BY <1>2, <2>1 DEF MemFits
    <2>2. CASE a \in p..(p + HDR - 1) /\ a - p = 0
      BY <1>1, <1>2, <2>2
    <2>3. CASE a \in p..(p + HDR - 1) /\ a - p # 0
      <3>1. a - p \in Nat
        BY <2>3, SomeConstants DEF Addr
      <3>2. new[a] = Part("header", id, a - p)
        BY <1>2, <2>3
      <3> QED
        BY <3>1, <3>2, PartIsCell
    <2> QED
      BY <2>1, <2>2, <2>3
  <1>4. MemFits(new)
    BY <1>2, <1>3 DEF MemFits
  <1> QED
    BY <1>4 DEF new, h

LEMMA PayloadStored ==
  ASSUME NEW m, MemFits(m), NEW p \in 0..M, NEW n \in Int,
         NEW id \in 0..MaxFrames, NEW from \in Nat
  PROVE  MemFits(WithPayload(m, p, n, id, from))
  <1> DEFINE new == WithPayload(m, p, n, id, from)
  <1>1. new = [a \in Addr |-> IF a \in p..(p + n - 1)
                                THEN Part("payload", id, from + (a - p)) ELSE m[a]]
    BY DEF WithPayload, Stored
  <1> HIDE DEF new
  <1>2. ASSUME NEW a \in Addr
        PROVE  new[a] \in Cell /\ Fits(new[a].next) /\ new[a].len <= M
    <2>1. CASE a \notin p..(p + n - 1)
      BY <1>1, <2>1 DEF MemFits
    <2>2. CASE a \in p..(p + n - 1)
      <3>1. from + (a - p) \in Nat
        BY <2>2, SomeConstants DEF Addr
      <3>2. new[a] = Part("payload", id, from + (a - p))
        BY <1>1, <2>2
      <3> QED
        BY <3>1, <3>2, PartIsCell
    <2> QED
      BY <2>1, <2>2
  <1>3. MemFits(new)
    BY <1>1, <1>2 DEF MemFits
  <1> QED
    BY <1>3 DEF new

-----------------------------------------------------------------------------
(* The invariant *)

LEMMA InitIInv == Init => IInv
  <1> SUFFICES ASSUME Init PROVE IInv
    OBVIOUS
  <1>1. Blank \in Cell /\ Fits(Blank.next) /\ Blank.len <= M
    BY SomeConstants DEF Blank, Cell, Fits, Addr
  <1> QED
    BY <1>1, SomeConstants DEF Init, IInv, MemFits

LEMMA ProducerStep ==
  ASSUME FramesFit, IInv, Producer
  PROVE  IInv'
  <1> USE SomeConstants
  <1>0. UNCHANGED rvars
    BY DEF Producer, SendHeader, SendPayload, SendWrapped, SendLink, SendCommit, SendClear, SendMark
  <1>1. ASSUME NEW len \in Lens, SendHeader(len) PROVE IInv'
    <2>1. Fits(HeaderPlace)
      BY <1>1 DEF IInv, SendHeader, HeaderPlace, Fits, Addr
    <2>2. len \in 0..M /\ len \in Nat /\ len <= M
      BY RingAssumption DEF FramesFit
    <2>3. sent + 1 \in 1..MaxFrames
      BY <1>1 DEF IInv, SendHeader
    <2>4. mem' = WithHeader(mem, HeaderPlace, Header(sent + 1, len, 0, 0, FALSE))
      BY <1>1 DEF SendHeader
    <2>5. MemFits(mem')
      <3>1. sent + 1 \in 0..MaxFrames /\ HeaderPlace \in 0..M
        BY <2>1, <2>3 DEF Fits, Addr
      <3> QED
        BY <2>2, <2>4, <3>1, HeaderStored DEF IInv
    <2>6. curr' \in 0..M
      BY <1>1, <2>1 DEF SendHeader, Fits, Addr
    <2>7. /\ fhdr' = HeaderPlace /\ flen' = len /\ sent' = sent + 1 /\ ppc' = "payload"
          /\ UNCHANGED <<tracks, commit, rpc, rpos, rid, rbytes>>
      BY <1>0, <1>1 DEF SendHeader, rvars
    <2> QED
      BY <2>1, <2>2, <2>3, <2>5, <2>6, <2>7 DEF IInv, Fits
  <1>2. ASSUME SendPayload PROVE IInv'
    <2> DEFINE n == IF flen > M - curr THEN M - curr ELSE flen
    <2>1. MemFits(mem')
      <3>1. mem' = WithPayload(mem, curr, n, sent, 0) /\ n \in Int
        BY <1>2 DEF SendPayload, IInv
      <3> QED
        BY <3>1, PayloadStored DEF IInv
    <2>2. curr' \in 0..M /\ ppc' \in {"wrapped", "link"}
      BY <1>2 DEF SendPayload, AfterPayload, IInv
    <2> QED
      BY <1>0, <1>2, <2>1, <2>2 DEF IInv, SendPayload, rvars
  <1>3. ASSUME SendWrapped PROVE IInv'
    <2>1. MemFits(mem')
      <3>1. M - curr \in Nat /\ flen - (M - curr) \in Int
        BY DEF IInv
      <3>2. mem' = WithPayload(mem, 0, flen - (M - curr), sent, M - curr)
        BY <1>3 DEF SendWrapped
      <3> QED
        BY <3>1, <3>2, PayloadStored DEF IInv
    <2>2. curr' \in 0..M
      BY <1>3 DEF SendWrapped, AfterPayload, IInv
    <2> QED
      BY <1>0, <1>3, <2>1, <2>2 DEF IInv, SendWrapped, rvars
  <1>4. ASSUME SendLink PROVE IInv'
    <2>1. Fits(curr')
      BY <1>4, NextPlaceFits DEF SendLink, IInv
    <2>2. MemFits(mem')
      <3>1. mem' = WithHeader(mem, fhdr, Header(sent, flen, curr', tracks, TRUE))
        BY <1>4 DEF SendLink
      <3>2. fhdr \in 0..M /\ Fits(tracks) /\ sent \in 0..MaxFrames /\ flen \in 0..M
        BY SomeConstants DEF IInv, Fits, Addr
      <3> QED
        BY <2>1, <3>1, <3>2, HeaderStored DEF IInv
    <2>3. curr' \in 0..M
      BY <2>1 DEF Fits, Addr
    <2>4. ppc = "link" /\ ppc' = "commit"
          /\ UNCHANGED <<tracks, commit, fhdr, flen, sent, rpc, rpos, rid, rbytes>>
      BY <1>0, <1>4 DEF SendLink, rvars
    <2> QED
      BY <2>1, <2>2, <2>3, <2>4 DEF IInv, Fits
  <1>5. ASSUME SendCommit PROVE IInv'
    BY <1>0, <1>5 DEF IInv, SendCommit, rvars
  <1>6. ASSUME SendClear PROVE IInv'
    <2>1. MemFits(mem')
      <3>1. mem' = WithHeader(mem, curr, Header(0, 0, 0, 0, FALSE))
            /\ 0 \in 0..MaxFrames /\ 0 \in 0..M
        BY <1>6 DEF SendClear, EmptyHeader
      <3> QED
        BY <3>1, HeaderStored DEF IInv
    <2> QED
      BY <1>0, <1>6, <2>1 DEF IInv, SendClear, rvars
  <1>7. ASSUME SendMark PROVE IInv'
    <2>1. MemFits(mem')
      <3>1. mem' = WithHeader(mem, curr, Header(0, 0, 0, 0, TRUE))
            /\ 0 \in 0..MaxFrames /\ 0 \in 0..M
        BY <1>7 DEF SendMark, EmptyHeader
      <3> QED
        BY <3>1, HeaderStored DEF IInv
    <2> QED
      BY <1>0, <1>7, <2>1 DEF IInv, SendMark, rvars
  <1> QED
    BY <1>1, <1>2, <1>3, <1>4, <1>5, <1>6, <1>7 DEF Producer

LEMMA ReaderWritesNothing == Consumer => UNCHANGED pvars
  BY DEF Consumer, CreateConsumer, ReadCheck, ReadResync, ReadLength, ReadId, ReadDataLen, ReadBytes,
         ReadPayload, ReadWrapped, ReadFinish, Lost

LEMMA ConsumerStep ==
  ASSUME IInv, Consumer
  PROVE  IInv'
  <1>0. UNCHANGED pvars
    BY ReaderWritesNothing
  <1> DEFINE Types == /\ rpc' \in {"new", "idle", "resync", "length", "id", "datalen", "bytes",
                                   "payload", "wrapped", "finish", "lost"}
                      /\ IF rpc' = "lost" THEN rpos' = WILD ELSE Fits(rpos')
                      /\ rid' \in 0..MaxFrames /\ rbytes' \in 0..M
  <1>1. Types
    <2>1. rpc # "lost" => /\ rpos \in Addr /\ Fits(mem[rpos].next)
                          /\ mem[rpos].id \in 0..MaxFrames /\ mem[rpos].len \in 0..M
      BY SomeConstants DEF IInv, Fits, MemFits, Cell
    <2>2. CASE CreateConsumer \/ ReadResync \/ Lost
      BY <2>2, SomeConstants DEF IInv, CreateConsumer, ReadResync, Lost
    <2>3. CASE ReadCheck \/ ReadLength \/ ReadPayload \/ ReadWrapped
      BY <2>3 DEF IInv, ReadCheck, ReadLength, ReadPayload, ReadWrapped
    <2>4. CASE ReadId \/ ReadDataLen \/ ReadBytes
      BY <2>1, <2>4 DEF IInv, ReadId, ReadDataLen, ReadBytes
    <2>5. CASE ReadFinish
      BY <2>1, <2>5, SomeConstants DEF IInv, ReadFinish
    <2> QED
      BY <2>2, <2>3, <2>4, <2>5 DEF Consumer
  <1> QED
    BY <1>0, <1>1 DEF IInv, pvars

LEMMA StepIInv ==
  ASSUME FramesFit, IInv, [Next]_vars
  PROVE  IInv'
  <1>1. CASE UNCHANGED vars
    BY <1>1 DEF IInv, vars, pvars, rvars
  <1> QED
    BY <1>1, ProducerStep, ConsumerStep DEF Next

\* Neither the header that ringBufferSendTo fills or clears nor the one that
\* ringBufferReadFrom reads reaches past the memory, whatever the sizes of the ring are,
\* if no frame is larger than it.
THEOREM HeadersFitTheorem == FramesFit => (Spec => []HeadersFit)
  <1> SUFFICES ASSUME FramesFit PROVE Spec => []HeadersFit
    OBVIOUS
  <1>1. IInv => HeadersFit
    BY SomeConstants DEF IInv, MemFits, HeadersFit, TypeOK, Fits, Addr
  <1>2. IInv /\ [Next]_vars => IInv'
    BY StepIInv
  <1> QED
    BY InitIInv, <1>1, <1>2, PTL DEF Spec
-----------------------------------------------------------------------------
(* Frames that are less than a lap behind *)

Behind(i) == end - start[i]
Alive(i) == Behind(i) + HDR <= M
Wrap(x) == IF x >= M THEN x - M ELSE x

\* The producer has claimed the memory up to Top; Claimed is the size of the frame it fills.
Filling == ppc \in {"payload", "wrapped", "link"}
Top == IF ppc \in {"payload", "wrapped"} THEN AfterPayload(curr, flen) ELSE curr
Claimed == IF Filling THEN HDR + flen ELSE 0

\* A complete header starts at a, and it is that of a frame.
SealedIn(m, a) == m[a].kind = "header" /\ m[a].part = 0 /\ m[a].ok /\ m[a].len # 0
Sealed(a) == SealedIn(mem, a)

\* Somebody's header starts at a, all of it; the payload of frame i follows it.
HeaderIn(m, a) == \A k \in 0..(HDR - 1) : m[a + k].kind = "header" /\ m[a + k].part = k
WholeAt(m, a, i, len) ==
  /\ HeaderIn(m, a)
  /\ \A j \in 0..(len - 1) : m[Wrap((a + HDR) + j)] = Part("payload", i, j)

\* Frame i of len cells starts at a, d cells below top, of which c are claimed.
Intact(m, a, i, len, d, top, c) ==
  /\ Fits(a)
  /\ HDR + len + c <= d
  /\ top - a = d \/ top - a = d - M
  /\ WholeAt(m, a, i, len)

KeptAt(a) ==
  /\ mem[a].id \in 1..sent /\ mem[a].len \in 1..M /\ mem[a].len = size[mem[a].id]
  /\ Alive(mem[a].id) =>
       Intact(mem, a, mem[a].id, mem[a].len, Behind(mem[a].id), Top, Claimed)

Counts ==
  end \in Int /\ start \in [1..MaxFrames -> Int] /\ size \in [1..MaxFrames -> Nat]
Kept == \A a \in Addr : Sealed(a) => KeptAt(a)

Written ==
  /\ Filling => sent \in 1..MaxFrames /\ Behind(sent) = HDR + flen
  /\ Filling => flen # 0 /\ size[sent] = flen
  /\ Filling /\ Alive(sent) => HeaderIn(mem, fhdr) /\ ~mem[fhdr].ok
  /\ ppc \in {"payload", "wrapped"} => curr = fhdr + HDR
  /\ ppc = "link" => curr = AfterPayload(fhdr + HDR, flen)
  /\ ppc = "wrapped" =>
       /\ flen > M - curr
       /\ Alive(sent) => \A j \in 0..((M - curr) - 1) : mem[curr + j] = Part("payload", sent, j)
  /\ ppc = "link" /\ Alive(sent) =>
       \A j \in 0..(flen - 1) : mem[Wrap((fhdr + HDR) + j)] = Part("payload", sent, j)

\* A header is sealed, or that of the frame in progress, or the empty one that the producer
\* leaves for the next frame: the latter two link to the beginning of the ring.
Begins(a) == mem[a].kind = "header" /\ mem[a].part = 0
Filled(a) == Filling /\ a = fhdr /\ ~mem[a].ok
Left(a) == ppc \in {"mark", "idle"} /\ a = curr /\ mem[a].len = 0 /\ (mem[a].ok => ppc = "idle")
Headers ==
  \A a \in Addr : Begins(a) => Sealed(a) \/ (mem[a].next = 0 /\ (Filled(a) \/ Left(a)))

\* The header that the consumer has tested is that of a frame, complete or in progress,
\* unless that frame was overtaken, or it is still the empty one.
Testing == {"length", "id", "datalen", "bytes", "payload", "wrapped", "finish"}
Copying == {"payload", "wrapped", "finish"}
Held == (Sealed(rpos) /\ mem[rpos].id = found) \/ (Filling /\ found = sent /\ rpos = fhdr)
Awaited ==
  /\ rpc = "length" /\ found = sent + 1
  /\ ppc = "idle" /\ rpos = curr /\ HeaderIn(mem, rpos) /\ mem[rpos].len = 0
Tested ==
  rpc \in Testing => Awaited \/ (found \in 1..sent /\ (Alive(found) => Held))

\* What the consumer has read of a frame that was complete when it loaded the length.
Reads == ~early /\ Alive(found)
Reading ==
  /\ rpc \in {"id", "datalen", "bytes"} \cup Copying /\ Reads => Sealed(rpos) /\ mem[rpos].id = found
  /\ rpc \in {"datalen", "bytes"} \cup Copying /\ Reads => rid = found
  /\ rpc \in {"bytes"} \cup Copying /\ Reads => rlen = mem[rpos].len
  /\ rpc \in Copying /\ Reads => rbytes = mem[rpos].len

\* What it has copied.
Copied ==
  /\ buf \in Seq(Cell)
  /\ rpc \in {"wrapped", "finish"} /\ Reads =>
       \A i \in 1..Len(buf) : buf[i] = Part("payload", found, i - 1)
  /\ rpc = "wrapped" => rbytes > M - (rpos + HDR) /\ Len(buf) = M - (rpos + HDR)
  /\ rpc = "finish" => Len(buf) = rbytes

Delivered ==
  /\ IntactWithinLap
  /\ rpc = "lost" => found \in 1..sent /\ OvertakenBy(Behind(found))

RingInv ==
  /\ IInv /\ Counts /\ Kept /\ Written /\ Headers
  /\ Tested /\ Reading /\ Copied /\ Delivered

\* What a step of the producer may do to the frames: it claims e cells more and writes n
\* cells from w on, which lies u cells below the top and not below what is claimed.
Writes(e, w, n, u) ==
  /\ e \in Nat /\ w \in Int /\ n \in Int /\ u \in Nat
  /\ end' = end + e /\ sent' >= sent /\ sent' \in 0..MaxFrames
  /\ start' \in [1..MaxFrames -> Int] /\ size' \in [1..MaxFrames -> Nat]
  /\ \A i \in 1..sent : start'[i] = start[i] /\ size'[i] = size[i]
  /\ u <= Claimed /\ n <= u + HDR
  /\ Top - w = u \/ Top - w = u - M
  /\ Top' \in 0..M /\ (Top' = Top + e \/ Top' = Top + e - M)
  /\ Claimed' \in Nat /\ Claimed' <= Claimed + e
  /\ \A c \in Addr : c \notin w..(w + n - 1) => mem'[c] = mem[c]

\* The arithmetic of the ring: a cell of a frame that is less than a lap behind is not
\* among those that are written.
LEMMA Apart ==
  ASSUME NEW a \in Int, NEW x \in Int, NEW s \in Int, NEW d \in Int, NEW u \in Int,
         NEW n \in Int, NEW w \in Int, NEW top \in Int, NEW c \in Int,
         0 <= x, x < s, s + u <= d, d + n - u <= M,
         top - a = d \/ top - a = d - M, top - w = u \/ top - w = u - M,
         c = a + x \/ c = a + x - M
  PROVE  c \notin w..(w + n - 1)
  <1>1. M \in Nat
    BY SomeConstants
  <1>2. SUFFICES ASSUME w <= c, c <= w + n - 1 PROVE FALSE
    OBVIOUS
  <1> QED
    BY <1>1, <1>2

\* The distance from top to the frame grows with what is claimed.
LEMMA TopMoves ==
  ASSUME NEW a \in Addr, NEW d \in Int, NEW e \in Nat, NEW top \in 0..M, NEW new \in 0..M,
         d + e + HDR <= M, top - a = d \/ top - a = d - M,
         new = top + e \/ new = top + e - M
  PROVE  new - a = d + e \/ new - a = (d + e) - M
  BY SomeConstants DEF Addr

\* Every frame that is less than a lap behind after a step of the producer was so before,
\* and is left alone.
LEMMA FramesKept ==
  ASSUME RingInv, NEW e, NEW w, NEW n, NEW u, Writes(e, w, n, u),
         NEW a \in Addr, Sealed(a), (Behind(mem[a].id) + e) + HDR <= M
  PROVE  /\ mem'[a] = mem[a]
         /\ Intact(mem', a, mem[a].id, mem[a].len, Behind(mem[a].id) + e, Top', Claimed')
  <1> DEFINE i == mem[a].id
             len == mem[a].len
             d == Behind(mem[a].id)
             top == Top
             b == Claimed
             new == mem'
             newtop == Top'
             newb == Claimed'
  <1>1. /\ e \in Nat /\ w \in Int /\ n \in Int /\ u \in Nat
        /\ u <= b /\ n <= u + HDR /\ (top - w = u \/ top - w = u - M)
        /\ newtop \in 0..M /\ (newtop = top + e \/ newtop = top + e - M)
        /\ newb \in Nat /\ newb <= b + e
        /\ \A c \in Addr : c \notin w..(w + n - 1) => new[c] = mem[c]
    BY DEF Writes
  <1>2. KeptAt(a)
    BY DEF RingInv, Kept
  <1>3. i \in 1..MaxFrames /\ len \in Nat
    <2>1. i \in 1..sent /\ len \in 1..M
      BY <1>2 DEF KeptAt
    <2>2. sent \in 0..MaxFrames
      BY DEF RingInv, IInv
    <2> HIDE DEF i, len
    <2> QED
      BY <2>1, <2>2, SomeConstants
  <1>4. d \in Int
    BY <1>3 DEF Behind, RingInv, Counts
  <1>5. b \in Nat /\ top \in 0..M
    BY SomeConstants DEF Claimed, Filling, Top, AfterPayload, RingInv, IInv
  <1>6. d + e + HDR <= M
    BY <1>1, <1>4, SomeConstants
  <1>7. Intact(mem, a, i, len, d, top, b)
    <2>1. Alive(i)
      BY <1>1, <1>4, <1>6, SomeConstants DEF Alive
    <2> QED
      BY <1>2, <2>1 DEF KeptAt
  <1> HIDE DEF i, len, d, top, b, new, newtop, newb
  <1>8. /\ a + HDR <= M /\ HDR + len + b <= d
        /\ top - a = d \/ top - a = d - M
        /\ \A k \in 0..(HDR - 1) : mem[a + k].kind = "header" /\ mem[a + k].part = k
        /\ \A j \in 0..(len - 1) : mem[Wrap((a + HDR) + j)] = Part("payload", i, j)
    BY <1>7 DEF Intact, WholeAt, HeaderIn, Fits
  <1>9. M \in Nat /\ HDR \in Nat \ {0} /\ a \in Nat /\ a < M
    BY SomeConstants DEF Addr
  <1>10. newtop - a = d + e \/ newtop - a = (d + e) - M
    BY <1>1, <1>4, <1>5, <1>6, <1>8, <1>9
  <1>11. ASSUME NEW x \in 0..((HDR + len) - 1), NEW c \in Addr, c = a + x \/ c = a + x - M
         PROVE  new[c] = mem[c]
    <2> DEFINE s == HDR + len
    <2>1. /\ a \in Int /\ x \in Int /\ u \in Int /\ top \in Int /\ c \in Int
          /\ s \in Int /\ 0 <= x /\ x < s /\ s + u <= d /\ d + n - u <= M
      BY <1>1, <1>3, <1>4, <1>5, <1>6, <1>8, <1>9, <1>11 DEF Addr
    <2> HIDE DEF s
    <2>2. c \notin w..(w + n - 1)
      BY <2>1, <1>1, <1>4, <1>8, <1>11, Apart
    <2> QED
      BY <1>1, <2>2
  <1>12. ASSUME NEW k \in 0..(HDR - 1) PROVE new[a + k] = mem[a + k]
    <2>1. k \in 0..((HDR + len) - 1) /\ a + k \in Addr
      BY <1>3, <1>8, <1>9 DEF Addr
    <2> QED
      BY <2>1, <1>11
  <1>13. ASSUME NEW j \in 0..(len - 1)
         PROVE  new[Wrap((a + HDR) + j)] = mem[Wrap((a + HDR) + j)]
    <2>1. /\ HDR + j \in 0..((HDR + len) - 1) /\ Wrap((a + HDR) + j) \in Addr
          /\ \/ Wrap((a + HDR) + j) = a + (HDR + j)
             \/ Wrap((a + HDR) + j) = a + (HDR + j) - M
      BY <1>1, <1>3, <1>4, <1>5, <1>6, <1>8, <1>9 DEF Addr, Wrap
    <2> QED
      BY <2>1, <1>11
  <1>14. WholeAt(new, a, i, len)
    BY <1>8, <1>12, <1>13 DEF WholeAt, HeaderIn
  <1>15. new[a] = mem[a]
    <2>1. 0 \in 0..(HDR - 1) /\ a + 0 = a
      BY <1>9
    <2> QED
      BY <2>1, <1>12
  <1>16. Intact(new, a, i, len, d + e, newtop, newb)
    <2>1. HDR + len + newb <= d + e
      BY <1>1, <1>3, <1>4, <1>5, <1>8, <1>9
    <2> QED
      BY <2>1, <1>8, <1>10, <1>14 DEF Intact, Fits
  <1> QED
    BY <1>15, <1>16 DEF i, len, d, new, newtop, newb

LEMMA BehindGrows ==
  ASSUME RingInv, NEW e, NEW w, NEW n, NEW u, Writes(e, w, n, u), NEW i \in 1..sent
  PROVE  end' - start'[i] = Behind(i) + e /\ Behind(i) \in Int
  <1>1. i \in 1..MaxFrames
    <2>1. sent \in 0..MaxFrames
      BY DEF RingInv, IInv
    <2> QED
      BY <2>1, SomeConstants
  <1>2. end \in Int /\ start[i] \in Int /\ e \in Nat /\ end' = end + e /\ start'[i] = start[i]
    BY <1>1 DEF RingInv, Counts, Writes
  <1> QED
    BY <1>2 DEF Behind

LEMMA KeptStep ==
  ASSUME RingInv, NEW e, NEW w, NEW n, NEW u, Writes(e, w, n, u),
         NEW a \in Addr, Sealed(a)', a \notin w..(w + n - 1)
  PROVE  KeptAt(a)'
  <1>1. mem'[a] = mem[a]
    BY DEF Writes
  <1>2. Sealed(a)
    BY <1>1 DEF Sealed, SealedIn
  <1>3. mem[a].id \in 1..sent /\ mem[a].len \in 1..M /\ sent' >= sent /\ sent' \in Int /\ sent \in Int
    BY <1>2 DEF RingInv, IInv, Kept, KeptAt, Writes
  <1>6. mem[a].len = size'[mem[a].id]
    BY <1>2, <1>3 DEF RingInv, Kept, KeptAt, Writes
  <1>4. end' - start'[mem[a].id] = Behind(mem[a].id) + e
    BY <1>3, BehindGrows
  <1>5. ASSUME (end' - start'[mem[a].id]) + HDR <= M
        PROVE  Intact(mem', a, mem[a].id, mem[a].len, end' - start'[mem[a].id], Top', Claimed')
    <2>1. (Behind(mem[a].id) + e) + HDR <= M
      BY <1>4, <1>5
    <2> QED
      BY <1>2, <1>4, <2>1, FramesKept
  <1> QED
    BY <1>1, <1>3, <1>5, <1>6 DEF KeptAt, Alive, Behind

\* What any step of the producer may do to the headers: it leaves each where it is, or
\* there is none any more, or it is that of the frame in progress, of which SendLink seals
\* the header, or the one that it leaves open for the next frame.
Opened(c) ==
  /\ c = curr /\ ppc \in {"idle", "clear", "mark"}
  /\ ~Sealed(c)' /\ mem'[c].next = 0 /\ (Filled(c)' \/ Left(c)')
Effect(e) ==
  /\ e \in Nat /\ end' = end + e
  /\ sent' \in 0..MaxFrames /\ sent' >= sent /\ \A i \in 1..sent : start'[i] = start[i]
  /\ Top \in 0..M /\ Top' \in 0..M /\ (Top' = Top + e \/ Top' = Top + e - M)
  /\ \A c \in Addr : mem'[c] # mem[c] =>
       ~Begins(c)' \/ Opened(c) \/ (c = fhdr /\ ppc = "link")

\* What a step of the producer does with the header it works on.
Progress ==
  /\ ppc = "idle" => Filling' /\ fhdr' = curr /\ sent' = sent + 1 /\ ~mem'[curr].ok
  /\ ppc # "idle" => sent' = sent
  /\ Filling => /\ fhdr' = fhdr
                /\ IF ppc = "link" THEN SealedIn(mem', fhdr) /\ mem'[fhdr].id = sent ELSE Filling'
  /\ ppc = "mark" => ppc' = "idle" /\ curr' = curr

\* A frame that is less than a lap behind after the step was so before it; its header is
\* where it was.
LEMMA FoundKept ==
  ASSUME RingInv, NEW e, NEW w, NEW n, NEW u, Writes(e, w, n, u), UNCHANGED rvars,
         found \in 1..sent
  PROVE  /\ found \in 1..sent'
         /\ Behind(found)' = Behind(found) + e /\ Behind(found) \in Int
         /\ Alive(found)' => Alive(found)
         /\ Alive(found)' /\ rpos \in Addr /\ Sealed(rpos) /\ mem[rpos].id = found =>
              mem'[rpos] = mem[rpos] /\ Sealed(rpos)'
  <1>1. found' = found /\ rpos' = rpos
    BY DEF rvars
  <1>2. sent' >= sent /\ sent' \in Int /\ sent \in Int /\ e \in Nat
    BY DEF RingInv, IInv, Writes
  <1>3. end' - start'[found] = Behind(found) + e /\ Behind(found) \in Int
    BY BehindGrows
  <1>4. ASSUME Alive(found)' PROVE Alive(found) /\ (Behind(found) + e) + HDR <= M
    BY <1>1, <1>2, <1>3, <1>4, SomeConstants DEF Alive, Behind
  <1>5. ASSUME Alive(found)', rpos \in Addr, Sealed(rpos), mem[rpos].id = found
        PROVE  mem'[rpos] = mem[rpos] /\ Sealed(rpos)'
    <2>1. mem'[rpos] = mem[rpos]
      BY <1>4, <1>5, FramesKept
    <2> QED
      BY <2>1, <1>1, <1>5 DEF Sealed, SealedIn
  <1>6. found \in 1..sent'
    BY <1>2
  <1>7. Behind(found)' = Behind(found) + e
    BY <1>1, <1>3 DEF Behind
  <1> QED
    BY <1>3, <1>4, <1>5, <1>6, <1>7

LEMMA TestedStep ==
  ASSUME RingInv, NEW e, NEW w, NEW n, NEW u, Writes(e, w, n, u), UNCHANGED rvars, Progress
  PROVE  Tested'
  <1>1. UNCHANGED <<rpc, rpos, found>>
    BY DEF rvars
  <1> SUFFICES ASSUME rpc \in Testing
               PROVE  found \in 1..sent' /\ (Alive(found)' => Held')
    BY <1>1 DEF Tested
  <1>2. rpos \in Addr /\ sent \in Int /\ 0 <= sent
    BY SomeConstants DEF RingInv, IInv, Fits, Testing
  <1>3. CASE Awaited
    <2>1. found = sent' /\ Filling' /\ fhdr' = rpos /\ found \in 1..sent'
      BY <1>2, <1>3 DEF Awaited, Progress
    <2> QED
      BY <2>1, <1>1 DEF Held
  <1>4. CASE found \in 1..sent /\ (Alive(found) => Held)
    <2>1. found \in 1..sent'
      BY <1>4, FoundKept
    <2>2. ASSUME Alive(found)' PROVE Held'
      <3>1. Held
        BY <2>2, <1>4, FoundKept
      <3>2. CASE Sealed(rpos) /\ mem[rpos].id = found
        <4>1. mem'[rpos] = mem[rpos] /\ Sealed(rpos)'
          BY <2>2, <3>2, <1>2, <1>4, FoundKept
        <4> QED
          BY <4>1, <3>2, <1>1 DEF Held
      <3>3. CASE Filling /\ found = sent /\ rpos = fhdr
        <4>1. fhdr' = rpos /\ sent' = found
          BY <3>3 DEF Progress, Filling
        <4>2. Filling' \/ (SealedIn(mem', rpos) /\ mem'[rpos].id = found)
          BY <3>3 DEF Progress
        <4> QED
          BY <4>1, <4>2, <1>1 DEF Held, Sealed
      <3> QED
        BY <3>1, <3>2, <3>3 DEF Held
    <2> QED
      BY <2>1, <2>2
  <1> QED
    BY <1>3, <1>4 DEF RingInv, Tested

\* After the length was loaded the frame that was found has been begun.
LEMMA FoundBegun ==
  ASSUME RingInv, rpc \in Testing, rpc # "length"
  PROVE  found \in 1..sent /\ rpos \in Addr /\ rpos + HDR <= M
  BY DEF RingInv, IInv, Tested, Awaited, Testing, Fits

LEMMA ReadingStep ==
  ASSUME RingInv, NEW e, NEW w, NEW n, NEW u, Writes(e, w, n, u), UNCHANGED rvars
  PROVE  Reading' /\ Copied'
  <1>1. UNCHANGED <<rpc, rpos, rid, rlen, rbytes, buf, found, early>>
    BY DEF rvars
  <1>2. CASE rpc \in {"id", "datalen", "bytes"} \cup Copying
    <2>1. found \in 1..sent /\ rpos \in Addr
      BY <1>2, FoundBegun DEF Testing, Copying
    <2>2. Reads' => Reads
      BY <2>1, <1>1, FoundKept DEF Reads
    <2>3. ASSUME Reads' PROVE mem'[rpos] = mem[rpos] /\ Sealed(rpos)'
      <3>1. Sealed(rpos) /\ mem[rpos].id = found
        BY <2>2, <2>3, <1>2 DEF RingInv, Reading
      <3>2. Alive(found)'
        BY <2>3 DEF Reads
      <3> QED
        BY <3>1, <3>2, <2>1, FoundKept
    <2>4. Reading'
      BY <2>2, <2>3, <1>1 DEF RingInv, Reading
    <2>5. Copied'
      BY <2>2, <1>1 DEF RingInv, Copied
    <2> QED
      BY <2>4, <2>5
  <1>3. CASE rpc \notin {"id", "datalen", "bytes"} \cup Copying
    BY <1>1, <1>3 DEF RingInv, Reading, Copied, Copying
  <1> QED
    BY <1>2, <1>3

LEMMA DeliveredStep ==
  ASSUME RingInv, NEW e, NEW w, NEW n, NEW u, Writes(e, w, n, u), UNCHANGED rvars
  PROVE  Delivered'
  <1>1. UNCHANGED <<rpc, last, found>>
    BY DEF rvars
  <1>2. IntactWithinLap'
    BY <1>1 DEF RingInv, Delivered, IntactWithinLap, OvertakenBy
  <1>3. ASSUME rpc = "lost" PROVE found \in 1..sent' /\ OvertakenBy(Behind(found))'
    <2>1. found \in 1..sent /\ OvertakenBy(Behind(found))
      BY <1>3 DEF RingInv, Delivered
    <2>2. /\ found \in 1..sent' /\ Behind(found) \in Int /\ e \in Nat
          /\ Behind(found)' = Behind(found) + e
      BY <2>1, FoundKept DEF Writes
    <2> QED
      BY <2>1, <2>2, SomeConstants DEF OvertakenBy
  <1> QED
    BY <1>1, <1>2, <1>3 DEF Delivered

\* The producer leaves no header open but the one it works on.
LEMMA HeadersStep ==
  ASSUME RingInv, NEW e, Effect(e), Progress
  PROVE  Headers'
  <1> SUFFICES ASSUME NEW a \in Addr, Begins(a)'
               PROVE  Sealed(a)' \/ (mem'[a].next = 0 /\ (Filled(a)' \/ Left(a)'))
    BY DEF Headers
  <1>1. CASE mem'[a] # mem[a]
    <2>1. CASE Opened(a)
      BY <2>1 DEF Opened
    <2>2. CASE a = fhdr /\ ppc = "link"
      BY <2>2 DEF Progress, Sealed, Filling
    <2> QED
      BY <1>1, <2>1, <2>2 DEF Effect
  <1>2. CASE mem'[a] = mem[a]
    <2>1. Sealed(a) \/ (mem[a].next = 0 /\ (Filled(a) \/ Left(a)))
      BY <1>2 DEF RingInv, Headers, Begins
    <2>2. CASE Sealed(a)
      BY <2>2, <1>2 DEF Sealed, SealedIn
    <2>3. CASE mem[a].next = 0 /\ Filled(a)
      BY <2>3, <1>2 DEF Filled, Progress, Sealed
    <2>4. CASE mem[a].next = 0 /\ Left(a)
      BY <2>4, <1>2 DEF Filled, Left, Progress
    <2> QED
      BY <2>1, <2>2, <2>3, <2>4
  <1> QED
    BY <1>1, <1>2

\* So it is enough to look at the headers that the step seals.
LEMMA RingStep ==
  ASSUME RingInv, IInv', NEW e, NEW w, NEW n, NEW u, Writes(e, w, n, u), UNCHANGED rvars,
         Written', \A a \in Addr : a \in w..(w + n - 1) /\ Sealed(a)' => KeptAt(a)',
         Effect(e), Progress
  PROVE  RingInv'
  <1>1. Counts'
    BY DEF RingInv, Counts, Writes
  <1>2. Kept'
    BY KeptStep DEF Kept
  <1>3. Tested' /\ Reading' /\ Copied' /\ Delivered'
    BY TestedStep, ReadingStep, DeliveredStep
  <1>4. Headers'
    BY HeadersStep
  <1> QED
    BY <1>1, <1>2, <1>3, <1>4 DEF RingInv

LEMMA InitRing == Init => RingInv
  <1> SUFFICES ASSUME Init PROVE RingInv
    OBVIOUS
  <1>1. IInv
    BY InitIInv
  <1>2. Counts
    BY DEF Init, Counts
  <1>3. Kept /\ Headers
    BY DEF Init, Kept, Headers, Begins, Sealed, SealedIn, Blank
  <1>4. Written /\ Tested /\ Reading /\ Copied
    BY DEF Init, Written, Tested, Reading, Copied, Filling, Testing, Copying
  <1>5. Delivered
    BY DEF Init, Delivered, IntactWithinLap, NoDelivery
  <1> QED
    BY <1>1, <1>2, <1>3, <1>4, <1>5 DEF RingInv

\* The memory after a header h, or n cells of payload, were stored at p.
HeaderIsAt(p, h) ==
  \A c \in Addr :
    /\ c \notin p..(p + HDR - 1) => mem'[c] = mem[c]
    /\ c = p => mem'[c] = h
    /\ c \in p..(p + HDR - 1) /\ c # p => mem'[c] = Part("header", h.id, c - p)
PayloadIsAt(p, n, id, from) ==
  \A c \in Addr :
    /\ c \notin p..(p + n - 1) => mem'[c] = mem[c]
    /\ c \in p..(p + n - 1) => mem'[c] = Part("payload", id, from + (c - p))

LEMMA HeaderCells ==
  ASSUME NEW p \in Int, NEW h, mem' = WithHeader(mem, p, h)
  PROVE  HeaderIsAt(p, h)
  <1> SUFFICES ASSUME NEW c \in Addr
               PROVE  /\ c \notin p..(p + HDR - 1) => mem'[c] = mem[c]
                      /\ c = p => mem'[c] = h
                      /\ c \in p..(p + HDR - 1) /\ c # p =>
                           mem'[c] = Part("header", h.id, c - p)
    BY DEF HeaderIsAt
  <1>1. mem'[c] = IF c \in p..(p + HDR - 1)
                    THEN IF c - p = 0 THEN h ELSE Part("header", h.id, c - p)
                    ELSE mem[c]
    BY DEF WithHeader, Stored
  <1>2. c \in Int /\ (c - p = 0 <=> c = p) /\ (c = p => c \in p..(p + HDR - 1))
    BY SomeConstants DEF Addr
  <1> QED
    BY <1>1, <1>2

LEMMA PayloadCells ==
  ASSUME NEW p \in Int, NEW n \in Int, NEW id, NEW from,
         mem' = WithPayload(mem, p, n, id, from)
  PROVE  PayloadIsAt(p, n, id, from)
  BY DEF PayloadIsAt, WithPayload, Stored

\* Of what is written only a complete header is sealed.
LEMMA PartFields ==
  ASSUME NEW kind, NEW id, NEW part
  PROVE  Part(kind, id, part).kind = kind /\ Part(kind, id, part).part = part
  BY DEF Part, Blank

LEMMA NotSealed ==
  ASSUME NEW c \in Addr, NEW id,
         \/ mem'[c] = Blank
         \/ \E j : mem'[c] = Part("payload", id, j)
         \/ \E j \in Int : j # 0 /\ mem'[c] = Part("header", id, j)
         \/ mem'[c].ok = FALSE \/ mem'[c].len = 0
  PROVE  ~Sealed(c)'
  <1>1. Blank.kind # "header"
    BY DEF Blank
  <1> QED
    BY <1>1, PartFields DEF Sealed, SealedIn

LEMMA WritesEffect ==
  ASSUME RingInv, NEW e, NEW w, NEW n, NEW u, Writes(e, w, n, u),
         \A c \in Addr : c \in w..(w + n - 1) =>
           ~Begins(c)' \/ mem'[c] = mem[c] \/ Opened(c) \/ (c = fhdr /\ ppc = "link")
  PROVE  Effect(e)
  <1>1. Top \in 0..M
    BY SomeConstants DEF Top, AfterPayload, RingInv, IInv
  <1>2. \A c \in Addr : mem'[c] # mem[c] => c \in w..(w + n - 1)
    BY DEF Writes
  <1>3. /\ e \in Nat /\ end' = end + e
        /\ sent' \in 0..MaxFrames /\ sent' >= sent /\ \A i \in 1..sent : start'[i] = start[i]
        /\ Top' \in 0..M /\ (Top' = Top + e \/ Top' = Top + e - M)
    BY DEF Writes
  <1> QED
    BY <1>1, <1>2, <1>3 DEF Effect

\* Only the first cell of a header begins one.
LEMMA PartBegins ==
  ASSUME NEW c \in Addr, NEW id,
         \/ mem'[c] = Blank
         \/ \E j : mem'[c] = Part("payload", id, j)
         \/ \E j \in Int : j # 0 /\ mem'[c] = Part("header", id, j)
  PROVE  ~Begins(c)'
  <1>1. Blank.kind # "header"
    BY DEF Blank
  <1> QED
    BY <1>1, PartFields DEF Begins

\* A header that was stored is one, and stays one where nothing else is written.
LEMMA HeaderIsHeader ==
  ASSUME NEW p \in Addr, p + HDR <= M, NEW h, HeaderIsAt(p, h), h.kind = "header", h.part = 0
  PROVE  HeaderIn(mem', p) /\ mem'[p] = h
  <1>1. mem'[p] = h
    BY DEF HeaderIsAt
  <1>2. ASSUME NEW k \in 0..(HDR - 1)
        PROVE  mem'[p + k].kind = "header" /\ mem'[p + k].part = k
    <2>1. CASE k = 0
      <3>1. p + k = p
        BY <2>1 DEF Addr
      <3> QED
        BY <2>1, <3>1, <1>1
    <2>2. CASE k # 0
      <3>1. /\ p + k \in Addr /\ p + k \in p..(p + HDR - 1) /\ p + k # p
            /\ (p + k) - p = k
        BY <2>2, SomeConstants DEF Addr
      <3>2. mem'[p + k] = Part("header", h.id, (p + k) - p)
        BY <3>1 DEF HeaderIsAt
      <3> QED
        BY <3>1, <3>2, PartFields
    <2> QED
      BY <2>1, <2>2
  <1> QED
    BY <1>1, <1>2 DEF HeaderIn

LEMMA HeaderUntouched ==
  ASSUME NEW a \in Addr, a + HDR <= M, HeaderIn(mem, a), NEW w, NEW n,
         \A c \in Addr : c \notin w..(w + n - 1) => mem'[c] = mem[c],
         \A k \in 0..(HDR - 1) : a + k \notin w..(w + n - 1)
  PROVE  HeaderIn(mem', a) /\ mem'[a] = mem[a]
  <1>1. \A k \in 0..(HDR - 1) : a + k \in Addr
    BY SomeConstants DEF Addr
  <1>2. \A k \in 0..(HDR - 1) : mem'[a + k] = mem[a + k]
    BY <1>1
  <1>3. 0 \in 0..(HDR - 1) /\ a + 0 = a
    BY SomeConstants DEF Addr
  <1> QED
    BY <1>2, <1>3 DEF HeaderIn

\* Between two frames the producer stands where there is room for a header.
LEMMA PlaceOfHeader ==
  ASSUME IInv, ppc = "idle"
  PROVE  HeaderPlace = curr /\ Distance(curr, curr) = 0
  <1>1. curr \in Addr /\ curr + HDR <= M
    BY DEF IInv, Fits
  <1>2. (curr - curr) % M = 0
    BY <1>1, SomeConstants DEF Addr
  <1> QED
    BY <1>1, <1>2, SomeConstants DEF HeaderPlace, Distance, Addr

LEMMA HeaderSent ==
  ASSUME FramesFit, RingInv, IInv', UNCHANGED rvars, NEW len \in Lens, SendHeader(len)
  PROVE  RingInv' /\ \E e \in Nat : Effect(e)
  <1>1. /\ M \in Nat /\ HDR \in Nat \ {0} /\ HDR <= M /\ MaxFrames \in Nat
        /\ len \in Nat \ {0} /\ len <= M
    BY SomeConstants, RingAssumption DEF FramesFit
  <1>2. /\ ppc = "idle" /\ curr \in Addr /\ curr + HDR <= M /\ sent \in 0..MaxFrames /\ sent < MaxFrames
        /\ end \in Int /\ start \in [1..MaxFrames -> Int] /\ size \in [1..MaxFrames -> Nat]
    BY DEF RingInv, IInv, Counts, SendHeader, Fits
  <1>3. HeaderPlace = curr /\ Distance(curr, curr) = 0
    BY <1>2, PlaceOfHeader DEF RingInv
  <1>4. /\ mem' = WithHeader(mem, curr, Header(sent + 1, len, 0, 0, FALSE))
        /\ fhdr' = curr /\ curr' = curr + HDR /\ flen' = len /\ sent' = sent + 1 /\ ppc' = "payload"
        /\ start' = [start EXCEPT ![sent + 1] = end + 0] /\ end' = end + 0 + HDR + len
        /\ size' = [size EXCEPT ![sent + 1] = len]
    BY <1>3 DEF SendHeader
  <1> DEFINE h == Header(sent + 1, len, 0, 0, FALSE)
  <1>8. HeaderIsAt(curr, h) /\ h.ok = FALSE /\ h.kind = "header" /\ h.part = 0
    <2>1. h.ok = FALSE /\ h.kind = "header" /\ h.part = 0
      BY DEF Header
    <2>2. mem' = WithHeader(mem, curr, h) /\ curr \in Int
      BY <1>2, <1>4 DEF Addr
    <2> HIDE DEF h
    <2> QED
      BY <2>1, <2>2, HeaderCells
  <1> HIDE DEF h
  <1>5. Writes(HDR + len, curr, HDR, 0)
    <2>1. /\ Top = curr /\ Claimed = 0 /\ Claimed' = HDR + len
          /\ Top' = AfterPayload(curr + HDR, len)
      BY <1>2, <1>4 DEF Top, Claimed, Filling
    <2>2. /\ Top' \in 0..M
          /\ Top' = Top + (HDR + len) \/ Top' = Top + (HDR + len) - M
      BY <2>1, <1>1, <1>2 DEF AfterPayload, Addr
    <2>3. /\ start' \in [1..MaxFrames -> Int] /\ size' \in [1..MaxFrames -> Nat]
          /\ \A i \in 1..sent : start'[i] = start[i] /\ size'[i] = size[i]
      BY <1>1, <1>2, <1>4
    <2>4. \A c \in Addr : c \notin curr..(curr + HDR - 1) => mem'[c] = mem[c]
      BY <1>8 DEF HeaderIsAt
    <2>5. end' = end + (HDR + len) /\ sent' >= sent /\ sent' \in 0..MaxFrames
      BY <1>1, <1>2, <1>4
    <2>6. /\ HDR + len \in Nat /\ curr \in Int /\ HDR \in Int /\ 0 \in Nat
          /\ 0 <= Claimed /\ HDR <= 0 + HDR /\ Top - curr = 0
          /\ Claimed' \in Nat /\ Claimed' <= Claimed + (HDR + len)
      BY <2>1, <1>1, <1>2 DEF Addr
    <2> QED
      BY <2>2, <2>3, <2>4, <2>5, <2>6 DEF Writes
  <1>6. Written'
    <2>1. start'[sent'] = end + 0 /\ size'[sent'] = flen' /\ flen' # 0 /\ sent' \in 1..MaxFrames
      BY <1>1, <1>2, <1>4
    <2>2. end' - start'[sent'] = HDR + flen'
      BY <2>1, <1>1, <1>2, <1>4
    <2>3. HeaderIn(mem', fhdr') /\ ~mem'[fhdr'].ok
      BY <1>2, <1>4, <1>8, HeaderIsHeader
    <2> QED
      BY <2>1, <2>2, <2>3, <1>4 DEF Written, Behind
  <1>7. ASSUME NEW a \in Addr, a \in curr..(curr + HDR - 1) PROVE ~Sealed(a)'
    <2>1. CASE a = curr
      BY <2>1, <1>8, NotSealed DEF HeaderIsAt
    <2>2. CASE a # curr
      <3>1. mem'[a] = Part("header", h.id, a - curr) /\ a - curr \in Int /\ a - curr # 0
        BY <2>2, <1>2, <1>7, <1>8 DEF HeaderIsAt, Addr
      <3> QED
        BY <3>1, NotSealed
    <2> QED
      BY <2>1, <2>2
  <1>9. Effect(HDR + len)
    <2>1. h.next = 0
      BY DEF h, Header
    <2>2. ASSUME NEW c \in Addr, c \in curr..(curr + HDR - 1), c # curr PROVE ~Begins(c)'
      <3>1. mem'[c] = Part("header", h.id, c - curr) /\ c - curr \in Int /\ c - curr # 0
        BY <2>2, <1>2, <1>8 DEF HeaderIsAt, Addr
      <3> QED
        BY <3>1, PartBegins
    <2>3. mem'[curr].next = 0 /\ ~mem'[curr].ok
      BY <2>1, <1>2, <1>8 DEF HeaderIsAt
    <2>4. ASSUME NEW c \in Addr, c = curr PROVE Opened(c)
      <3>1. c \in curr..(curr + HDR - 1)
        BY <2>4, <1>1, <1>2 DEF Addr
      <3>2. Filling' /\ fhdr' = c /\ mem'[c].next = 0 /\ ~mem'[c].ok
        BY <2>3, <2>4, <1>4 DEF Filling
      <3> QED
        BY <3>1, <3>2, <2>4, <1>2, <1>7 DEF Opened, Filled
    <2> QED
      BY <2>2, <2>4, <1>5, WritesEffect
  <1>10. Progress
    BY <1>2, <1>4, <1>8 DEF Progress, Filling, HeaderIsAt
  <1> QED
    BY <1>1, <1>5, <1>6, <1>7, <1>9, <1>10, RingStep

LEMMA PayloadSent ==
  ASSUME RingInv, IInv', UNCHANGED rvars, SendPayload
  PROVE  RingInv' /\ \E e \in Nat : Effect(e)
  <1> DEFINE n == IF flen > M - curr THEN M - curr ELSE flen
  <1>1. /\ M \in Nat /\ HDR \in Nat \ {0} /\ HDR <= M
        /\ curr \in 0..M /\ fhdr \in Addr /\ curr = fhdr + HDR
        /\ flen \in Nat /\ flen <= M /\ sent \in 1..MaxFrames /\ sent \in 0..MaxFrames
        /\ end \in Int /\ start \in [1..MaxFrames -> Int]
        /\ size \in [1..MaxFrames -> Nat] /\ fhdr + HDR <= M
        /\ flen # 0 /\ size[sent] = flen
        /\ ppc = "payload" /\ Behind(sent) = HDR + flen
    BY SomeConstants DEF RingInv, IInv, Counts, Written, Filling, SendPayload, Fits
  <1>2. /\ mem' = WithPayload(mem, curr, n, sent, 0)
        /\ \/ flen > M - curr /\ ppc' = "wrapped" /\ curr' = curr
           \/ ~(flen > M - curr) /\ ppc' = "link" /\ curr' = AfterPayload(curr, flen)
        /\ UNCHANGED <<fhdr, flen, sent, end, start, size>>
    BY DEF SendPayload
  <1>3. n \in Nat /\ n <= flen /\ n <= M - curr
    BY <1>1
  <1>8. PayloadIsAt(curr, n, sent, 0)
    BY <1>1, <1>2, <1>3, PayloadCells
  <1> HIDE DEF n
  <1>4. Writes(0, curr, n, flen)
    <2>1. Top = AfterPayload(curr, flen) /\ Top' = Top
      BY <1>1, <1>2 DEF Top
    <2>2. Claimed = HDR + flen /\ Claimed' = Claimed
      BY <1>1, <1>2 DEF Claimed, Filling
    <2>3. /\ Top \in 0..M /\ (Top - curr = flen \/ Top - curr = flen - M)
      BY <2>1, <1>1 DEF AfterPayload
    <2>4. \A c \in Addr : c \notin curr..(curr + n - 1) => mem'[c] = mem[c]
      BY <1>8 DEF PayloadIsAt
    <2> QED
      BY <2>1, <2>2, <2>3, <2>4, <1>1, <1>2, <1>3 DEF Writes
  <1>5. ASSUME NEW j \in 0..(n - 1)
        PROVE  mem'[curr + j] = Part("payload", sent, j) /\ Wrap(curr + j) = curr + j
    <2>1. /\ curr + j \in Addr /\ curr + j \in curr..(curr + n - 1) /\ (curr + j) - curr = j
          /\ 0 + j = j /\ curr \in Int /\ n \in Int /\ Wrap(curr + j) = curr + j
      BY <1>1, <1>3 DEF Addr, Wrap
    <2> QED
      BY <2>1, <1>8 DEF PayloadIsAt
  <1>10. Alive(sent) => HeaderIn(mem', fhdr) /\ ~mem'[fhdr].ok
    <2>1. ASSUME Alive(sent) PROVE HeaderIn(mem, fhdr) /\ ~mem[fhdr].ok
      BY <2>1, <1>1 DEF RingInv, Written, Filling
    <2>2. \A k \in 0..(HDR - 1) : fhdr + k \notin curr..(curr + n - 1)
      BY <1>1, <1>3 DEF Addr
    <2>3. \A c \in Addr : c \notin curr..(curr + n - 1) => mem'[c] = mem[c]
      BY <1>8 DEF PayloadIsAt
    <2> QED
      BY <2>1, <2>2, <2>3, <1>1, HeaderUntouched
  <1>11. Alive(sent)' <=> Alive(sent)
    BY <1>2 DEF Alive, Behind
  <1>6. Written'
    <2>1. CASE flen > M - curr
      <3>1. n = M - curr
        BY <2>1 DEF n
      <3> QED
        BY <3>1, <2>1, <1>1, <1>2, <1>5, <1>10, <1>11 DEF Written, Behind, Filling
    <2>2. CASE ~(flen > M - curr)
      <3>1. n = flen
        BY <2>2 DEF n
      <3> QED
        BY <3>1, <2>2, <1>1, <1>2, <1>5, <1>10, <1>11 DEF Written, Behind, Filling
    <2> QED
      BY <2>1, <2>2
  <1>7. ASSUME NEW a \in Addr, a \in curr..(curr + n - 1) PROVE ~Sealed(a)'
    <2>1. mem'[a] = Part("payload", sent, 0 + (a - curr))
      BY <1>7, <1>8 DEF PayloadIsAt
    <2> QED
      BY <2>1, NotSealed
  <1>9. Effect(0)
    <2>1. ASSUME NEW c \in Addr, c \in curr..(curr + n - 1) PROVE ~Begins(c)'
      <3>1. mem'[c] = Part("payload", sent, 0 + (c - curr))
        BY <2>1, <1>8 DEF PayloadIsAt
      <3> QED
        BY <3>1, PartBegins
    <2> QED
      BY <2>1, <1>4, WritesEffect
  <1>12. Progress
    BY <1>1, <1>2 DEF Progress, Filling
  <1> QED
    BY <1>4, <1>6, <1>7, <1>9, <1>12, RingStep

LEMMA WrappedSent ==
  ASSUME RingInv, IInv', UNCHANGED rvars, SendWrapped
  PROVE  RingInv' /\ \E e \in Nat : Effect(e)
  <1> DEFINE room == M - curr
             n == flen - room
  <1>1. /\ M \in Nat /\ HDR \in Nat \ {0} /\ HDR <= M
        /\ curr \in 0..M /\ fhdr \in Addr /\ curr = fhdr + HDR
        /\ flen \in Nat /\ flen <= M /\ sent \in 1..MaxFrames /\ sent \in 0..MaxFrames
        /\ end \in Int /\ start \in [1..MaxFrames -> Int]
        /\ size \in [1..MaxFrames -> Nat] /\ fhdr + HDR <= M
        /\ flen # 0 /\ size[sent] = flen
        /\ ppc = "wrapped" /\ Behind(sent) = HDR + flen /\ flen > room
    BY SomeConstants DEF RingInv, IInv, Counts, Written, Filling, SendWrapped, Fits
  <1>2. /\ mem' = WithPayload(mem, 0, n, sent, room)
        /\ ppc' = "link" /\ curr' = AfterPayload(curr, flen)
        /\ UNCHANGED <<fhdr, flen, sent, end, start, size>>
    BY DEF SendWrapped
  <1>3. /\ room \in Nat /\ n \in Nat /\ n \in Int /\ n <= flen /\ n <= curr
    BY <1>1
  <1>15. flen = room + n
    BY <1>1
  <1>14. AfterPayload(curr, flen) = n
    BY <1>1 DEF AfterPayload
  <1>4. Alive(sent) => \A j \in 0..(room - 1) : mem[curr + j] = Part("payload", sent, j)
    BY <1>1 DEF RingInv, Written
  <1>5. ASSUME NEW x \in 0..(room - 1) PROVE curr + x \in Addr
    BY <1>1, <1>5 DEF Addr
  <1>6. ASSUME NEW x \in Int, room <= x, x < flen
        PROVE  (curr + x) - M = x - room /\ x - room \in Addr /\ x - room \in 0..(0 + n - 1)
    BY <1>1, <1>6 DEF Addr
  <1>7. ASSUME NEW x \in 0..(flen - 1)
        PROVE  Wrap(curr + x) = IF x < room THEN curr + x ELSE x - room
    BY <1>1, <1>7 DEF Wrap
  <1>9. n \in 0..M
    BY <1>1, <1>3
  <1>18. room = M - curr
    OBVIOUS
  <1> HIDE DEF n, room
  <1>8. PayloadIsAt(0, n, sent, room)
    <2>1. 0 \in Int /\ n \in Int
      BY <1>3
    <2> QED
      BY <2>1, <1>2, PayloadCells
  <1>10. Writes(0, 0, n, n)
    <2>1. Top = n /\ Top' = Top
      BY <1>1, <1>2, <1>14 DEF Top
    <2>2. Claimed = HDR + flen /\ Claimed' = Claimed
      BY <1>1, <1>2 DEF Claimed, Filling
    <2>3. \A c \in Addr : c \notin 0..(0 + n - 1) => mem'[c] = mem[c]
      BY <1>8 DEF PayloadIsAt
    <2> QED
      BY <2>1, <2>2, <2>3, <1>1, <1>2, <1>3, <1>9 DEF Writes
  <1>11. ASSUME Alive(sent), NEW j \in 0..(flen - 1)
         PROVE  mem'[Wrap(curr + j)] = Part("payload", sent, j)
    <2>1. CASE j < room
      <3>1. /\ j \in 0..(room - 1) /\ curr + j \in Addr /\ Wrap(curr + j) = curr + j
            /\ curr + j \notin 0..(0 + n - 1)
        BY <2>1, <1>1, <1>3, <1>5, <1>7
      <3>2. mem'[curr + j] = mem[curr + j]
        BY <3>1, <1>10 DEF Writes
      <3> QED
        BY <3>1, <3>2, <1>4, <1>11
    <2>2. CASE ~(j < room)
      <3>1. j \in Int /\ room <= j /\ j < flen
        BY <2>2, <1>1, <1>3
      <3>2. /\ Wrap(curr + j) = j - room /\ j - room \in Addr /\ j - room \in 0..(0 + n - 1)
            /\ room + ((j - room) - 0) = j
        BY <2>2, <3>1, <1>3, <1>6, <1>7
      <3>3. mem'[j - room] = Part("payload", sent, room + ((j - room) - 0))
        BY <3>2, <1>8 DEF PayloadIsAt
      <3> QED
        BY <3>2, <3>3
    <2> QED
      BY <2>1, <2>2
  <1>17. Alive(sent) => HeaderIn(mem', fhdr) /\ ~mem'[fhdr].ok
    <2> SUFFICES ASSUME Alive(sent) PROVE HeaderIn(mem', fhdr) /\ ~mem'[fhdr].ok
      OBVIOUS
    <2>1. HeaderIn(mem, fhdr) /\ ~mem[fhdr].ok
      BY <1>1 DEF RingInv, Written, Filling
    <2>2. n <= fhdr
      <3>1. (HDR + flen) + HDR <= M
        BY <1>1 DEF Alive
      <3> QED
        BY <3>1, <1>1, <1>3, <1>15, <1>18 DEF Addr
    <2>3. \A k \in 0..(HDR - 1) : fhdr + k \notin 0..(0 + n - 1)
      BY <2>2, <1>1, <1>3 DEF Addr
    <2>4. \A c \in Addr : c \notin 0..(0 + n - 1) => mem'[c] = mem[c]
      BY <1>8 DEF PayloadIsAt
    <2> QED
      BY <2>1, <2>3, <2>4, <1>1, HeaderUntouched
  <1>12. Written'
    <2>1. Behind(sent)' = Behind(sent) /\ (Alive(sent)' <=> Alive(sent)) /\ sent' = sent /\ flen' = flen
      BY <1>2 DEF Behind, Alive
    <2> QED
      BY <2>1, <1>1, <1>2, <1>11, <1>17 DEF Written, Filling
  <1>13. ASSUME NEW a \in Addr, a \in 0..(0 + n - 1) PROVE ~Sealed(a)'
    <2>1. mem'[a] = Part("payload", sent, room + (a - 0))
      BY <1>8, <1>13 DEF PayloadIsAt
    <2> QED
      BY <2>1, NotSealed
  <1>16. Effect(0)
    <2>1. ASSUME NEW c \in Addr, c \in 0..(0 + n - 1) PROVE ~Begins(c)'
      <3>1. mem'[c] = Part("payload", sent, room + (c - 0))
        BY <2>1, <1>8 DEF PayloadIsAt
      <3> QED
        BY <3>1, PartBegins
    <2> QED
      BY <2>1, <1>10, WritesEffect
  <1>19. Progress
    BY <1>1, <1>2 DEF Progress, Filling
  <1> QED
    BY <1>10, <1>12, <1>13, <1>16, <1>19, RingStep

LEMMA ModBelow ==
  ASSUME NEW x \in Int, x + M \in 0..(M - 1)
  PROVE  x % M = x + M
  <1> DEFINE q == x \div M
             r == x % M
  <1>1. M \in Nat \ {0}
    BY SomeConstants
  <1>2. q \in Int /\ r \in 0..(M - 1) /\ x = (M * q) + r
    BY <1>1, SMT
  <1> HIDE DEF q, r
  <1>3. M * (q + 1) = (x + M) - r
    BY <1>1, <1>2, SMT
  <1>4. q + 1 = 0
    <2>1. ASSUME q + 1 >= 1 PROVE FALSE
      <3>1. M * (q + 1) >= M
        BY <1>1, <1>2, <2>1, SMT
      <3> QED
        BY <3>1, <1>1, <1>2, <1>3
    <2>2. ASSUME q + 1 <= -1 PROVE FALSE
      <3>1. M * (q + 1) <= -M
        BY <1>1, <1>2, <2>2, SMT
      <3> QED
        BY <3>1, <1>1, <1>2, <1>3
    <2> QED
      BY <2>1, <2>2, <1>2
  <1>5. M * (q + 1) = 0
    BY <1>1, <1>4
  <1> QED
    BY <1>1, <1>2, <1>3, <1>5 DEF r

\* The way from p up to q.
LEMMA DistanceIs ==
  ASSUME NEW p \in 0..M, NEW q \in Addr
  PROVE  /\ Distance(p, q) \in Nat /\ Distance(p, q) < M
         /\ q = p + Distance(p, q) \/ q = p + Distance(p, q) - M
  <1>1. M \in Nat \ {0}
    BY SomeConstants
  <1>2. CASE q >= p
    <2>1. q - p \in 0..(M - 1)
      BY <1>1, <1>2 DEF Addr
    <2>2. (q - p) % M = q - p
      BY <1>1, <2>1
    <2> QED
      BY <1>1, <2>1, <2>2 DEF Distance, Addr
  <1>3. CASE q < p
    <2>1. (q - p) + M \in 0..(M - 1)
      BY <1>1, <1>3 DEF Addr
    <2>2. (q - p) % M = (q - p) + M
      <3> DEFINE x == q - p
      <3>1. x \in Int /\ x + M \in 0..(M - 1)
        BY <2>1 DEF Addr
      <3> HIDE DEF x
      <3>2. x % M = x + M
        BY <3>1, ModBelow
      <3> QED
        BY <3>2 DEF x
    <2> QED
      BY <1>1, <2>1, <2>2 DEF Distance, Addr
  <1> QED
    BY <1>1, <1>2, <1>3 DEF Addr

LEMMA LinkSent ==
  ASSUME RingInv, IInv', UNCHANGED rvars, SendLink
  PROVE  RingInv' /\ \E e \in Nat : Effect(e)
  <1>1. /\ M \in Nat /\ HDR \in Nat \ {0} /\ HDR <= M
        /\ curr \in 0..M /\ fhdr \in Addr /\ fhdr \in Int /\ fhdr + HDR <= M
        /\ curr = AfterPayload(fhdr + HDR, flen)
        /\ flen \in Nat /\ flen <= M /\ sent \in 1..MaxFrames /\ sent \in 0..MaxFrames
        /\ end \in Int /\ start \in [1..MaxFrames -> Int]
        /\ size \in [1..MaxFrames -> Nat] /\ flen # 0 /\ size[sent] = flen
        /\ ppc = "link" /\ Behind(sent) = HDR + flen
    <2>1. ppc = "link" /\ Filling
      BY DEF SendLink, Filling
    <2>2. /\ fhdr \in Addr /\ fhdr + HDR <= M /\ curr \in 0..M /\ flen \in Nat /\ flen <= M
          /\ end \in Int /\ start \in [1..MaxFrames -> Int] /\ size \in [1..MaxFrames -> Nat]
      BY DEF RingInv, IInv, Counts, Fits
    <2>3. /\ curr = AfterPayload(fhdr + HDR, flen) /\ sent \in 1..MaxFrames
          /\ flen # 0 /\ size[sent] = flen /\ Behind(sent) = HDR + flen
      BY <2>1 DEF RingInv, Written
    <2> QED
      BY <2>1, <2>2, <2>3, SomeConstants DEF Addr
  <1>2. PICK h : /\ mem' = WithHeader(mem, fhdr, h)
                 /\ h.kind = "header" /\ h.part = 0 /\ h.ok /\ h.len = flen /\ h.id = sent
    <2>1. mem' = WithHeader(mem, fhdr, Header(sent, flen, curr', tracks, TRUE))
      BY DEF SendLink
    <2> QED
      BY <2>1 DEF Header
  <1>3. curr' \in Addr
    BY <1>1, NextPlaceFits DEF SendLink, Fits
  <1>4. PICK e \in Nat : /\ curr' = curr + e \/ curr' = curr + e - M
                        /\ end' = end + e
    <2>1. end' = end + Distance(curr, curr')
      BY DEF SendLink
    <2> QED
      BY <2>1, <1>1, <1>3, DistanceIs
  <1>5. ppc' = "commit" /\ UNCHANGED <<fhdr, flen, sent, start, size>>
    BY DEF SendLink
  <1>10. HeaderIsAt(fhdr, h)
    BY <1>1, <1>2, HeaderCells
  <1>6. Writes(e, fhdr, HDR, HDR + flen)
    <2>1. Top = curr /\ Top' = curr'
      BY <1>1, <1>5 DEF Top
    <2>2. Claimed = HDR + flen /\ Claimed' = 0
      BY <1>1, <1>5 DEF Claimed, Filling
    <2>3. curr - fhdr = HDR + flen \/ curr - fhdr = HDR + flen - M
      BY <1>1 DEF AfterPayload
    <2>4. \A c \in Addr : c \notin fhdr..(fhdr + HDR - 1) => mem'[c] = mem[c]
      BY <1>1, <1>10 DEF HeaderIsAt
    <2>5. curr' \in 0..M
      BY <1>1, <1>3 DEF Addr
    <2> QED
      BY <2>1, <2>2, <2>3, <2>4, <2>5, <1>1, <1>4, <1>5 DEF Writes
  <1>7. Written'
    BY <1>5 DEF Written, Filling
  <1>8. KeptAt(fhdr)'
    <2>1. mem'[fhdr] = h
      BY <1>1, <1>10 DEF HeaderIsAt
    <2>2. Behind(sent)' = (HDR + flen) + e
      <3>1. start[sent] \in Int
        BY <1>1
      <3> QED
        <4>1. PICK x \in Int : x = start[sent]
          BY <3>1
        <4>2. Behind(sent) = end - x /\ Behind(sent)' = end' - x
          BY <4>1, <1>5 DEF Behind
        <4>3. end - x = HDR + flen /\ end' = end + e
          BY <4>2, <1>1, <1>4
        <4> QED
          BY <4>2, <4>3, <1>1
    <2>3. ASSUME ((HDR + flen) + e) + HDR <= M
          PROVE  Intact(mem', fhdr, sent, flen, (HDR + flen) + e, curr', 0)
      <3>1. Alive(sent)
        BY <2>3, <1>1, <1>4 DEF Alive
      <3>2. \A j \in 0..(flen - 1) : mem[Wrap((fhdr + HDR) + j)] = Part("payload", sent, j)
        BY <3>1, <1>1 DEF RingInv, Written
      <3>3. ASSUME NEW j \in 0..(flen - 1)
            PROVE  mem'[Wrap((fhdr + HDR) + j)] = mem[Wrap((fhdr + HDR) + j)]
        <4>1. /\ Wrap((fhdr + HDR) + j) \in Addr
              /\ Wrap((fhdr + HDR) + j) \notin fhdr..(fhdr + HDR - 1)
          BY <2>3, <1>1, <1>4 DEF Wrap, Addr
        <4> QED
          BY <4>1, <1>6 DEF Writes
      <3>4. HeaderIn(mem', fhdr)
        BY <1>1, <1>2, <1>10, HeaderIsHeader
      <3>5. curr' - fhdr = (HDR + flen) + e \/ curr' - fhdr = ((HDR + flen) + e) - M
        <4>1. curr = (fhdr + HDR) + flen \/ curr = ((fhdr + HDR) + flen) - M
          BY <1>1 DEF AfterPayload
        <4>2. curr' \in 0..M
          BY <1>1, <1>3 DEF Addr
        <4> DEFINE d == HDR + flen
        <4>3. /\ d \in Int /\ e \in Nat /\ d + e + HDR <= M
              /\ curr - fhdr = d \/ curr - fhdr = d - M
          BY <4>1, <2>3, <1>1, <1>4
        <4> HIDE DEF d
        <4>4. curr' - fhdr = d + e \/ curr' - fhdr = (d + e) - M
          <5>1. /\ curr \in Int /\ curr' \in Int /\ 0 <= curr' /\ curr' <= M /\ HDR \in Nat /\ M \in Nat
                /\ fhdr \in Int /\ 0 <= fhdr /\ fhdr < M
            BY <4>2, <1>1 DEF Addr
          <5>2. d \in Int /\ e \in Int /\ d + e + HDR <= M
            BY <4>3
          <5>3. CASE curr' = curr + e
            BY <5>1, <5>2, <5>3, <4>3
          <5>4. CASE curr' = curr + e - M
            <6>1. CASE curr - fhdr = d
              BY <5>1, <5>2, <5>4, <6>1
            <6>2. CASE curr - fhdr = d - M
              BY <5>1, <5>2, <5>4, <6>2
            <6> QED
              BY <6>1, <6>2, <4>3
          <5>5. curr' = curr + e \/ curr' = curr + e - M
            BY <1>4
          <5> QED
            BY <5>3, <5>4, <5>5
        <4> QED
          BY <4>4 DEF d
      <3>6. HDR + flen + 0 <= (HDR + flen) + e
        BY <1>1, <1>4
      <3>7. WholeAt(mem', fhdr, sent, flen)
        BY <3>2, <3>3, <3>4 DEF WholeAt
      <3> QED
        BY <3>5, <3>6, <3>7, <1>1 DEF Intact, Fits
    <2>4. Top' = curr' /\ Claimed' = 0
      BY <1>5 DEF Top, Claimed, Filling
    <2>5. /\ mem'[fhdr].id \in 1..sent' /\ mem'[fhdr].len \in 1..M
          /\ mem'[fhdr].len = size'[mem'[fhdr].id]
      BY <2>1, <1>1, <1>2, <1>5
    <2> QED
      BY <2>1, <2>2, <2>3, <2>4, <2>5, <1>2, <1>5 DEF KeptAt, Alive
  <1>9. ASSUME NEW a \in Addr, a \in fhdr..(fhdr + HDR - 1), Sealed(a)' PROVE KeptAt(a)'
    <2>1. CASE a = fhdr
      BY <2>1, <1>5, <1>8
    <2>2. CASE a # fhdr
      <3>1. /\ mem'[a] = Part("header", h.id, a - fhdr) /\ a - fhdr \in Int
            /\ a - fhdr # 0
        BY <2>2, <1>1, <1>9, <1>10 DEF HeaderIsAt, Addr
      <3> QED
        BY <3>1, <1>9, NotSealed
    <2> QED
      BY <2>1, <2>2
  <1>11. Effect(e)
    <2>1. ASSUME NEW c \in Addr, c \in fhdr..(fhdr + HDR - 1), c # fhdr PROVE ~Begins(c)'
      <3>1. /\ mem'[c] = Part("header", h.id, c - fhdr) /\ c - fhdr \in Int
            /\ c - fhdr # 0
        BY <2>1, <1>1, <1>10 DEF HeaderIsAt, Addr
      <3> QED
        BY <3>1, PartBegins
    <2> QED
      BY <2>1, <1>1, <1>6, WritesEffect
  <1>12. Progress
    <2>1. mem'[fhdr] = h
      BY <1>1, <1>10 DEF HeaderIsAt
    <2>2. SealedIn(mem', fhdr) /\ mem'[fhdr].id = sent
      BY <2>1, <1>1, <1>2 DEF SealedIn
    <2> QED
      BY <2>2, <1>1, <1>5 DEF Progress, Filling
  <1> QED
    BY <1>6, <1>7, <1>9, <1>11, <1>12, RingStep

LEMMA RestSent ==
  ASSUME RingInv, IInv', UNCHANGED rvars, SendCommit \/ SendClear \/ SendMark
  PROVE  RingInv' /\ \E e \in Nat : Effect(e)
  <1>1. /\ M \in Nat /\ HDR \in Nat \ {0} /\ HDR <= M
        /\ curr \in Addr /\ curr \in Int /\ sent \in 0..MaxFrames
        /\ end \in Int /\ start \in [1..MaxFrames -> Int] /\ size \in [1..MaxFrames -> Nat]
    <2>1. ppc \in {"commit", "clear", "mark"}
      BY DEF SendCommit, SendClear, SendMark
    <2> QED
      BY <2>1, SomeConstants DEF RingInv, IInv, Counts, Fits, Addr
  <1>2. /\ ppc \in {"commit", "clear", "mark"} /\ ppc' \in {"clear", "mark", "idle"}
        /\ ppc = "mark" => ppc' = "idle"
        /\ UNCHANGED <<curr, fhdr, flen, sent, end, start, size>>
    BY DEF SendCommit, SendClear, SendMark
  <1>3. mem' = mem \/ \E h : /\ HeaderIsAt(curr, h) /\ h.len = 0 /\ h.next = 0
                             /\ ppc \in {"clear", "mark"} /\ ppc' \in {"mark", "idle"}
                             /\ h.ok => ppc' = "idle"
    <2>1. CASE SendCommit
      BY <2>1 DEF SendCommit
    <2>2. CASE SendClear \/ SendMark
      <3>1. PICK ok \in BOOLEAN : /\ mem' = WithHeader(mem, curr, EmptyHeader(ok))
                                  /\ ppc \in {"clear", "mark"} /\ ppc' \in {"mark", "idle"}
                                  /\ ok => ppc' = "idle"
        BY <2>2 DEF SendClear, SendMark
      <3>2. PICK h : /\ mem' = WithHeader(mem, curr, h)
                     /\ h.len = 0 /\ h.next = 0 /\ (h.ok => ppc' = "idle")
        BY <3>1 DEF EmptyHeader, Header
      <3> QED
        BY <3>1, <3>2, <1>1, HeaderCells
    <2> QED
      BY <2>1, <2>2
  <1>4. \A c \in Addr : c \notin curr..(curr + HDR - 1) => mem'[c] = mem[c]
    BY <1>3 DEF HeaderIsAt
  <1>5. Writes(0, curr, HDR, 0)
    <2>1. Top = curr /\ Top' = Top /\ Claimed = 0 /\ Claimed' = 0
      BY <1>2 DEF Top, Claimed, Filling
    <2> QED
      BY <2>1, <1>1, <1>2, <1>4 DEF Writes, Addr
  <1>6. Written'
    BY <1>2 DEF Written, Filling
  <1>7. ASSUME NEW c \in Addr, c \in curr..(curr + HDR - 1)
        PROVE  mem'[c] = mem[c] \/ (~Begins(c)' /\ ~Sealed(c)') \/ Opened(c)
    <2>1. CASE mem' = mem
      BY <2>1
    <2>2. CASE mem' # mem
      <3>1. PICK h : /\ HeaderIsAt(curr, h) /\ h.len = 0 /\ h.next = 0
                     /\ ppc \in {"clear", "mark"} /\ ppc' \in {"mark", "idle"}
                     /\ h.ok => ppc' = "idle"
        BY <2>2, <1>3
      <3>2. CASE c = curr
        <4>1. mem'[c] = h /\ curr' = c
          BY <3>1, <3>2, <1>2 DEF HeaderIsAt
        <4>2. ~Sealed(c)'
          BY <4>1, <3>1, NotSealed
        <4>3. Left(c)'
          BY <4>1, <3>1 DEF Left
        <4> QED
          BY <4>1, <4>2, <4>3, <3>1, <3>2 DEF Opened
      <3>3. CASE c # curr
        <4>1. mem'[c] = Part("header", h.id, c - curr) /\ c - curr \in Int /\ c - curr # 0
          BY <3>1, <3>3, <1>1, <1>7 DEF HeaderIsAt, Addr
        <4> QED
          BY <4>1, PartBegins, NotSealed
      <3> QED
        BY <3>2, <3>3
    <2> QED
      BY <2>1, <2>2
  <1>8. ASSUME NEW a \in Addr, a \in curr..(curr + HDR - 1), Sealed(a)' PROVE KeptAt(a)'
    <2>1. mem'[a] = mem[a] /\ Sealed(a)
      BY <1>7, <1>8 DEF Opened, Sealed, SealedIn
    <2>2. CASE mem' = mem
      <3>1. KeptAt(a)
        BY <2>1 DEF RingInv, Kept
      <3> QED
        BY <3>1, <2>2, <1>2 DEF KeptAt, Alive, Behind, Top, Claimed, Filling
    <2>3. CASE mem' # mem
      <3>1. PICK h : HeaderIsAt(curr, h) /\ h.len = 0
        BY <2>3, <1>3
      <3>2. CASE a = curr
        <4>1. mem'[a] = h
          BY <3>1, <3>2 DEF HeaderIsAt
        <4> QED
          BY <4>1, <3>1, <1>8, NotSealed
      <3>3. CASE a # curr
        <4>1. mem'[a] = Part("header", h.id, a - curr) /\ a - curr \in Int /\ a - curr # 0
          BY <3>1, <3>3, <1>1, <1>8 DEF HeaderIsAt, Addr
        <4> QED
          BY <4>1, <1>8, NotSealed
      <3> QED
        BY <3>2, <3>3
    <2> QED
      BY <2>2, <2>3
  <1>9. Effect(0)
    BY <1>5, <1>7, WritesEffect
  <1>10. Progress
    BY <1>2 DEF Progress, Filling
  <1> QED
    BY <1>5, <1>6, <1>8, <1>9, <1>10, RingStep

LEMMA ProducerRing ==
  ASSUME FramesFit, RingInv, IInv', Producer
  PROVE  RingInv' /\ \E e \in Nat : Effect(e)
  <1>1. UNCHANGED rvars
    BY DEF Producer, SendHeader, SendPayload, SendWrapped, SendLink, SendCommit, SendClear, SendMark
  <1> QED
    BY <1>1, HeaderSent, PayloadSent, WrappedSent, LinkSent, RestSent DEF Producer
-----------------------------------------------------------------------------
(* What the consumer reads *)

\* A header is there as long as the frame that was found is less than a lap behind.
LEMMA HeldHeader ==
  ASSUME RingInv, Held, found \in 1..sent, Alive(found), rpos \in Addr
  PROVE  /\ HeaderIn(mem, rpos)
         /\ mem[rpos].ok => Sealed(rpos) /\ mem[rpos].id = found
  <1>1. CASE Sealed(rpos) /\ mem[rpos].id = found
    <2>1. Intact(mem, rpos, mem[rpos].id, mem[rpos].len, Behind(mem[rpos].id), Top, Claimed)
      BY <1>1 DEF RingInv, Kept, KeptAt
    <2> QED
      BY <1>1, <2>1 DEF Intact, WholeAt
  <1>2. CASE Filling /\ found = sent /\ rpos = fhdr
    BY <1>2 DEF RingInv, Written
  <1> QED
    BY <1>1, <1>2 DEF Held

LEMMA HeaderBegins ==
  ASSUME NEW p \in Addr, HeaderAt(p)
  PROVE  Begins(p) /\ HeaderIn(mem, p)
  <1>1. 0 \in 0..(HDR - 1) /\ p + 0 = p
    BY SomeConstants DEF Addr
  <1> QED
    BY <1>1 DEF HeaderAt, HeaderIn, Begins

\* A header that ringBufferReadFrom accepts is sealed, or the empty one.
LEMMA ValidSealed ==
  ASSUME RingInv, NEW p \in Addr, HeaderAt(p), mem[p].ok
  PROVE  Sealed(p) \/ (mem[p].len = 0 /\ ppc = "idle" /\ p = curr)
  <1>1. Begins(p)
    BY HeaderBegins
  <1> QED
    BY <1>1 DEF RingInv, Headers, Filled, Left

\* The cells of the payload that were copied are those of the frame.
LEMMA CellsCopied ==
  ASSUME NEW a \in Addr, NEW i, NEW len \in Nat, a + HDR <= M, WholeAt(mem, a, i, len),
         NEW x \in Int, NEW j \in Int, 0 <= x, x < len,
         \/ j < M /\ j = (a + HDR) + x
         \/ j >= 0 /\ j = ((a + HDR) + x) - M
  PROVE  mem[j] = Part("payload", i, x)
  <1>1. x \in 0..(len - 1)
    OBVIOUS
  <1>2. Wrap((a + HDR) + x) = j
    BY SomeConstants DEF Wrap, Addr
  <1> QED
    BY <1>1, <1>2 DEF WholeAt

\* What the consumer holds of a frame that is less than a lap behind.
LEMMA ReadingFrame ==
  ASSUME RingInv, rpc \in Copying, Reads
  PROVE  /\ rpos \in Addr /\ rpos + HDR <= M
         /\ rbytes \in Nat /\ WholeAt(mem, rpos, found, rbytes)
  <1>1. rpos \in Addr /\ rpos + HDR <= M /\ rbytes \in Nat
    BY SomeConstants DEF RingInv, IInv, Fits, Copying
  <1>2. Sealed(rpos) /\ mem[rpos].id = found /\ rbytes = mem[rpos].len /\ Alive(found)
    BY DEF RingInv, Reading, Reads
  <1>3. Intact(mem, rpos, found, rbytes, Behind(found), Top, Claimed)
    BY <1>1, <1>2 DEF RingInv, Kept, KeptAt
  <1> QED
    BY <1>1, <1>3 DEF Intact

LEMMA CellsAreCells ==
  ASSUME MemFits(mem), NEW p \in Nat, NEW n \in Nat, p + n <= M
  PROVE  /\ Cells(p, n) \in Seq(Cell) /\ Len(Cells(p, n)) = n
         /\ \A k \in 1..n : Cells(p, n)[k] = mem[(p + k) - 1]
  <1>1. ASSUME NEW k \in 1..n PROVE mem[p + k - 1] \in Cell
    <2>1. p + k - 1 \in Addr
      BY SomeConstants DEF Addr
    <2> QED
      BY <2>1 DEF MemFits
  <1>2. Cells(p, n) \in [1..n -> Cell]
    BY <1>1 DEF Cells
  <1>3. Cells(p, n) \in Seq(Cell) /\ Len(Cells(p, n)) = n
    BY <1>2
  <1> QED
    BY <1>3 DEF Cells

LEMMA PayloadRead ==
  ASSUME RingInv, UNCHANGED pvars, ReadPayload
  PROVE  Copied'
  <1> DEFINE room == M - (rpos + HDR)
             n == IF rbytes > room THEN room ELSE rbytes
  <1>1. /\ M \in Nat /\ HDR \in Nat \ {0} /\ MemFits(mem) /\ rpos \in Addr /\ rpos + HDR <= M
        /\ rbytes \in Nat /\ rbytes <= M
    BY SomeConstants DEF RingInv, IInv, ReadPayload, Fits
  <1>2. /\ buf' = Cells(rpos + HDR, n)
        /\ \/ rbytes > room /\ n = room /\ rpc' = "wrapped"
           \/ ~(rbytes > room) /\ n = rbytes /\ rpc' = "finish"
        /\ UNCHANGED <<rpos, rbytes, found, early>>
    BY DEF ReadPayload
  <1>3. /\ n \in Nat /\ n <= rbytes /\ n <= room /\ room \in Nat
        /\ rpos + HDR \in Nat /\ (rpos + HDR) + n <= M
    BY <1>1 DEF Addr
  <1> HIDE DEF n
  <1>4. /\ buf' \in Seq(Cell) /\ Len(buf') = n
        /\ \A k \in 1..n : buf'[k] = mem[((rpos + HDR) + k) - 1]
    BY <1>1, <1>2, <1>3, CellsAreCells
  <1>5. ASSUME Reads, NEW k \in 1..n PROVE buf'[k] = Part("payload", found, k - 1)
    <2>1. rbytes \in Nat /\ WholeAt(mem, rpos, found, rbytes)
      BY <1>5, ReadingFrame DEF ReadPayload, Copying
    <2>2. /\ k - 1 \in Int /\ 0 <= k - 1 /\ k - 1 < rbytes
          /\ ((rpos + HDR) + k) - 1 \in Int
          /\ ((rpos + HDR) + k) - 1 = (rpos + HDR) + (k - 1)
          /\ ((rpos + HDR) + k) - 1 < M
      BY <1>1, <1>3 DEF Addr
    <2>3. mem[((rpos + HDR) + k) - 1] = Part("payload", found, k - 1)
      <3> DEFINE j == ((rpos + HDR) + k) - 1
                 x == k - 1
      <3>1. x \in Int /\ 0 <= x /\ x < rbytes /\ j \in Int /\ j < M /\ j = (rpos + HDR) + x
        BY <2>2
      <3> HIDE DEF j, x
      <3>2. mem[j] = Part("payload", found, x)
        BY <2>1, <3>1, <1>1, CellsCopied
      <3> QED
        BY <3>2 DEF j, x
    <2> QED
      BY <2>3, <1>4
  <1>6. Reads' <=> Reads
    BY <1>2 DEF Reads, Alive, Behind, pvars
  <1> QED
    BY <1>1, <1>2, <1>4, <1>5, <1>6 DEF Copied

LEMMA WrappedRead ==
  ASSUME RingInv, UNCHANGED pvars, ReadWrapped
  PROVE  Copied'
  <1> DEFINE room == M - (rpos + HDR)
             n == rbytes - room
  <1>1. /\ M \in Nat /\ HDR \in Nat \ {0} /\ MemFits(mem) /\ rpos \in Addr /\ rpos + HDR <= M
        /\ rbytes \in Nat /\ rbytes <= M /\ rbytes > room /\ Len(buf) = room
        /\ buf \in Seq(Cell)
    BY SomeConstants DEF RingInv, IInv, Copied, ReadWrapped, Fits
  <1>2. Reads => \A i \in 1..room : buf[i] = Part("payload", found, i - 1)
    BY <1>1 DEF RingInv, Copied, ReadWrapped
  <1>3. buf' = buf \o Cells(0, n) /\ rpc' = "finish" /\ UNCHANGED <<rpos, rbytes, found, early>>
    BY <1>1 DEF ReadWrapped
  <1>4. n \in Nat /\ 0 + n <= M /\ room \in Nat /\ rbytes = room + n
    BY <1>1 DEF Addr
  <1>5. room = M - (rpos + HDR)
    OBVIOUS
  <1> HIDE DEF n, room
  <1>6. /\ Cells(0, n) \in Seq(Cell) /\ Len(Cells(0, n)) = n
        /\ \A k \in 1..n : Cells(0, n)[k] = mem[(0 + k) - 1]
    BY <1>1, <1>4, CellsAreCells
  <1>7. buf' \in Seq(Cell) /\ Len(buf') = rbytes
    <2>1. buf' \in Seq(Cell) /\ Len(buf') = Len(buf) + Len(Cells(0, n))
      BY <1>1, <1>3, <1>6, ConcatProperties
    <2> QED
      BY <2>1, <1>1, <1>4, <1>6
  <1>8. ASSUME Reads, NEW k \in 1..rbytes PROVE buf'[k] = Part("payload", found, k - 1)
    <2>1. CASE k <= room
      <3>1. k \in 1..room /\ buf'[k] = buf[k]
        BY <2>1, <1>1, <1>3, <1>4, <1>6
      <3> QED
        BY <3>1, <1>2, <1>8
    <2>2. CASE ~(k <= room)
      <3>1. k - room \in 1..n /\ buf'[k] = Cells(0, n)[k - room]
        BY <2>2, <1>1, <1>3, <1>4, <1>6
      <3>2. Cells(0, n)[k - room] = mem[(0 + (k - room)) - 1]
        BY <3>1, <1>6
      <3>3. rbytes \in Nat /\ WholeAt(mem, rpos, found, rbytes)
        BY <1>8, ReadingFrame DEF ReadWrapped, Copying
      <3>4. /\ k - 1 \in Int /\ 0 <= k - 1 /\ k - 1 < rbytes
            /\ (0 + (k - room)) - 1 \in Int /\ 0 <= (0 + (k - room)) - 1
            /\ (0 + (k - room)) - 1 = ((rpos + HDR) + (k - 1)) - M
            /\ (rpos + HDR) + (k - 1) >= M
        BY <2>2, <3>1, <1>1, <1>4, <1>5 DEF Addr
      <3>5. mem[(0 + (k - room)) - 1] = Part("payload", found, k - 1)
        BY <3>3, <3>4, <1>1, CellsCopied
      <3> QED
        BY <3>1, <3>2, <3>5
    <2> QED
      BY <2>1, <2>2
  <1>9. Reads' <=> Reads
    BY <1>3 DEF Reads, Alive, Behind, pvars
  <1> QED
    BY <1>1, <1>3, <1>7, <1>8, <1>9 DEF Copied

\* ReadCheck: a header that passes is that of a frame, or the empty one.
LEMMA CheckRead ==
  ASSUME RingInv, UNCHANGED pvars, ReadCheck
  PROVE  Tested' /\ Reading' /\ Copied'
  <1>1. /\ UNCHANGED <<mem, ppc, curr, sent, fhdr, end, start, rpos, buf>> /\ rpos \in Addr
        /\ rpc' \in {"length", "resync"} /\ (rpc' = "length" => Valid(rpos))
        /\ Valid(rpos) => found' = IF Empty(rpos) THEN sent + 1 ELSE mem[rpos].id
    BY DEF ReadCheck, pvars, RingInv, IInv, Fits
  <1>2. Reading' /\ Copied'
    BY <1>1 DEF RingInv, Reading, Copied, Copying
  <1>3. CASE rpc' = "length" /\ Empty(rpos)
    <2>1. HeaderAt(rpos) /\ mem[rpos].ok /\ mem[rpos].len = 0 /\ found' = sent + 1
      BY <1>1, <1>3 DEF Valid, Empty
    <2>2. HeaderIn(mem, rpos) /\ ~Sealed(rpos)
      BY <2>1, <1>1, HeaderBegins DEF Sealed, SealedIn
    <2>3. ppc = "idle" /\ rpos = curr
      BY <2>1, <2>2, <1>1, ValidSealed
    <2>4. Awaited'
      BY <2>1, <2>2, <2>3, <1>1, <1>3 DEF Awaited
    <2> QED
      BY <2>4, <1>2 DEF Tested
  <1>4. CASE rpc' = "length" /\ ~Empty(rpos)
    <2>1. HeaderAt(rpos) /\ mem[rpos].ok /\ mem[rpos].len # 0 /\ found' = mem[rpos].id
      BY <1>1, <1>4 DEF Valid, Empty
    <2>2. Sealed(rpos) /\ mem[rpos].id \in 1..sent
      BY <2>1, <1>1, ValidSealed DEF RingInv, Kept, KeptAt
    <2>3. found' \in 1..sent' /\ Held'
      BY <2>1, <2>2, <1>1 DEF Held, Sealed
    <2> QED
      BY <2>3, <1>2 DEF Tested
  <1>5. CASE rpc' # "length"
    BY <1>1, <1>2, <1>5 DEF Tested, Testing
  <1> QED
    BY <1>3, <1>4, <1>5

\* ReadLength: a length that is not zero is that of a frame that has begun.
LEMMA LengthRead ==
  ASSUME RingInv, UNCHANGED pvars, ReadLength
  PROVE  Tested' /\ Reading' /\ Copied'
  <1>1. /\ UNCHANGED <<mem, ppc, curr, sent, fhdr, end, start, rpos, buf>> /\ rpos \in Addr
        /\ rpc = "length" /\ rpc \in Testing /\ HeaderAt(rpos)
    BY DEF ReadLength, pvars, RingInv, IInv, Fits, Testing
  <1>2. CASE Empty(rpos)
    BY <1>1, <1>2 DEF ReadLength, RingInv, Tested, Reading, Copied, Testing, Copying
  <1>3. CASE ~Empty(rpos)
    <2>1. rpc' = "id" /\ found' = found /\ early' = ~mem[rpos].ok
      BY <1>3 DEF ReadLength
    <2>2. found \in 1..sent /\ (Alive(found) => Held)
      BY <1>1, <1>3 DEF RingInv, Tested, Awaited, Empty
    <2>3. (Alive(found)' <=> Alive(found)) /\ (Held' <=> Held)
      BY <1>1, <2>1 DEF Alive, Behind, Held, Sealed, Filling
    <2>4. Tested'
      BY <2>2, <2>3, <2>1, <1>1 DEF Tested
    <2>5. Reads' => Sealed(rpos)' /\ mem'[rpos'].id = found'
      <3>1. ASSUME Reads' PROVE Alive(found) /\ mem[rpos].ok
        BY <3>1, <2>1, <2>3 DEF Reads
      <3>2. ASSUME Reads' PROVE Sealed(rpos) /\ mem[rpos].id = found
        BY <3>1, <3>2, <2>2, <1>1, HeldHeader
      <3> QED
        BY <3>2, <2>1, <1>1 DEF Sealed
    <2> QED
      BY <2>1, <2>4, <2>5, <1>1 DEF RingInv, Reading, Copied, Copying
  <1> QED
    BY <1>2, <1>3

\* The loads of the other fields.
LEMMA FieldsRead ==
  ASSUME RingInv, UNCHANGED pvars, ReadId \/ ReadDataLen \/ ReadBytes
  PROVE  Tested' /\ Reading' /\ Copied'
  <1>1. /\ UNCHANGED <<mem, ppc, curr, sent, fhdr, end, start, rpos, buf, found, early>>
        /\ rpc \in {"id", "datalen", "bytes"} /\ rpc' \in {"datalen", "bytes", "payload"}
    BY DEF ReadId, ReadDataLen, ReadBytes, pvars
  <1>2. (Alive(found)' <=> Alive(found)) /\ (Held' <=> Held) /\ (Reads' <=> Reads)
    BY <1>1 DEF Alive, Behind, Held, Sealed, Filling, Reads
  <1>3. Sealed(rpos)' <=> Sealed(rpos)
    BY <1>1 DEF Sealed
  <1>4. Tested'
    BY <1>1, <1>2 DEF RingInv, Tested, Awaited, Testing
  <1>5. Reads => Sealed(rpos) /\ mem[rpos].id = found
    BY <1>1 DEF RingInv, Reading
  <1>6. Reading'
    <2>1. CASE ReadId
      BY <2>1, <1>1, <1>2, <1>3, <1>5 DEF Reading, ReadId, Copying
    <2>2. CASE ReadDataLen
      BY <2>2, <1>1, <1>2, <1>3, <1>5 DEF RingInv, Reading, ReadDataLen, Copying
    <2>3. CASE ReadBytes
      BY <2>3, <1>1, <1>2, <1>3, <1>5 DEF RingInv, Reading, ReadBytes, Copying
    <2> QED
      BY <2>1, <2>2, <2>3
  <1>7. Copied'
    BY <1>1 DEF RingInv, Copied
  <1> QED
    BY <1>4, <1>6, <1>7

\* Copying changes nothing of what was loaded.
LEMMA StillReading ==
  ASSUME RingInv, UNCHANGED pvars, UNCHANGED <<rpos, rid, rlen, rbytes, found, early>>,
         rpc' = rpc \/ {rpc, rpc'} \subseteq Copying
  PROVE  Tested' /\ Reading'
  <1>1. UNCHANGED <<mem, ppc, curr, sent, fhdr, end, start>>
    BY DEF pvars
  <1>2. (Alive(found)' <=> Alive(found)) /\ (Held' <=> Held) /\ (Reads' <=> Reads)
    BY <1>1 DEF Alive, Behind, Held, Sealed, Filling, Reads
  <1>3. Sealed(rpos)' <=> Sealed(rpos)
    BY <1>1 DEF Sealed
  <1>4. Tested'
    BY <1>1, <1>2 DEF RingInv, Tested, Awaited, Testing, Copying
  <1>5. Reading'
    BY <1>1, <1>2, <1>3 DEF RingInv, Reading, Copying
  <1> QED
    BY <1>4, <1>5

\* Lost: as long as the frame that was found is less than a lap behind, its header is there.
LEMMA LostOvertaken ==
  ASSUME RingInv, UNCHANGED pvars, Lost
  PROVE  Tested' /\ Reading' /\ Copied' /\ Delivered'
  <1>1. /\ rpc' = "lost" /\ buf' = <<>> /\ UNCHANGED <<sent, end, start, found, last>>
        /\ rpos \in Addr /\ ~HeaderIn(mem, rpos) /\ rpc \in Testing
    BY DEF Lost, pvars, RingInv, IInv, Fits, HeaderAt, HeaderIn, Testing
  <1>2. found \in 1..sent /\ ~(Alive(found) /\ Held)
    BY <1>1, HeldHeader DEF RingInv, Tested, Awaited
  <1>3. OvertakenBy(Behind(found))
    <2>1. ~Alive(found)
      BY <1>1, <1>2 DEF RingInv, Tested, Awaited
    <2>2. Behind(found) \in Int
      BY <1>2, SomeConstants DEF RingInv, IInv, Counts, Behind
    <2> QED
      BY <2>1, <2>2, SomeConstants DEF Alive, OvertakenBy
  <1>4. Tested' /\ Reading' /\ Copied'
    BY <1>1 DEF Tested, Reading, Copied, Testing, Copying
  <1>5. Delivered'
    BY <1>1, <1>2, <1>3 DEF RingInv, Delivered, IntactWithinLap, OvertakenBy, Behind
  <1> QED
    BY <1>4, <1>5

\* ReadFinish: the frame that is handed out is whole, unless it was overtaken or its length
\* loaded too early.
LEMMA FrameHandedOut ==
  ASSUME RingInv, ReadFinish
  PROVE  Tested' /\ Reading' /\ Copied' /\ Delivered'
  <1>1. /\ rpc = "finish" /\ rpc' = "idle" /\ buf' = <<>>
        /\ last' = [id |-> rid, intact |-> Whole, early |-> early, behind |-> Behind(found)]
    BY DEF ReadFinish, Behind
  <1>2. found \in 1..sent /\ rpos \in Addr
    BY <1>1, FoundBegun DEF Testing
  <1>3. Behind(found) \in Int
    BY <1>2, SomeConstants DEF RingInv, IInv, Counts, Behind
  <1>4. ASSUME Reads PROVE Whole
    <2>1. /\ Sealed(rpos) /\ mem[rpos].id = found /\ rid = found
          /\ rlen = mem[rpos].len /\ rbytes = mem[rpos].len
      BY <1>1, <1>4 DEF RingInv, Reading, Copying
    <2>2. mem[rpos].len = size[found]
      BY <1>2, <2>1 DEF RingInv, Kept, KeptAt
    <2>3. Len(buf) = rbytes /\ \A i \in 1..Len(buf) : buf[i] = Part("payload", found, i - 1)
      BY <1>1, <1>4 DEF RingInv, Copied
    <2> QED
      BY <2>1, <2>2, <2>3 DEF Whole
  <1>5. early \/ OvertakenBy(Behind(found)) \/ Reads
    BY <1>3, SomeConstants DEF Reads, Alive, OvertakenBy
  <1>6. Delivered'
    BY <1>1, <1>4, <1>5 DEF Delivered, IntactWithinLap, OvertakenBy
  <1>7. Tested' /\ Reading' /\ Copied'
    BY <1>1 DEF Tested, Reading, Copied, Testing, Copying
  <1> QED
    BY <1>6, <1>7

LEMMA ConsumerRing ==
  ASSUME RingInv, IInv', Consumer
  PROVE  RingInv'
  <1>1. UNCHANGED pvars
    BY ReaderWritesNothing
  <1>2. Counts' /\ Written' /\ Headers'
    BY <1>1 DEF RingInv, Counts, Written, Filling, Behind, Alive, Headers, Begins, Sealed, Filled,
                Left, pvars
  <1>3. Kept'
    BY <1>1 DEF RingInv, Kept, Sealed, KeptAt, Alive, Behind, Top, Claimed, Filling, pvars
  <1>4. ASSUME rpc' # "lost", last' = last PROVE Delivered'
    BY <1>4 DEF RingInv, Delivered, IntactWithinLap, OvertakenBy
  <1>5. Tested' /\ Reading' /\ Copied' /\ Delivered'
    <2>1. CASE CreateConsumer \/ ReadResync
      <3>1. rpc' = "idle" /\ UNCHANGED <<buf, last>>
        BY <2>1 DEF CreateConsumer, ReadResync
      <3> QED
        BY <3>1, <1>4 DEF RingInv, Tested, Reading, Copied, Testing, Copying
    <2>2. CASE ReadCheck \/ ReadLength \/ ReadId \/ ReadDataLen \/ ReadBytes
      <3>1. rpc' # "lost" /\ last' = last
        BY <2>2 DEF ReadCheck, ReadLength, ReadId, ReadDataLen, ReadBytes
      <3> QED
        BY <2>2, <3>1, <1>1, <1>4, CheckRead, LengthRead, FieldsRead
    <2>3. CASE ReadPayload \/ ReadWrapped
      <3>1. /\ UNCHANGED <<rpos, rid, rlen, rbytes, found, early, last>>
            /\ {rpc, rpc'} \subseteq Copying /\ rpc' # "lost"
        BY <2>3 DEF ReadPayload, ReadWrapped, Copying
      <3> QED
        BY <2>3, <3>1, <1>1, <1>4, StillReading, PayloadRead, WrappedRead
    <2>4. CASE ReadFinish \/ Lost
      BY <2>4, <1>1, FrameHandedOut, LostOvertaken
    <2> QED
      BY <2>1, <2>2, <2>3, <2>4 DEF Consumer
  <1> QED
    BY <1>2, <1>3, <1>5 DEF RingInv

LEMMA StepRing ==
  ASSUME FramesFit, RingInv, [Next]_vars
  PROVE  RingInv'
  <1>1. IInv'
    BY StepIInv DEF RingInv
  <1>2. CASE UNCHANGED vars
    <2>1. UNCHANGED pvars /\ UNCHANGED rvars
      BY <1>2 DEF vars
    <2>2. Counts' /\ Written' /\ Headers'
      BY <2>1 DEF RingInv, Counts, Written, Filling, Behind, Alive, Headers, Begins, Sealed, Filled,
                  Left, pvars
    <2>3. Kept'
      BY <2>1 DEF RingInv, Kept, Sealed, KeptAt, Alive, Behind, Top, Claimed, Filling, pvars
    <2>4. Tested' /\ Reading'
      <3>1. UNCHANGED <<rpc, rpos, rid, rlen, rbytes, found, early>>
        BY <2>1 DEF rvars
      <3> QED
        BY <2>1, <3>1, StillReading
    <2>5. Copied' /\ Delivered'
      BY <2>1 DEF RingInv, Copied, Reads, Alive, Behind, Delivered, IntactWithinLap, OvertakenBy,
                  pvars, rvars
    <2> QED
      BY <1>1, <2>2, <2>3, <2>4, <2>5 DEF RingInv
  <1> QED
    BY <1>1, <1>2, ProducerRing, ConsumerRing DEF Next

LEMMA RingAlways == FramesFit => (Spec => []RingInv)
  <1> SUFFICES ASSUME FramesFit PROVE Spec => []RingInv
    OBVIOUS
  <1>1. RingInv /\ [Next]_vars => RingInv'
    BY StepRing
  <1> QED
    BY InitRing, <1>1, PTL DEF Spec

\* A consumer that is less than a lap behind the producer gets the frame that was sent,
\* although nothing is locked, if the header was complete when it loaded the length:
\* whatever ringBufferSendTo overwrites between the loads of ringBufferReadFrom, it
\* overwrites no cell of a frame that young.
THEOREM IntactTheorem == FramesFit => (Spec => []IntactWithinLap)
  <1> SUFFICES ASSUME FramesFit PROVE Spec => []IntactWithinLap
    OBVIOUS
  <1>1. RingInv => IntactWithinLap
    BY DEF RingInv, Delivered
  <1> QED
    BY RingAlways, <1>1, PTL

\* Only a consumer that was overtaken since it tested a header loads fields from it that
\* ringBufferSendTo has overwritten.
THEOREM WildTheorem == FramesFit => (Spec => []WildOnlyIfOvertaken)
  <1> SUFFICES ASSUME FramesFit PROVE Spec => []WildOnlyIfOvertaken
    OBVIOUS
  <1>1. RingInv => WildOnlyIfOvertaken
    BY DEF RingInv, Delivered, WildOnlyIfOvertaken, Behind
  <1> QED
    BY RingAlways, <1>1, PTL
-----------------------------------------------------------------------------
(* The order of the frames *)

\* A frame fits into the memory with its header: its payload does not reach round to it.
FrameAndHeaderFit == \A len \in Lens : HDR + len <= M

\* The newest frame that is complete, which u32CommitId names or is about to; the cells of
\* the payload that are claimed and not yet written.
Committed == IF ppc \in {"payload", "wrapped", "link", "commit"} THEN sent - 1 ELSE sent
Unwritten == IF ppc = "payload" THEN flen ELSE IF ppc = "wrapped" THEN flen - (M - curr) ELSE 0

\* A frame whose beginning is d cells below top began at a, in this lap or in one of the
\* two before: of an older one nothing is said.
Begun(a, d, top) ==
  d > M + M \/ top - a = d \/ top - a = d - M \/ top - a = d - M - M

\* The frames begin one after the other.
Starts == \A i \in 1..sent : start[i] < end /\ \A j \in 1..sent : i < j => start[i] < start[j]

\* A sealed header is where its frame began, and one that it links to is not older.
OrderedAt(a) ==
  /\ mem[a].id <= Committed \/ (ppc = "commit" /\ a = fhdr)
  /\ Begun(a, Behind(mem[a].id), Top)
  /\ Sealed(mem[a].next) =>
       mem[mem[a].next].id >= mem[a].id \/ (ppc \in {"commit", "clear"} /\ a = fhdr)
Ordered == \A a \in Addr : Sealed(a) => OrderedAt(a)

\* What the producer has in hand, and that u32CommitId leads to no older frame.
Newest ==
  /\ Filling => HDR + flen <= M
  /\ ppc \in {"commit", "clear"} => mem[fhdr].next = curr /\ mem[fhdr].id = sent
  /\ Sealed(commit) => mem[commit].id >= Committed

\* At the beginning of the ring, where incomplete headers lead, is no frame of an earlier
\* lap: whoever passes it writes over it.
Recent == Sealed(0) => Behind(mem[0].id) <= M + Unwritten

\* Where the consumer stands, and what it reads, is no older than what it got last.
Looking == {"idle", "resync", "length", "id"}
Fetching == {"datalen", "bytes", "payload", "wrapped", "finish"}
Forward ==
  /\ last.id \in Nat /\ (~raced => last.id <= Committed)
  /\ rpc \in Looking /\ ~raced /\ Sealed(rpos) => mem[rpos].id >= last.id \/ InGap(rpos)
  /\ rpc \in Fetching /\ ~raced =>
       /\ rid \in 1..Committed /\ last.id <= rid
       /\ Begun(rpos, Behind(rid), Top)
       /\ Sealed(rpos) => mem[rpos].id >= rid
BackInv == Starts /\ Ordered /\ Newest /\ Recent /\ Forward

LEMMA FrameFits == FrameAndHeaderFit => FramesFit
  <1>1. \A len \in Lens : len \in Nat
    BY RingAssumption
  <1> QED
    BY <1>1, SomeConstants DEF FramesFit, FrameAndHeaderFit

LEMMA SomeTypes ==
  ASSUME RingInv
  PROVE  /\ M \in Nat \ {0} /\ HDR \in Nat \ {0} /\ HDR <= M /\ MaxFrames \in Nat /\ 0 \in Addr
         /\ sent \in 0..MaxFrames /\ sent \in Int /\ flen \in Nat /\ flen <= M /\ curr \in 0..M
         /\ fhdr \in Addr /\ end \in Int /\ Committed \in Int
         /\ \A i \in 1..sent : start[i] \in Int /\ Behind(i) \in Int /\ i \in Int
         /\ \A a \in Addr : mem[a].next \in Addr
         /\ \A a \in Addr : Sealed(a) => mem[a].id \in 1..sent /\ mem[a].id \in Int
  <1>1. /\ M \in Nat \ {0} /\ HDR \in Nat \ {0} /\ HDR <= M /\ MaxFrames \in Nat /\ 0 \in Addr
    BY SomeConstants DEF Addr
  <1>2. /\ sent \in 0..MaxFrames /\ flen \in Nat /\ flen <= M /\ curr \in 0..M /\ fhdr \in Addr
        /\ end \in Int /\ start \in [1..MaxFrames -> Int]
    BY DEF RingInv, IInv, Fits, Counts
  <1>3. \A i \in 1..sent : i \in 1..MaxFrames /\ i \in Int
    BY <1>1, <1>2
  <1>4. \A i \in 1..sent : start[i] \in Int /\ Behind(i) \in Int /\ i \in Int
    BY <1>2, <1>3 DEF Behind
  <1>5. \A a \in Addr : mem[a].next \in Addr
    BY DEF RingInv, IInv, MemFits, Fits
  <1>6. \A a \in Addr : Sealed(a) => mem[a].id \in 1..sent /\ mem[a].id \in Int
    BY <1>2 DEF RingInv, Kept, KeptAt
  <1>7. sent \in Int /\ Committed \in Int
    BY <1>1, <1>2 DEF Committed
  <1> QED
    BY <1>1, <1>2, <1>4, <1>5, <1>6, <1>7

\* Where a frame began does not change, and the producer walks up the ring.
LEMMA BegunKept ==
  ASSUME RingInv, NEW e, Effect(e), NEW a \in Addr, NEW i \in 1..sent,
         Begun(a, Behind(i), Top)
  PROVE  Begun(a, end' - start'[i], Top')
  <1> DEFINE d == Behind(i)
             top == Top
             new == Top'
  <1>1. /\ M \in Nat \ {0} /\ d \in Int /\ e \in Nat
        /\ end' - start'[i] = d + e /\ a \in Int /\ 0 <= a /\ a < M
    <2>1. start'[i] = start[i] /\ end' = end + e /\ e \in Nat
      BY DEF Effect
    <2>2. start[i] \in Int /\ end \in Int /\ M \in Nat \ {0} /\ a \in Int /\ 0 <= a /\ a < M
      BY SomeTypes DEF Addr
    <2> QED
      BY <2>1, <2>2 DEF Behind
  <1>2. /\ top \in Int /\ new \in Int /\ 0 <= new /\ new <= M
        /\ (new = top + e \/ new = top + e - M)
    BY SomeConstants DEF Effect
  <1>3. d > M + M \/ top - a = d \/ top - a = d - M \/ top - a = d - M - M
    BY DEF Begun
  <1> HIDE DEF d, top, new
  <1>4. \/ d + e > M + M
        \/ new - a = d + e \/ new - a = (d + e) - M \/ new - a = (d + e) - M - M
    <2>1. CASE new = top + e
      BY <2>1, <1>1, <1>2, <1>3
    <2>2. CASE new = top + e - M
      <3>1. CASE d > M + M
        BY <3>1, <1>1
      <3>2. CASE top - a = d
        BY <3>2, <2>2, <1>1, <1>2
      <3>3. CASE top - a = d - M
        BY <3>3, <2>2, <1>1, <1>2
      <3>4. CASE top - a = d - M - M
        BY <3>4, <2>2, <1>1, <1>2
      <3> QED
        BY <3>1, <3>2, <3>3, <3>4, <1>3
    <2> QED
      BY <2>1, <2>2, <1>2
  <1>5. Begun(a, d + e, new)
    BY <1>4 DEF Begun
  <1> QED
    BY <1>1, <1>5 DEF new

\* A header that is sealed after a step of the producer was there before, but for the one
\* that SendLink seals.
LEMMA SealedBefore ==
  ASSUME NEW e, Effect(e), NEW c \in Addr, Sealed(c)', ppc # "link" \/ c # fhdr
  PROVE  mem'[c] = mem[c] /\ Sealed(c)
  <1>1. Begins(c)'
    BY DEF Sealed, SealedIn, Begins
  <1>2. mem'[c] = mem[c]
    BY <1>1 DEF Effect, Opened
  <1> QED
    BY <1>2 DEF Sealed, SealedIn

\* What the steps do that neither seal a frame nor change what u32CommitId promises.
Quiet ==
  /\ ppc \in {"idle", "payload", "wrapped", "mark"}
  /\ ppc' \in {"idle", "payload", "wrapped", "link"}
  /\ Committed' >= Committed /\ Committed' \in Int
  /\ UNCHANGED commit

LEMMA QuietOrdered ==
  ASSUME RingInv, BackInv, NEW e, Effect(e), Quiet
  PROVE  Ordered'
  <1> SUFFICES ASSUME NEW a \in Addr, Sealed(a)' PROVE OrderedAt(a)'
    BY DEF Ordered
  <1>1. mem'[a] = mem[a] /\ Sealed(a) /\ ppc # "link"
    BY SealedBefore DEF Quiet
  <1>2. mem[a].id \in 1..sent /\ mem[a].id \in Int /\ mem[a].next \in Addr /\ Committed \in Int
    BY <1>1, SomeTypes
  <1>3. /\ mem[a].id <= Committed
        /\ Begun(a, Behind(mem[a].id), Top)
        /\ Sealed(mem[a].next) => mem[mem[a].next].id >= mem[a].id
    BY <1>1 DEF BackInv, Ordered, OrderedAt, Quiet
  <1>4. Begun(a, Behind(mem[a].id), Top)'
    BY <1>1, <1>2, <1>3, BegunKept DEF Behind
  <1>5. mem'[a].id <= Committed'
    BY <1>1, <1>2, <1>3 DEF Quiet
  <1>6. ASSUME Sealed(mem[a].next)' PROVE mem'[mem'[a].next].id >= mem'[a].id
    <2>1. PICK q \in Addr : q = mem[a].next /\ mem'[a].next = q
      BY <1>1, <1>2
    <2>2. Sealed(q)'
      BY <1>6, <2>1 DEF Sealed
    <2>3. Sealed(q) /\ mem'[q] = mem[q]
      BY <1>1, <2>2, SealedBefore
    <2> QED
      BY <2>1, <2>3, <1>1, <1>3
  <1> QED
    BY <1>4, <1>5, <1>6 DEF OrderedAt

\* The consumer's part, whatever the producer does.
LEMMA ForwardKept ==
  ASSUME RingInv, BackInv, NEW e, Effect(e), UNCHANGED rvars,
         Committed' >= Committed, Committed' \in Int,
         ppc = "link" => mem'[fhdr].id = sent,
         \A c \in Addr : InGap(c) /\ Sealed(c) /\ Sealed(c)' => InGap(c)' \/ mem[c].id >= Committed
  PROVE  Forward'
  <1>1. UNCHANGED <<rpc, rpos, rid, last, raced>>
    BY DEF rvars
  <1>2. last.id \in Nat /\ (~raced => last.id <= Committed) /\ Committed \in Int /\ Committed <= sent
        /\ sent \in Int /\ sent' >= sent /\ sent' \in Int
    <2>1. sent' \in 0..MaxFrames /\ sent' >= sent
      BY DEF Effect
    <2> QED
      BY <2>1, SomeTypes DEF BackInv, Forward, Committed
  <1>3. last'.id \in Nat /\ (~raced' => last'.id <= Committed')
    BY <1>1, <1>2
  <1>4. ASSUME NEW c \in Addr, Sealed(c)'
        PROVE  \/ mem'[c] = mem[c] /\ Sealed(c)
               \/ mem'[c].id = sent
    BY <1>4, SealedBefore
  <1>5. ASSUME rpc \in Fetching, ~raced
        PROVE  /\ rid \in 1..Committed' /\ last.id <= rid
               /\ Begun(rpos, end' - start'[rid], Top')
               /\ SealedIn(mem', rpos) => mem'[rpos].id >= rid
    <2>1. rpos \in Addr
      BY <1>5 DEF RingInv, IInv, Fits, Fetching
    <2>2. /\ rid \in 1..Committed /\ last.id <= rid
          /\ Begun(rpos, Behind(rid), Top)
          /\ Sealed(rpos) => mem[rpos].id >= rid
      BY <1>5 DEF BackInv, Forward
    <2>3. rid \in 1..sent /\ rid \in 1..Committed'
      BY <2>2, <1>2
    <2>4. Begun(rpos, end' - start'[rid], Top')
      BY <2>1, <2>2, <2>3, BegunKept
    <2>5. ASSUME SealedIn(mem', rpos) PROVE mem'[rpos].id >= rid
      <3>1. (mem'[rpos] = mem[rpos] /\ Sealed(rpos)) \/ mem'[rpos].id = sent
        BY <2>1, <2>5, <1>1, <1>4 DEF Sealed
      <3> QED
        BY <3>1, <2>2, <2>3, <1>2
    <2> QED
      BY <2>2, <2>3, <2>4, <2>5
  <1>6. ASSUME rpc \in Looking, ~raced, SealedIn(mem', rpos)
        PROVE  mem'[rpos].id >= last.id \/ InGap(rpos)'
    <2>1. rpos \in Addr /\ ((mem'[rpos] = mem[rpos] /\ Sealed(rpos)) \/ mem'[rpos].id = sent)
      <3>1. rpos \in Addr
        BY <1>6 DEF RingInv, IInv, Fits, Looking
      <3> QED
        BY <3>1, <1>1, <1>4, <1>6 DEF Sealed
    <2>2. CASE mem'[rpos].id = sent
      BY <2>2, <1>2, <1>6
    <2>3. CASE mem'[rpos] = mem[rpos] /\ Sealed(rpos)
      <3>1. mem[rpos].id \in Int
        BY <2>1, <2>3, SomeTypes
      <3>2. mem[rpos].id >= last.id \/ InGap(rpos)
        BY <1>6, <2>3 DEF BackInv, Forward
      <3>3. InGap(rpos) => InGap(rpos)' \/ mem[rpos].id >= Committed
        BY <2>1, <2>3, <1>1, <1>6 DEF InGap, Sealed
      <3> QED
        BY <3>1, <3>2, <3>3, <2>3, <1>2, <1>6
    <2> QED
      BY <2>1, <2>2, <2>3
  <1> QED
    BY <1>1, <1>3, <1>5, <1>6 DEF Forward, Sealed, Behind

\* Steps that begin no frame.
LEMMA StartsKept ==
  ASSUME RingInv, BackInv, NEW e, Effect(e), sent' = sent
  PROVE  Starts'
  <1>1. /\ \A i \in 1..sent : start'[i] = start[i] /\ start[i] \in Int /\ start[i] < end
        /\ end \in Int /\ e \in Nat /\ end' = end + e
    BY SomeTypes DEF Effect, BackInv, Starts
  <1>2. \A i \in 1..sent : start'[i] < end'
    BY <1>1
  <1>3. \A i, j \in 1..sent : i < j => start'[i] < start'[j]
    BY <1>1 DEF BackInv, Starts
  <1> QED
    BY <1>2, <1>3 DEF Starts

\* A step that claims nothing and writes no payload.
LEMMA RecentKept ==
  ASSUME RingInv, BackInv, NEW e, Effect(e), ppc # "link", end' = end,
         Unwritten = 0, Unwritten' = 0
  PROVE  Recent'
  <1>1. ASSUME Sealed(0)' PROVE end' - start'[mem'[0].id] <= M + 0
    <2>1. mem'[0] = mem[0] /\ Sealed(0) /\ 0 \in Addr
      BY <1>1, SealedBefore, SomeTypes
    <2>2. start'[mem[0].id] = start[mem[0].id]
      BY <2>1, SomeTypes DEF Effect
    <2> QED
      BY <2>1, <2>2 DEF BackInv, Recent, Behind
  <1> QED
    BY <1>1 DEF Recent, Behind

\* SendHeader: the header is filled in, and no longer an empty one.
LEMMA HeaderBack ==
  ASSUME FrameAndHeaderFit, RingInv, BackInv, UNCHANGED rvars, NEW e, Effect(e),
         NEW len \in Lens, SendHeader(len)
  PROVE  BackInv'
  <1>1. /\ M \in Nat \ {0} /\ HDR \in Nat \ {0} /\ len \in Nat \ {0} /\ HDR + len <= M
        /\ sent \in Int /\ sent \in 0..MaxFrames /\ end \in Int /\ MaxFrames \in Nat
        /\ start \in [1..MaxFrames -> Int]
    BY SomeTypes, RingAssumption DEF FrameAndHeaderFit, RingInv, Counts
  <1>2. /\ ppc = "idle" /\ curr \in Addr /\ curr \in Int /\ 0 <= curr /\ curr + HDR <= M
    BY DEF RingInv, IInv, SendHeader, Fits, Addr
  <1>3. HeaderPlace = curr /\ Distance(curr, curr) = 0
    BY <1>2, PlaceOfHeader DEF RingInv
  <1>4. /\ mem' = WithHeader(mem, curr, Header(sent + 1, len, 0, 0, FALSE))
        /\ fhdr' = curr /\ curr' = curr + HDR /\ flen' = len /\ sent' = sent + 1 /\ ppc' = "payload"
        /\ start' = [start EXCEPT ![sent + 1] = end + 0] /\ end' = end + 0 + HDR + len
        /\ commit' = commit /\ sent < MaxFrames
    BY <1>3 DEF SendHeader
  <1>5. ~SealedIn(mem', curr)
    <2> DEFINE h == Header(sent + 1, len, 0, 0, FALSE)
    <2>1. h.ok = FALSE
      BY DEF Header
    <2>2. HeaderIsAt(curr, h)
      BY <1>2, <1>4, HeaderCells
    <2> HIDE DEF h
    <2> QED
      BY <2>1, <2>2, <1>2 DEF HeaderIsAt, SealedIn
  <1>6. Committed = sent /\ Committed' = sent /\ Unwritten = 0 /\ Unwritten' = len /\ Filling'
    BY <1>1, <1>2, <1>4 DEF Committed, Unwritten, Filling
  <1>7. Starts'
    <2>1. \A i \in 1..sent : start'[i] = start[i] /\ start[i] \in Int /\ start[i] < end
      BY SomeTypes DEF Effect, BackInv, Starts
    <2>2. start'[sent + 1] = end /\ end < end'
      BY <1>1, <1>4
    <2>3. \A i \in 1..(sent + 1) : i \in 1..sent \/ i = sent + 1
      BY <1>1
    <2>4. \A i, j \in 1..sent : i < j => start'[i] < start'[j]
      BY <2>1 DEF BackInv, Starts
    <2>5. \A i \in 1..(sent + 1) : start'[i] < end' /\ start'[i] <= end
      BY <2>1, <2>2, <2>3, <1>1, <1>4
    <2>6. ASSUME NEW i \in 1..(sent + 1), NEW j \in 1..(sent + 1), i < j
          PROVE  start'[i] < start'[j]
      <3>1. i \in 1..sent
        BY <2>6, <1>1
      <3>2. CASE j = sent + 1
        BY <3>1, <3>2, <2>1, <2>2
      <3>3. CASE j \in 1..sent
        BY <3>1, <3>3, <2>4, <2>6
      <3> QED
        BY <3>2, <3>3, <2>3
    <2> QED
      BY <2>5, <2>6, <1>4 DEF Starts
  <1>9. Ordered'
    BY <1>1, <1>2, <1>4, <1>6, QuietOrdered DEF Quiet
  <1>10. Newest'
    <2>1. HDR + flen' <= M
      BY <1>1, <1>4
    <2>2. ASSUME SealedIn(mem', commit) PROVE mem'[commit].id >= sent
      <3>1. commit \in Addr /\ Sealed(commit)'
        BY <2>2, <1>4 DEF RingInv, IInv, Fits, Sealed
      <3>2. mem'[commit] = mem[commit] /\ Sealed(commit)
        BY <2>2, <1>2, <1>4, <3>1, SealedBefore, Zenon
      <3> QED
        BY <3>2, <1>6 DEF BackInv, Newest
    <2> QED
      BY <2>1, <2>2, <1>4, <1>6 DEF Newest, Sealed
  <1>11. Recent'
    <2>1. ASSUME SealedIn(mem', 0) PROVE end' - start'[mem'[0].id] <= M + len
      <3>1. mem'[0] = mem[0] /\ Sealed(0) /\ 0 \in Addr
        <4>1. 0 \in Addr /\ Sealed(0)'
          BY <2>1, SomeTypes DEF Sealed
        <4> QED
          BY <4>1, <1>2, SealedBefore
      <3>2. curr # 0
        BY <2>1, <1>5
      <3>3. /\ mem[0].id \in 1..sent /\ Behind(mem[0].id) \in Int
            /\ start'[mem[0].id] = start[mem[0].id] /\ start[mem[0].id] \in Int
        BY <3>1, SomeTypes DEF Effect
      <3>4. Begun(0, Behind(mem[0].id), curr) /\ Behind(mem[0].id) <= M
        <4>1. Top = curr
          BY <1>2 DEF Top
        <4> QED
          BY <4>1, <3>1, <3>3, <1>1, <1>6 DEF BackInv, Ordered, OrderedAt, Recent
      <3>5. Behind(mem[0].id) = curr
        BY <3>2, <3>3, <3>4, <1>1, <1>2 DEF Begun
      <3>6. end' - start'[mem[0].id] = Behind(mem[0].id) + HDR + len
        <4>1. end' = end + HDR + len
          BY <1>1, <1>4
        <4>2. PICK x \in Int : x = start[mem[0].id] /\ x = start'[mem[0].id]
          BY <3>3
        <4>3. end' - x = (end - x) + HDR + len
          BY <4>1, <1>1
        <4> QED
          BY <4>2, <4>3 DEF Behind
      <3> QED
        BY <3>1, <3>5, <3>6, <1>1, <1>2
    <2> QED
      BY <2>1, <1>6 DEF Recent, Sealed, Behind
  <1>12. Forward'
    BY <1>1, <1>2, <1>6, ForwardKept DEF InGap
  <1> QED
    BY <1>7, <1>9, <1>10, <1>11, <1>12 DEF BackInv

\* SendPayload: at the beginning of the ring nothing older is left when it goes round.
LEMMA PayloadBack ==
  ASSUME RingInv, BackInv, UNCHANGED rvars, NEW e, Effect(e), SendPayload
  PROVE  BackInv'
  <1>1. /\ M \in Nat \ {0} /\ HDR \in Nat \ {0} /\ curr \in Int /\ HDR <= curr /\ curr <= M
        /\ sent \in Int /\ sent \in 0..MaxFrames /\ end \in Int /\ flen \in Nat \ {0} /\ flen <= M
        /\ ppc = "payload" /\ Filling
    <2>1. ppc = "payload" /\ Filling
      BY DEF SendPayload, Filling
    <2>2. curr = fhdr + HDR /\ flen # 0
      BY <2>1 DEF RingInv, Written
    <2> QED
      BY <2>1, <2>2, SomeTypes DEF Addr
  <1>2. /\ \/ flen > M - curr /\ ppc' = "wrapped" /\ curr' = curr
           \/ ~(flen > M - curr) /\ ppc' = "link" /\ curr' = AfterPayload(curr, flen)
        /\ UNCHANGED <<fhdr, flen, sent, end, start, commit>>
    BY DEF SendPayload
  <1>3. Filling' /\ ppc' \in {"wrapped", "link"}
    BY <1>2 DEF Filling
  <1>4. /\ Committed = sent - 1 /\ Committed' = sent - 1 /\ Unwritten = flen
        /\ Unwritten' = IF flen > M - curr THEN flen - (M - curr) ELSE 0
    BY <1>1, <1>2 DEF Committed, Unwritten
  <1>5. Starts'
    BY <1>2, StartsKept
  <1>7. Ordered'
    BY <1>1, <1>2, <1>3, <1>4, QuietOrdered DEF Quiet
  <1>8. Newest'
    <2>1. ASSUME SealedIn(mem', commit) PROVE mem'[commit].id >= sent - 1
      <3>1. commit \in Addr /\ Sealed(commit)'
        BY <2>1, <1>2 DEF RingInv, IInv, Fits, Sealed
      <3>2. mem'[commit] = mem[commit] /\ Sealed(commit)
        BY <2>1, <1>1, <1>2, <3>1, SealedBefore, Zenon
      <3> QED
        BY <3>2, <1>4 DEF BackInv, Newest
    <2> QED
      BY <2>1, <1>1, <1>2, <1>3, <1>4 DEF BackInv, Newest, Sealed
  <1>9. Recent'
    <2>1. ASSUME SealedIn(mem', 0)
          PROVE end' - start'[mem'[0].id] <= M + IF flen > M - curr THEN flen - (M - curr) ELSE 0
      <3>1. mem'[0] = mem[0] /\ Sealed(0) /\ 0 \in Addr
        <4>1. 0 \in Addr /\ Sealed(0)'
          BY <2>1, SomeTypes DEF Sealed
        <4> QED
          BY <4>1, <1>1, SealedBefore
      <3>2. Behind(mem[0].id) \in Int
        BY <3>1, SomeTypes
      <3>3. Begun(0, Behind(mem[0].id), AfterPayload(curr, flen)) /\ Behind(mem[0].id) <= M + flen
        <4>1. Top = AfterPayload(curr, flen)
          BY <1>1 DEF Top
        <4> QED
          BY <4>1, <3>1, <1>4 DEF BackInv, Ordered, OrderedAt, Recent
      <3>4. PICK d \in Int : d = Behind(mem[0].id)
        BY <3>2
      <3>5. AfterPayload(curr, flen) = IF flen > M - curr THEN flen - (M - curr) ELSE curr + flen
        BY <1>1 DEF AfterPayload
      <3>6. d <= M + IF flen > M - curr THEN flen - (M - curr) ELSE 0
        <4>1. CASE flen > M - curr
          BY <4>1, <3>3, <3>4, <3>5, <1>1 DEF Begun
        <4>2. CASE ~(flen > M - curr)
          BY <4>2, <3>3, <3>4, <3>5, <1>1 DEF Begun
        <4> QED
          BY <4>1, <4>2
      <3> QED
        BY <3>1, <3>4, <3>6, <1>2 DEF Behind
    <2> QED
      BY <2>1, <1>4 DEF Recent, Sealed, Behind
  <1>10. Forward'
    BY <1>1, <1>4, ForwardKept DEF InGap
  <1> QED
    BY <1>5, <1>7, <1>8, <1>9, <1>10 DEF BackInv

\* SendWrapped: the payload covers the beginning of the ring.
LEMMA WrappedBack ==
  ASSUME RingInv, BackInv, UNCHANGED rvars, NEW e, Effect(e), SendWrapped
  PROVE  BackInv'
  <1>1. /\ M \in Nat \ {0} /\ curr \in Int /\ 0 <= curr /\ curr <= M
        /\ sent \in Int /\ sent \in 0..MaxFrames /\ flen \in Nat
        /\ ppc = "wrapped" /\ Filling /\ flen > M - curr /\ ppc' = "link" /\ Filling'
        /\ UNCHANGED <<fhdr, flen, sent, end, start, commit>>
    <2>1. ppc = "wrapped" /\ Filling /\ ppc' = "link" /\ Filling'
          /\ UNCHANGED <<fhdr, flen, sent, end, start, commit>>
      BY DEF SendWrapped, Filling
    <2>2. flen > M - curr
      BY <2>1 DEF RingInv, Written
    <2> QED
      BY <2>1, <2>2, SomeTypes
  <1>2. Committed = sent - 1 /\ Committed' = sent - 1 /\ Unwritten' = 0
    BY <1>1 DEF Committed, Unwritten
  <1>3. Starts'
    BY <1>1, StartsKept
  <1>5. Ordered'
    BY <1>1, <1>2, QuietOrdered DEF Quiet
  <1>6. Newest'
    <2>1. ASSUME SealedIn(mem', commit) PROVE mem'[commit].id >= sent - 1
      <3>1. commit \in Addr /\ Sealed(commit)'
        BY <2>1, <1>1 DEF RingInv, IInv, Fits, Sealed
      <3>2. mem'[commit] = mem[commit] /\ Sealed(commit)
        BY <2>1, <1>1, <3>1, SealedBefore, Zenon
      <3> QED
        BY <3>2, <1>2 DEF BackInv, Newest
    <2> QED
      BY <2>1, <1>1, <1>2 DEF BackInv, Newest, Sealed
  <1>7. Recent'
    <2>1. PayloadIsAt(0, flen - (M - curr), sent, M - curr)
      BY <1>1, PayloadCells DEF SendWrapped
    <2>2. 0 \in 0..(0 + (flen - (M - curr)) - 1) /\ 0 \in Addr
      BY <1>1, SomeTypes
    <2>3. mem'[0] = Part("payload", sent, (M - curr) + (0 - 0))
      BY <2>1, <2>2 DEF PayloadIsAt
    <2>4. ~Sealed(0)'
      BY <2>2, <2>3, NotSealed
    <2> QED
      BY <2>4 DEF Recent
  <1>8. Forward'
    BY <1>1, <1>2, ForwardKept DEF InGap
  <1> QED
    BY <1>3, <1>5, <1>6, <1>7, <1>8 DEF BackInv

\* The next header is not below the end of the payload, or at the beginning.
LEMMA RoundsUp ==
  ASSUME NEW p \in 0..M
  PROVE  NextPlace(p) = 0 \/ NextPlace(p) >= p
  <1>1. p \in Nat /\ ALIGN \in Nat \ {0} /\ M \in Nat
    BY RingAssumption
  <1>2. p % ALIGN \in 0..(ALIGN - 1)
    BY <1>1, DivMod
  <1> QED
    BY <1>1, <1>2 DEF NextPlace

\* SendLink: the frame is sealed, and the next header not yet cleared.
LEMMA LinkBack ==
  ASSUME RingInv, BackInv, UNCHANGED rvars, NEW e, Effect(e), SendLink
  PROVE  BackInv'
  <1>1. /\ M \in Nat \ {0} /\ HDR \in Nat \ {0} /\ curr \in Int /\ 0 <= curr /\ curr <= M
        /\ curr \in 0..M /\ fhdr \in Addr /\ fhdr \in Int /\ sent \in 1..MaxFrames /\ sent \in Int
        /\ end \in Int /\ flen \in Nat \ {0} /\ HDR + flen <= M
        /\ ppc = "link" /\ Filling /\ Behind(sent) = HDR + flen
        /\ curr = AfterPayload(fhdr + HDR, flen) /\ fhdr + HDR <= M
    <2>1. ppc = "link" /\ Filling
      BY DEF SendLink, Filling
    <2>2. /\ curr = AfterPayload(fhdr + HDR, flen) /\ flen # 0 /\ HDR + flen <= M
          /\ sent \in 1..MaxFrames /\ Behind(sent) = HDR + flen /\ fhdr + HDR <= M
      BY <2>1 DEF RingInv, Written, BackInv, Newest, IInv, Fits
    <2> QED
      BY <2>1, <2>2, SomeTypes DEF Addr
  <1>2. /\ mem' = WithHeader(mem, fhdr, Header(sent, flen, curr', tracks, TRUE))
        /\ ppc' = "commit" /\ curr' = NextPlace(curr) /\ end' = end + Distance(curr, curr')
        /\ UNCHANGED <<fhdr, flen, sent, start, commit>>
    BY DEF SendLink
  <1>3. SealedIn(mem', fhdr) /\ mem'[fhdr].id = sent /\ mem'[fhdr].next = curr'
    <2>1. PICK h : /\ mem' = WithHeader(mem, fhdr, h)
                   /\ h.kind = "header" /\ h.part = 0 /\ h.ok /\ h.len = flen /\ h.id = sent
                   /\ h.next = curr'
      BY <1>2 DEF Header
    <2>2. HeaderIsAt(fhdr, h)
      BY <2>1, <1>1, HeaderCells
    <2>3. mem'[fhdr] = h
      BY <2>2, <1>1 DEF HeaderIsAt
    <2> QED
      BY <2>1, <2>3, <1>1 DEF SealedIn
  <1>4. Committed = sent - 1 /\ Committed' = sent - 1 /\ Unwritten = 0 /\ Unwritten' = 0
    BY <1>1, <1>2 DEF Committed, Unwritten
  <1>5. Starts'
    BY <1>2, StartsKept
  <1>7. ASSUME NEW c \in Addr, SealedIn(mem', c), c # fhdr
        PROVE  mem'[c] = mem[c] /\ Sealed(c)
    BY <1>7, SealedBefore DEF Sealed
  <1>8. Ordered'
    <2> SUFFICES ASSUME NEW a \in Addr, Sealed(a)' PROVE OrderedAt(a)'
      BY DEF Ordered
    <2>1. CASE a = fhdr
      <3>1. Begun(fhdr, Behind(sent), Top)
        <4>1. Top = curr
          BY <1>1 DEF Top
        <4>2. curr - fhdr = HDR + flen \/ curr - fhdr = HDR + flen - M
          BY <1>1 DEF AfterPayload
        <4> QED
          BY <4>1, <4>2, <1>1 DEF Begun
      <3>2. Begun(fhdr, end' - start'[sent], Top')
        <4>1. sent \in 1..sent
          BY <1>1
        <4> QED
          BY <3>1, <4>1, <1>1, BegunKept
      <3>3. Begun(a, Behind(mem[a].id), Top)'
        BY <3>2, <2>1, <1>3 DEF Behind
      <3> QED
        BY <3>3, <2>1, <1>2, <1>3 DEF OrderedAt
    <2>2. CASE a # fhdr
      <3>1. mem'[a] = mem[a] /\ Sealed(a)
        BY <2>2, <1>7 DEF Sealed
      <3>2. mem[a].id \in 1..sent /\ mem[a].id \in Int /\ mem[a].next \in Addr
        BY <3>1, SomeTypes
      <3>3. /\ mem[a].id <= Committed
            /\ Begun(a, Behind(mem[a].id), Top)
            /\ Sealed(mem[a].next) => mem[mem[a].next].id >= mem[a].id
        BY <3>1, <1>1 DEF BackInv, Ordered, OrderedAt
      <3>4. Begun(a, Behind(mem[a].id), Top)'
        BY <3>1, <3>2, <3>3, BegunKept DEF Behind
      <3>5. mem'[a].id <= Committed'
        BY <3>1, <3>3, <1>4
      <3>6. ASSUME SealedIn(mem', mem[a].next) PROVE mem'[mem[a].next].id >= mem[a].id
        <4>1. CASE mem[a].next = fhdr
          BY <4>1, <3>2, <1>1, <1>3
        <4>2. CASE mem[a].next # fhdr
          BY <4>2, <3>2, <3>3, <3>6, <1>7
        <4> QED
          BY <4>1, <4>2
      <3> QED
        BY <3>1, <3>4, <3>5, <3>6 DEF OrderedAt, Sealed
    <2> QED
      BY <2>1, <2>2
  <1>9. Newest'
    <2>1. ASSUME SealedIn(mem', commit) PROVE mem'[commit].id >= sent - 1
      <3>1. commit \in Addr
        BY DEF RingInv, IInv, Fits
      <3>2. CASE commit = fhdr
        BY <3>2, <1>1, <1>3
      <3>3. CASE commit # fhdr
        BY <3>1, <3>3, <2>1, <1>4, <1>7 DEF BackInv, Newest
      <3> QED
        BY <3>2, <3>3
    <2> QED
      BY <2>1, <1>2, <1>3, <1>4 DEF Newest, Sealed, Filling
  <1>10. /\ curr' \in Addr /\ e \in Nat /\ end' = end + e
         /\ curr + e <= M /\ (curr' = curr + e \/ curr' = curr + e - M)
    <2>1. curr' \in Addr
      BY <1>1, <1>2, NextPlaceFits DEF Fits
    <2>2. /\ end' = end + e /\ e \in Nat
          /\ end' = end + Distance(curr, curr')
          /\ Distance(curr, curr') \in Nat /\ Distance(curr, curr') < M
          /\ curr' = curr + Distance(curr, curr') \/ curr' = curr + Distance(curr, curr') - M
      BY <2>1, <1>1, <1>2, DistanceIs DEF Effect
    <2>3. e = Distance(curr, curr')
      BY <2>2, <1>1
    <2>4. curr' = 0 \/ curr' >= curr
      BY <1>1, <1>2, RoundsUp
    <2>5. e \in Nat /\ e < M /\ (curr' = curr + e \/ curr' = curr + e - M)
      BY <2>2, <2>3
    <2>6. curr' \in Int /\ curr' < M
      BY <2>1, <1>1 DEF Addr
    <2>7. curr + e <= M
      BY <2>4, <2>5, <2>6, <1>1
    <2> QED
      BY <2>1, <2>2, <2>5, <2>7
  <1>11. Recent'
    <2>1. ASSUME SealedIn(mem', 0) PROVE end' - start'[mem'[0].id] <= M + 0
      <3>0. 0 \in Addr
        BY SomeTypes
      <3>1. CASE fhdr = 0
        <4>1. curr = HDR + flen
          BY <3>1, <1>1 DEF AfterPayload
        <4>2. end' - start'[sent] = Behind(sent) + e
          <5>1. start'[sent] = start[sent] /\ start[sent] \in Int
            BY <1>1, <1>2, SomeTypes
          <5> QED
            BY <5>1, <1>1, <1>10 DEF Behind
        <4> QED
          BY <3>1, <4>1, <4>2, <1>1, <1>3, <1>10
      <3>2. CASE fhdr # 0
        <4>1. mem'[0] = mem[0] /\ Sealed(0)
          BY <3>0, <3>2, <2>1, <1>7
        <4>2. PICK d \in Int : d = Behind(mem[0].id)
          BY <3>0, <4>1, SomeTypes
        <4>3. end' - start'[mem[0].id] = d + e
          <5>1. PICK x \in Int : x = start[mem[0].id] /\ x = start'[mem[0].id]
            BY <3>0, <4>1, <1>2, SomeTypes
          <5>2. d = end - x
            BY <4>2, <5>1 DEF Behind
          <5> QED
            BY <5>1, <5>2, <1>1, <1>10
        <4>4. Begun(0, d, curr) /\ d <= M
          <5>1. Top = curr
            BY <1>1 DEF Top
          <5> QED
            BY <3>0, <4>1, <4>2, <5>1, <1>1, <1>4 DEF BackInv, Ordered, OrderedAt, Recent
        <4>5. curr > 0
          BY <1>1 DEF AfterPayload, Addr
        <4>6. d = curr
          BY <4>4, <4>5, <1>1 DEF Begun
        <4> QED
          BY <4>1, <4>3, <4>6, <1>1, <1>10
      <3> QED
        BY <3>1, <3>2
    <2> QED
      BY <2>1, <1>4 DEF Recent, Sealed, Behind
  <1>12. Forward'
    BY <1>1, <1>3, <1>4, ForwardKept DEF InGap
  <1> QED
    BY <1>5, <1>8, <1>9, <1>11, <1>12 DEF BackInv

\* SendCommit: u32CommitId names the newest frame.
LEMMA CommitBack ==
  ASSUME RingInv, BackInv, UNCHANGED rvars, NEW e, Effect(e), SendCommit
  PROVE  BackInv'
  <1>1. /\ ppc = "commit" /\ ppc' = "clear" /\ commit' = fhdr
        /\ UNCHANGED <<mem, curr, fhdr, flen, sent, end, start>>
    BY DEF SendCommit
  <1>2. /\ Committed = sent - 1 /\ Committed' = sent /\ Unwritten = 0 /\ Unwritten' = 0
        /\ ~Filling /\ ~Filling' /\ Top = curr /\ Top' = curr
    BY <1>1 DEF Committed, Unwritten, Filling, Top
  <1>3. sent \in Int /\ fhdr \in Addr
    BY SomeTypes
  <1>4. Starts'
    BY <1>1, StartsKept
  <1>6. mem[fhdr].id = sent /\ mem[fhdr].next = curr
    BY <1>1 DEF BackInv, Newest
  <1>7. Ordered'
    <2> SUFFICES ASSUME NEW a \in Addr, Sealed(a)' PROVE OrderedAt(a)'
      BY DEF Ordered
    <2>1. Sealed(a) /\ mem[a].id \in Int
      BY <1>1, SomeTypes DEF Sealed
    <2>2. /\ mem[a].id <= Committed \/ a = fhdr
          /\ Begun(a, Behind(mem[a].id), Top)
          /\ Sealed(mem[a].next) => mem[mem[a].next].id >= mem[a].id \/ a = fhdr
      BY <2>1, <1>1 DEF BackInv, Ordered, OrderedAt
    <2>3. mem[a].id <= sent
      BY <2>1, <2>2, <1>2, <1>3, <1>6
    <2>4. Begun(a, Behind(mem[a].id), Top)'
      BY <2>2, <1>1, <1>2 DEF Behind
    <2> QED
      BY <2>2, <2>3, <2>4, <1>1, <1>2 DEF OrderedAt, Sealed
  <1>8. Newest'
    BY <1>1, <1>2, <1>3, <1>6 DEF Newest
  <1>9. Recent'
    BY <1>1, <1>2, RecentKept
  <1>10. Forward'
    BY <1>1, <1>2, <1>3, ForwardKept DEF InGap
  <1> QED
    BY <1>4, <1>7, <1>8, <1>9, <1>10 DEF BackInv

\* SendClear: no frame is behind the newest one any more.
LEMMA ClearBack ==
  ASSUME RingInv, BackInv, UNCHANGED rvars, NEW e, Effect(e), SendClear
  PROVE  BackInv'
  <1>1. /\ ppc = "clear" /\ ppc' = "mark"
        /\ UNCHANGED <<curr, fhdr, flen, sent, end, start, commit>>
    BY DEF SendClear
  <1>2. /\ Committed = sent /\ Committed' = sent /\ Unwritten = 0 /\ Unwritten' = 0
        /\ ~Filling /\ ~Filling'
    BY <1>1 DEF Committed, Unwritten, Filling
  <1>3. sent \in Int /\ fhdr \in Addr
    BY SomeTypes
  <1>4. ~SealedIn(mem', curr)
    <2>1. curr \in Addr /\ curr \in Int
      BY <1>1 DEF RingInv, IInv, Fits, Addr
    <2>2. PICK h : mem' = WithHeader(mem, curr, h) /\ h.len = 0
      BY DEF SendClear, EmptyHeader, Header
    <2>3. mem'[curr] = h
      BY <2>1, <2>2, HeaderCells DEF HeaderIsAt
    <2> QED
      BY <2>2, <2>3 DEF SealedIn
  <1>5. Starts'
    BY <1>1, StartsKept
  <1>7. mem[fhdr].id = sent /\ mem[fhdr].next = curr
    BY <1>1 DEF BackInv, Newest
  <1>8. ASSUME NEW c \in Addr, SealedIn(mem', c)
        PROVE  mem'[c] = mem[c] /\ Sealed(c) /\ c # curr
    BY <1>1, <1>4, <1>8, SealedBefore DEF Sealed
  <1>9. Ordered'
    <2> SUFFICES ASSUME NEW a \in Addr, Sealed(a)' PROVE OrderedAt(a)'
      BY DEF Ordered
    <2>1. mem'[a] = mem[a] /\ Sealed(a)
      BY <1>8 DEF Sealed
    <2>2. mem[a].id \in 1..sent /\ mem[a].id \in Int /\ mem[a].next \in Addr
      BY <2>1, SomeTypes
    <2>3. /\ mem[a].id <= Committed
          /\ Begun(a, Behind(mem[a].id), Top)
          /\ Sealed(mem[a].next) => mem[mem[a].next].id >= mem[a].id \/ a = fhdr
      BY <2>1, <1>1 DEF BackInv, Ordered, OrderedAt
    <2>4. Begun(a, Behind(mem[a].id), Top)'
      BY <2>1, <2>2, <2>3, BegunKept DEF Behind
    <2>5. ASSUME SealedIn(mem', mem[a].next) PROVE mem'[mem[a].next].id >= mem[a].id
      BY <2>2, <2>3, <2>5, <1>7, <1>8
    <2> QED
      BY <2>1, <2>3, <2>4, <2>5, <1>2 DEF OrderedAt, Sealed
  <1>10. Newest'
    <2>1. commit \in Addr
      BY DEF RingInv, IInv, Fits
    <2>2. SealedIn(mem', commit) => mem'[commit].id >= sent
      BY <2>1, <1>2, <1>8 DEF BackInv, Newest
    <2> QED
      BY <2>2, <1>1, <1>2 DEF Newest, Sealed
  <1>11. Recent'
    BY <1>1, <1>2, RecentKept
  <1>12. Forward'
    <2>1. ASSUME NEW c \in Addr, InGap(c), Sealed(c)' PROVE mem[c].id >= Committed
      <3>1. c = fhdr
        BY <2>1, <1>8 DEF InGap, Sealed
      <3> QED
        BY <3>1, <1>2, <1>3, <1>7
    <2> QED
      BY <2>1, <1>1, <1>2, <1>3, ForwardKept
  <1> QED
    BY <1>5, <1>9, <1>10, <1>11, <1>12 DEF BackInv

\* SendMark: the empty header is sealed, but no frame's.
LEMMA MarkBack ==
  ASSUME RingInv, BackInv, UNCHANGED rvars, NEW e, Effect(e), SendMark
  PROVE  BackInv'
  <1>1. /\ ppc = "mark" /\ ppc' = "idle"
        /\ UNCHANGED <<curr, fhdr, flen, sent, end, start, commit>>
    BY DEF SendMark
  <1>2. /\ Committed = sent /\ Committed' = sent /\ Unwritten = 0 /\ Unwritten' = 0
        /\ ~Filling /\ ~Filling'
    BY <1>1 DEF Committed, Unwritten, Filling
  <1>3. sent \in Int
    BY SomeTypes
  <1>4. Starts'
    BY <1>1, StartsKept
  <1>6. Ordered'
    BY <1>1, <1>2, <1>3, QuietOrdered DEF Quiet
  <1>7. Newest'
    <2>1. ASSUME SealedIn(mem', commit) PROVE mem'[commit].id >= sent
      <3>1. commit \in Addr /\ Sealed(commit)'
        BY <2>1, <1>1 DEF RingInv, IInv, Fits, Sealed
      <3>2. mem'[commit] = mem[commit] /\ Sealed(commit)
        BY <2>1, <1>1, <3>1, SealedBefore, Zenon
      <3> QED
        BY <3>2, <1>2 DEF BackInv, Newest
    <2> QED
      BY <2>1, <1>1, <1>2 DEF Newest, Sealed
  <1>8. Recent'
    BY <1>1, <1>2, RecentKept
  <1>9. Forward'
    BY <1>1, <1>2, <1>3, ForwardKept DEF InGap
  <1> QED
    BY <1>4, <1>6, <1>7, <1>8, <1>9 DEF BackInv

\* Where the frame in progress ends.
LEMMA TopFilling ==
  ASSUME RingInv, Filling
  PROVE  /\ Top - fhdr = HDR + flen \/ Top - fhdr = HDR + flen - M
         /\ Unwritten \in Int /\ Unwritten <= flen
  <1>1. Top = AfterPayload(fhdr + HDR, flen)
    BY DEF RingInv, Written, Top, Filling
  <1>2. M \in Nat /\ HDR \in Nat /\ fhdr \in Int /\ flen \in Nat /\ curr \in Int /\ curr <= M
    BY SomeTypes DEF Addr
  <1> QED
    BY <1>1, <1>2 DEF AfterPayload, Unwritten

\* A header that links to the beginning of the ring because it is empty or not yet complete
\* leads to no older frame: the frame that was there is a lap behind, and what begins at 0
\* is more recent.
LEMMA ZeroIsNewer ==
  ASSUME RingInv, BackInv, NEW i \in 1..sent, NEW a \in Addr, Begun(a, Behind(i), Top),
         i <= Committed, Sealed(0),
         (Filling /\ a = fhdr) \/ (ppc \in {"idle", "mark"} /\ a = curr)
  PROVE  mem[0].id >= i
  <1>1. /\ M \in Nat \ {0} /\ HDR \in Nat \ {0} /\ 0 \in Addr /\ sent \in Int /\ flen \in Nat /\ flen <= M
        /\ fhdr \in Int /\ curr \in Int /\ i \in Int /\ Behind(i) \in Int
    BY SomeTypes DEF Addr
  <1>2. PICK k \in 1..sent : k = mem[0].id
    BY <1>1, SomeTypes
  <1>3. SUFFICES ASSUME k < i PROVE FALSE
    BY <1>1, <1>2
  <1>4. Behind(k) \in Int /\ Behind(i) < Behind(k) /\ Behind(k) <= M + Unwritten /\ Behind(i) > 0
    <2>1. start[k] < start[i] /\ start[i] < end /\ start[i] \in Int /\ start[k] \in Int /\ end \in Int
      BY <1>3, SomeTypes DEF BackInv, Starts
    <2>2. Behind(k) <= M + Unwritten
      BY <1>2 DEF BackInv, Recent
    <2> QED
      BY <2>1, <2>2 DEF Behind
  <1>5. CASE Filling /\ a = fhdr
    <2>1. Behind(i) > HDR + flen
      <3>1. i < sent /\ sent \in 1..sent
        BY <1>1, <1>5 DEF Committed, Filling
      <3>2. start[i] < start[sent] /\ start[sent] \in Int /\ start[i] \in Int /\ end \in Int
        BY <3>1, SomeTypes DEF BackInv, Starts
      <3>3. Behind(sent) = HDR + flen
        BY <1>5 DEF RingInv, Written
      <3> QED
        BY <3>2, <3>3 DEF Behind
    <2>2. /\ Top - fhdr = HDR + flen \/ Top - fhdr = HDR + flen - M
          /\ Unwritten \in Int /\ Unwritten <= flen
      BY <1>5, TopFilling
    <2>3. Top \in Int
      BY SomeConstants DEF Top, AfterPayload, RingInv, IInv
    <2> QED
      BY <2>1, <2>2, <2>3, <1>1, <1>4, <1>5 DEF Begun
  <1>6. CASE ppc \in {"idle", "mark"} /\ a = curr
    <2>1. Top = curr /\ Unwritten = 0
      BY <1>6 DEF Top, Unwritten
    <2> QED
      BY <2>1, <1>1, <1>4, <1>6 DEF Begun
  <1> QED
    BY <1>5, <1>6
-----------------------------------------------------------------------------
(* The consumer goes forward *)

LEMMA InitBack == Init => BackInv
  <1> SUFFICES ASSUME Init PROVE BackInv
    OBVIOUS
  <1>1. /\ \A a \in Addr : mem[a] = Blank
        /\ sent = 0 /\ ppc = "idle" /\ rpc = "new" /\ last = NoDelivery
    BY DEF Init
  <1>2. \A a \in Addr : ~Sealed(a) /\ mem[a].kind # "header"
    BY <1>1 DEF Sealed, SealedIn, Blank
  <1>3. 0 \in Addr /\ commit \in Addr
    BY SomeConstants DEF Init, Fits
  <1>4. Starts
    BY <1>1 DEF Starts
  <1>5. Ordered
    BY <1>2 DEF Ordered
  <1>6. Newest /\ Recent
    BY <1>1, <1>2, <1>3 DEF Newest, Recent, Filling
  <1>7. Forward
    BY <1>1 DEF Forward, NoDelivery, Committed, Looking, Fetching
  <1> QED
    BY <1>4, <1>5, <1>6, <1>7 DEF BackInv

\* The header that u32CommitId names is no older than what the consumer got last.
LEMMA SentForward ==
  ASSUME RingInv, BackInv, UNCHANGED pvars, CreateConsumer \/ ReadResync
  PROVE  Forward'
  <1>1. /\ rpc' = "idle" /\ rpos' = commit /\ UNCHANGED <<mem, ppc, sent, fhdr, curr, last, raced>>
    BY DEF CreateConsumer, ReadResync, pvars
  <1>2. last.id \in Nat /\ (~raced => last.id <= Committed) /\ Committed \in Int /\ commit \in Addr
    BY SomeTypes DEF BackInv, Forward, RingInv, IInv, Fits
  <1>3. Committed' = Committed
    BY <1>1 DEF Committed
  <1>4. ASSUME ~raced, SealedIn(mem, commit) PROVE mem[commit].id >= last.id
    <2>1. mem[commit].id >= Committed /\ mem[commit].id \in Int
      BY <1>2, <1>4, SomeTypes DEF BackInv, Newest, Sealed
    <2> QED
      BY <2>1, <1>2, <1>4
  <1> QED
    BY <1>1, <1>2, <1>3, <1>4 DEF Forward, Sealed, Looking, Fetching

\* Testing the header and copying the payload move the consumer nowhere.
LEMMA ForwardUnchanged ==
  ASSUME BackInv, UNCHANGED pvars, UNCHANGED <<rpos, rid, last, raced>>,
         \/ rpc' = rpc
         \/ {rpc, rpc'} \subseteq Looking
         \/ {rpc, rpc'} \subseteq Fetching
  PROVE  Forward'
  <1>1. UNCHANGED <<mem, curr, ppc, fhdr, flen, sent, end, start>>
    BY DEF pvars
  <1>2. Committed' = Committed /\ Top' = Top
    BY <1>1 DEF Committed, Top
  <1>3. Begun(rpos, Behind(rid), Top)' <=> Begun(rpos, Behind(rid), Top)
    BY <1>1, <1>2 DEF Behind
  <1>4. (rpc' \in Looking => rpc \in Looking) /\ (rpc' \in Fetching => rpc \in Fetching)
    BY DEF Looking, Fetching
  <1> QED
    BY <1>1, <1>2, <1>3, <1>4 DEF BackInv, Forward, Sealed, InGap

\* ReadId: the id of a complete header outside of the gap is that of no older frame, and of
\* none that is not committed.
LEMMA IdForward ==
  ASSUME RingInv, BackInv, UNCHANGED pvars, ReadId
  PROVE  Forward'
  <1>1. /\ rpc = "id" /\ rpc' = "datalen" /\ rid' = mem[rpos].id /\ HeaderAt(rpos)
        /\ UNCHANGED <<mem, ppc, sent, fhdr, curr, flen, end, start, rpos, last>>
    BY DEF ReadId, pvars
  <1>2. raced' = (raced \/ InGap(rpos) \/ ~Complete(rpos))
    BY DEF ReadId
  <1>3. rpos \in Addr
    BY <1>1 DEF RingInv, IInv, Fits
  <1>4. last.id \in Nat /\ (~raced => last.id <= Committed) /\ Committed \in Int
    BY SomeTypes DEF BackInv, Forward
  <1>5. Committed' = Committed /\ Top' = Top
    BY <1>1 DEF Committed, Top
  <1>6. ASSUME ~raced, ~InGap(rpos), Complete(rpos)
        PROVE  /\ mem[rpos].id \in 1..Committed /\ last.id <= mem[rpos].id
               /\ Begun(rpos, Behind(mem[rpos].id), Top)
    <2>1. Sealed(rpos)
      BY <1>1, <1>3, <1>6, ValidSealed DEF Complete, Empty
    <2>2. mem[rpos].id >= last.id
      BY <1>1, <1>6, <2>1 DEF BackInv, Forward, Looking
    <2>3. /\ mem[rpos].id <= Committed \/ (ppc = "commit" /\ rpos = fhdr)
          /\ Begun(rpos, Behind(mem[rpos].id), Top)
      BY <1>3, <2>1 DEF BackInv, Ordered, OrderedAt
    <2>4. mem[rpos].id <= Committed
      BY <2>3, <1>6 DEF InGap
    <2>5. mem[rpos].id \in 1..sent /\ mem[rpos].id \in Int
      BY <1>3, <2>1, SomeTypes
    <2> QED
      BY <2>2, <2>3, <2>4, <2>5, <1>4, SomeTypes
  <1>7. ~raced' => ~raced /\ ~InGap(rpos) /\ Complete(rpos)
    BY <1>2
  <1>8. ~raced' =>
          /\ mem[rpos].id \in 1..Committed /\ last.id <= mem[rpos].id
          /\ Begun(rpos, Behind(mem[rpos].id), Top)
    BY <1>6, <1>7
  <1>9. last.id \in Nat /\ (~raced' => last.id <= Committed)
    BY <1>4, <1>7
  <1>10. mem[rpos].id >= mem[rpos].id \/ raced'
    BY <1>4, <1>8
  <1>11. Behind(mem[rpos].id) = (end' - start'[mem[rpos].id])
    BY <1>1 DEF Behind
  <1> QED
    BY <1>1, <1>5, <1>8, <1>9, <1>10, <1>11 DEF Forward, Looking, Fetching, Behind

\* The header that the frame just read links to is no older, outside of the gap.
LEMMA LinkedIsNewer ==
  ASSUME RingInv, BackInv, ReadFinish, ~raced, NEW q \in Addr, q = mem[rpos].next, Sealed(q)
  PROVE  mem[q].id >= rid \/ InGap(q)
  <1>1. rpos \in Addr
    BY DEF RingInv, IInv, Fits, ReadFinish
  <1>2. /\ Begun(rpos, Behind(rid), Top)
        /\ Sealed(rpos) => mem[rpos].id >= rid
        /\ rid \in 1..Committed
    BY DEF BackInv, Forward, ReadFinish, Fetching
  <1>3. rid \in 1..sent /\ rid \in Int /\ rid <= Committed
    BY <1>2, SomeTypes DEF Committed
  <1>4. mem[q].id \in Int /\ (Sealed(rpos) => mem[rpos].id \in Int)
    BY <1>1, SomeTypes
  <1>5. Begins(rpos)
    BY <1>1, HeaderBegins DEF ReadFinish
  <1>6. CASE Sealed(rpos)
    <2>1. mem[q].id >= mem[rpos].id \/ (ppc \in {"commit", "clear"} /\ rpos = fhdr)
      BY <1>1, <1>6 DEF BackInv, Ordered, OrderedAt
    <2>2. ppc \in {"commit", "clear"} /\ rpos = fhdr => InGap(q)
      BY DEF BackInv, Newest, InGap
    <2> QED
      BY <2>1, <2>2, <1>2, <1>3, <1>4, <1>6
  <1>7. CASE mem[rpos].next = 0 /\ (Filled(rpos) \/ Left(rpos))
    <2>1. q = 0
      BY <1>7
    <2>2. (Filling /\ rpos = fhdr) \/ (ppc \in {"idle", "mark"} /\ rpos = curr)
      BY <1>7 DEF Filled, Left
    <2> QED
      BY <2>1, <2>2, <1>1, <1>2, <1>3, ZeroIsNewer
  <1> QED
    BY <1>1, <1>5, <1>6, <1>7 DEF RingInv, Headers

\* ReadFinish: the consumer follows the link.
LEMMA FinishForward ==
  ASSUME RingInv, BackInv, UNCHANGED pvars, ReadFinish
  PROVE  Forward'
  <1>1. /\ rpc = "finish" /\ rpos \in Addr /\ rid \in 0..MaxFrames
        /\ rpos' = mem[rpos].next /\ rpc' = "idle" /\ last'.id = rid
        /\ UNCHANGED <<mem, ppc, sent, fhdr, curr, raced>>
    BY DEF RingInv, IInv, Fits, ReadFinish, pvars
  <1>2. rid \in Nat /\ (~raced => rid <= Committed)
    <2>1. ~raced => rid \in 1..Committed
      BY <1>1 DEF BackInv, Forward, Fetching
    <2> QED
      BY <2>1, <1>1, SomeTypes
  <1>3. Committed' = Committed
    BY <1>1 DEF Committed
  <1>4. ASSUME ~raced, SealedIn(mem, mem[rpos].next)
        PROVE  mem[mem[rpos].next].id >= rid \/ InGap(mem[rpos].next)
    <2>1. mem[rpos].next \in Addr
      BY <1>1, SomeTypes
    <2> QED
      BY <2>1, <1>4, LinkedIsNewer DEF Sealed
  <1> QED
    BY <1>1, <1>2, <1>3, <1>4 DEF Forward, Sealed, InGap, Looking, Fetching

\* Lost: nothing more is said of the consumer.
LEMMA LostForward ==
  ASSUME BackInv, UNCHANGED pvars, Lost
  PROVE  Forward'
  <1>1. rpc' = "lost" /\ UNCHANGED <<ppc, sent, last, raced>>
    BY DEF Lost, pvars
  <1>2. Committed' = Committed
    BY <1>1 DEF Committed
  <1> QED
    BY <1>1, <1>2 DEF BackInv, Forward, Looking, Fetching

\* What BackInv says of the producer it says of pvars alone.
LEMMA ProducerPart ==
  ASSUME BackInv, UNCHANGED pvars
  PROVE  Starts' /\ Ordered' /\ Newest' /\ Recent'
  <1>1. UNCHANGED <<mem, tracks, commit, curr, ppc, fhdr, flen, sent, end, start>>
    BY DEF pvars
  <1>2. Starts'
    BY <1>1 DEF BackInv, Starts
  <1>4. Ordered'
    BY <1>1 DEF BackInv, Ordered, OrderedAt, Sealed, Committed, Behind, Top
  <1>5. Newest'
    BY <1>1 DEF BackInv, Newest, Sealed, Committed, Filling
  <1>6. Recent'
    BY <1>1 DEF BackInv, Recent, Sealed, Behind, Unwritten
  <1> QED
    BY <1>2, <1>4, <1>5, <1>6

LEMMA StepBack ==
  ASSUME FrameAndHeaderFit, RingInv, BackInv, [Next]_vars
  PROVE  BackInv'
  <1>1. FramesFit
    BY FrameFits
  <1>2. CASE Producer
    <2>1. UNCHANGED rvars
      BY <1>2 DEF Producer, SendHeader, SendPayload, SendWrapped, SendLink, SendCommit, SendClear,
                  SendMark
    <2>2. PICK e \in Nat : Effect(e)
      <3>1. IInv'
        BY <1>1, StepIInv DEF RingInv
      <3> QED
        BY <1>1, <1>2, <3>1, ProducerRing
    <2> QED
      BY <1>2, <2>1, <2>2, HeaderBack, PayloadBack, WrappedBack, LinkBack, CommitBack, ClearBack,
         MarkBack DEF Producer
  <1>3. CASE Consumer \/ UNCHANGED vars
    <2>1. UNCHANGED pvars
      BY <1>3, ReaderWritesNothing DEF vars
    <2>2. Forward'
      <3>1. CASE \/ ReadCheck \/ ReadLength \/ ReadDataLen \/ ReadBytes \/ ReadPayload \/ ReadWrapped
                 \/ UNCHANGED vars
        <4>1. /\ UNCHANGED <<rpos, rid, last, raced>>
              /\ \/ rpc' = rpc
                 \/ {rpc, rpc'} \subseteq Looking
                 \/ {rpc, rpc'} \subseteq Fetching
          BY <3>1 DEF ReadCheck, ReadLength, ReadDataLen, ReadBytes, ReadPayload, ReadWrapped,
                      vars, rvars, Looking, Fetching
        <4> QED
          BY <2>1, <4>1, ForwardUnchanged
      <3>2. CASE CreateConsumer \/ ReadResync \/ ReadId \/ ReadFinish \/ Lost
        BY <2>1, <3>2, SentForward, IdForward, FinishForward, LostForward
      <3> QED
        BY <1>3, <3>1, <3>2 DEF Consumer
    <2> QED
      BY <2>1, <2>2, ProducerPart DEF BackInv
  <1> QED
    BY <1>2, <1>3 DEF Next

\* A consumer never gets a frame that is older than the one before, unless it once has
\* loaded an id from a header that was not complete, having tested the empty one that was
\* there before, or has read between the sealing of a frame and the clearing of the header
\* after it: wherever ringBufferSendTo stands, the links that ringBufferReadFrom follows
\* lead up in time, as does its return to u32CommitId.
THEOREM BackTheorem == FrameAndHeaderFit => (Spec => BackOnlyByRace)
  <1> SUFFICES ASSUME FrameAndHeaderFit PROVE Spec => BackOnlyByRace
    OBVIOUS
  <1>1. FramesFit
    BY FrameFits
  <1>2. RingInv /\ BackInv /\ [Next]_vars => BackInv'
    BY StepBack
  <1>3. RingInv /\ BackInv /\ [Next]_vars => [last'.id >= last.id \/ raced]_vars
    <2> SUFFICES ASSUME RingInv, BackInv, [Next]_vars, ~raced PROVE last'.id >= last.id
      OBVIOUS
    <2>1. last.id \in Nat
      BY DEF BackInv, Forward
    <2>2. CASE ReadFinish
      <3>1. last'.id = rid /\ rid \in 1..Committed /\ last.id <= rid
        BY <2>2 DEF ReadFinish, BackInv, Forward, Fetching
      <3> QED
        BY <2>1, <3>1
    <2>3. CASE last' = last
      BY <2>1, <2>3
    <2>4. ReadFinish \/ last' = last
      BY DEF Next, Producer, SendHeader, SendPayload, SendWrapped, SendLink, SendCommit, SendClear,
             SendMark, Consumer, CreateConsumer, ReadCheck, ReadResync, ReadLength, ReadId,
             ReadDataLen, ReadBytes, ReadPayload, ReadWrapped, Lost, vars, rvars
    <2> QED
      BY <2>2, <2>3, <2>4
  <1> QED
    BY <1>1, <1>2, <1>3, RingAlways, InitBack, PTL DEF Spec, BackOnlyByRace
=============================================================================
