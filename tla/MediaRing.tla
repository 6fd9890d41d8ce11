----------------------------- MODULE MediaRing -----------------------------
(***************************************************************************)
(* common/mediabuffer.c: the ring of video or audio frames.  One producer  *)
(* writes, any number of consumers read, nothing is locked.  Consumers     *)
(* write no shared memory, so one stands for all.                          *)
(*                                                                         *)
(* Memory is an array of M cells.  A frame is a header of HDR cells, whose *)
(* fields the first cell holds, and one cell per unit of payload, tagged   *)
(* with the frame and its place in it.  ok says that the magic number and  *)
(* the checksum of the header match: a collision of the checksum is left   *)
(* out.  Each memcpy is one step, and so are each group of header stores,  *)
(* whose last store alone lets the header pass the consumer's next test,   *)
(* and that test; every other load of a header is a step of its own.       *)
(*                                                                         *)
(* The history variables end and start count the cells the producer has    *)
(* claimed since the beginning, laps included; size is what was sent;      *)
(* found is the frame whose header the consumer has tested; early says     *)
(* that it has loaded that frame's length before the header was complete;  *)
(* raced, that it once has loaded an id from an incomplete header or in    *)
(* the gap (InGap).                                                        *)
(***************************************************************************)
EXTENDS Integers, Sequences

CONSTANTS
  M,           \* u32MemSize
  HDR,         \* sizeof(RB_FRAMER_HDR_S)
  ALIGN,       \* NUMBYTES_ALIGNMENT
  CTX,         \* sizeof(RB_SHM_CONTEXT_S)
  Word,        \* 2^32, the modulus of uint32_t
  Lens,        \* the sizes of the frames that are sent
  Limits,      \* what the consumer's u32MemSize may hold: nobody sets it
  MaxFrames,   \* bound: the frames that are sent
  WILD         \* an address computed from overwritten memory

ASSUME RingAssumption ==
  /\ {M, HDR, ALIGN, CTX, Word, MaxFrames} \subseteq Nat \ {0}
  /\ M % ALIGN = 0 /\ HDR % ALIGN = 0 /\ M >= HDR
  /\ Lens \subseteq Nat \ {0} /\ Limits \subseteq Nat
  /\ M + CTX < Word
  /\ WILD \notin 0..M

VARIABLES
  mem,             \* the shared memory
  tracks, commit,  \* RB_SHM_HDR_S
  curr, ppc,       \* the producer: pu8CurrAddr and its next store
  fhdr, flen,      \* the header and the payload length it is writing
  sent,            \* the number of frames sent, the id of the newest one
  rpc, rpos,       \* the consumer: its next load, pu8CurrAddr
  limit,           \* its u32MemSize
  rid, rlen,       \* pFramer->id, pFramer->dataLen
  rbytes, buf,     \* readBytes, pFramer->pData
  last,            \* the last frame ringBufferReadFrom returned with rc 0
  end, start, size, found, early, raced

pvars == <<mem, tracks, commit, curr, ppc, fhdr, flen, sent, end, start, size>>
rvars == <<rpc, rpos, limit, rid, rlen, rbytes, buf, last, found, early, raced>>
vars == <<pvars, rvars>>

Addr == 0..(M - 1)
Blank == [kind |-> "blank", id |-> 0, part |-> 0, len |-> 0, next |-> 0, prev |-> 0, ok |-> FALSE]
Header(id, len, next, prev, ok) ==
  [kind |-> "header", id |-> id, part |-> 0, len |-> len, next |-> next, prev |-> prev, ok |-> ok]
EmptyHeader(ok) == Header(0, 0, 0, 0, ok)
Part(kind, id, part) == [Blank EXCEPT !.kind = kind, !.id = id, !.part = part]

\* The memory m after n cells from p on were stored.
Stored(m, p, n, cell(_)) == [a \in Addr |-> IF a \in p..(p + n - 1) THEN cell(a - p) ELSE m[a]]
WithHeader(m, p, h) ==
  Stored(m, p, HDR, LAMBDA i : IF i = 0 THEN h ELSE Part("header", h.id, i))
WithPayload(m, p, n, id, from) == Stored(m, p, n, LAMBDA i : Part("payload", id, from + i))

\* Somebody's header starts at p, all of it.
HeaderAt(p) ==
  \A i \in 0..(HDR - 1) : mem[p + i].kind = "header" /\ mem[p + i].part = i
NoDelivery == [id |-> 0, intact |-> TRUE, early |-> FALSE, behind |-> 0]

Init ==
  /\ mem = [a \in Addr |-> Blank]
  /\ tracks = 0 /\ commit = 0
  /\ curr = 0 /\ ppc = "idle" /\ fhdr = 0 /\ flen = 0
  /\ sent = 0
  /\ rpc = "new" /\ rpos = 0 /\ limit = 0
  /\ rid = 0 /\ rlen = 0 /\ rbytes = 0 /\ buf = <<>>
  /\ last = NoDelivery
  /\ found = 0 /\ early = FALSE /\ raced = FALSE
  /\ end = 0 /\ start = [i \in 1..MaxFrames |-> 0] /\ size = [i \in 1..MaxFrames |-> 0]
-----------------------------------------------------------------------------
(* ringBufferSendTo *)

\* The place of the header; where the producer stands after the payload.
HeaderPlace == IF M - curr < HDR THEN 0 ELSE curr
AfterPayload(p, len) == IF len > M - p THEN len - (M - p) ELSE p + len
NextPlaceWithoutWrap(p) ==  \* mutant: no test of the room for a header
  IF (p % ALIGN) # 0 THEN p + (ALIGN - (p % ALIGN)) ELSE p
NextPlace(p) ==
  IF M - p < HDR THEN 0
  ELSE IF (p % ALIGN) # 0 THEN p + (ALIGN - (p % ALIGN)) ELSE p

\* The cells from p to q, walking up the ring.
Distance(p, q) == (q - p) % M

\* Mutant: the checksum is stored with the other fields, before the payload.
SendHeaderSealed(len) ==
  /\ ppc = "idle"
  /\ sent < MaxFrames
  /\ len <= M + CTX
  /\ LET p == HeaderPlace
     IN /\ mem' = WithHeader(mem, p, Header(sent + 1, len, 0, 0, TRUE))
        /\ fhdr' = p
        /\ curr' = p + HDR
        /\ start' = [start EXCEPT ![sent + 1] = end + Distance(curr, p)]
        /\ end' = end + Distance(curr, p) + HDR + len
  /\ size' = [size EXCEPT ![sent + 1] = len]
  /\ flen' = len
  /\ sent' = sent + 1
  /\ ppc' = "payload"
  /\ UNCHANGED <<tracks, commit, rvars>>

\* Mutant: the payload goes where the header is.
SendHeaderOverlaid(len) ==
  /\ ppc = "idle"
  /\ sent < MaxFrames
  /\ len <= M + CTX
  /\ LET p == HeaderPlace
     IN /\ mem' = WithHeader(mem, p, Header(sent + 1, len, 0, 0, FALSE))
        /\ fhdr' = p
        /\ curr' = p
        /\ start' = [start EXCEPT ![sent + 1] = end + Distance(curr, p)]
        /\ end' = end + Distance(curr, p) + HDR + len
  /\ size' = [size EXCEPT ![sent + 1] = len]
  /\ flen' = len
  /\ sent' = sent + 1
  /\ ppc' = "payload"
  /\ UNCHANGED <<tracks, commit, rvars>>

SendHeader(len) ==
  /\ ppc = "idle"
  /\ sent < MaxFrames
  /\ len <= M + CTX
  /\ LET p == HeaderPlace
     IN /\ mem' = WithHeader(mem, p, Header(sent + 1, len, 0, 0, FALSE))
        /\ fhdr' = p
        /\ curr' = p + HDR
        /\ start' = [start EXCEPT ![sent + 1] = end + Distance(curr, p)]
        /\ end' = end + Distance(curr, p) + HDR + len
  /\ size' = [size EXCEPT ![sent + 1] = len]
  /\ flen' = len
  /\ sent' = sent + 1
  /\ ppc' = "payload"
  /\ UNCHANGED <<tracks, commit, rvars>>

SendPayload ==
  /\ ppc = "payload"
  /\ LET n == IF flen > M - curr THEN M - curr ELSE flen
     IN mem' = WithPayload(mem, curr, n, sent, 0)
  /\ IF flen > M - curr
       THEN ppc' = "wrapped" /\ curr' = curr
       ELSE ppc' = "link" /\ curr' = AfterPayload(curr, flen)
  /\ UNCHANGED <<tracks, commit, fhdr, flen, sent, end, start, size, rvars>>

SendWrapped ==
  /\ ppc = "wrapped"
  /\ mem' = WithPayload(mem, 0, flen - (M - curr), sent, M - curr)
  /\ curr' = AfterPayload(curr, flen)
  /\ ppc' = "link"
  /\ UNCHANGED <<tracks, commit, fhdr, flen, sent, end, start, size, rvars>>

\* NextId, PrevId and the checksum.
SendLink ==
  /\ ppc = "link"
  /\ curr' = NextPlace(curr)
  /\ mem' = WithHeader(mem, fhdr, Header(sent, flen, curr', tracks, TRUE))
  /\ end' = end + Distance(curr, curr')
  /\ ppc' = "commit"
  /\ UNCHANGED <<tracks, commit, fhdr, flen, sent, start, size, rvars>>

\* Mutant: the consumers are sent to the frame before.
SendCommitLate ==
  /\ ppc = "commit"
  /\ tracks' = fhdr
  /\ commit' = tracks
  /\ ppc' = "clear"
  /\ UNCHANGED <<mem, curr, fhdr, flen, sent, end, start, size, rvars>>

SendCommit ==
  /\ ppc = "commit"
  /\ tracks' = fhdr
  /\ commit' = fhdr
  /\ ppc' = "clear"
  /\ UNCHANGED <<mem, curr, fhdr, flen, sent, end, start, size, rvars>>

\* memset of the next header, then its magic number and checksum.
SendClear ==
  /\ ppc = "clear"
  /\ mem' = WithHeader(mem, curr, EmptyHeader(FALSE))
  /\ ppc' = "mark"
  /\ UNCHANGED <<tracks, commit, curr, fhdr, flen, sent, end, start, size, rvars>>

\* Mutant: the empty header gets no checksum.
SendMarkUnsealed ==
  /\ ppc = "mark"
  /\ mem' = WithHeader(mem, curr, EmptyHeader(FALSE))
  /\ ppc' = "idle"
  /\ UNCHANGED <<tracks, commit, curr, fhdr, flen, sent, end, start, size, rvars>>

SendMark ==
  /\ ppc = "mark"
  /\ mem' = WithHeader(mem, curr, EmptyHeader(TRUE))
  /\ ppc' = "idle"
  /\ UNCHANGED <<tracks, commit, curr, fhdr, flen, sent, end, start, size, rvars>>
-----------------------------------------------------------------------------
(* ringBufferCreateConsumer and ringBufferReadFrom *)

CreateConsumer ==
  /\ rpc = "new"
  /\ rpos' = commit
  /\ limit' \in Limits
  /\ rpc' = "idle"
  /\ UNCHANGED <<pvars, rid, rlen, rbytes, buf, last, found, early, raced>>

Valid(p) == HeaderAt(p) /\ mem[p].ok /\ ~(mem[p].len > (limit - HDR) % Word)
Empty(p) == mem[p].len = 0
Complete(p) == mem[p].ok /\ ~Empty(p)

\* Between the sealing of a frame and the clearing of the header it links to, u32CommitId
\* may still name the frame before, and that header may still be the oldest frame's.
InGap(p) == ppc \in {"commit", "clear"} /\ p \in {fhdr, curr}

ReadCheck ==
  /\ rpc = "idle"
  /\ IF Valid(rpos)
       THEN rpc' = "length" /\ found' = IF Empty(rpos) THEN sent + 1 ELSE mem[rpos].id
       ELSE rpc' = "resync" /\ found' = 0
  /\ UNCHANGED <<pvars, rpos, limit, rid, rlen, rbytes, buf, last, early, raced>>

\* rc -2: the consumer goes to the newest frame.
ReadResync ==
  /\ rpc = "resync"
  /\ rpos' = commit
  /\ rpc' = "idle"
  /\ UNCHANGED <<pvars, limit, rid, rlen, rbytes, buf, last, found, early, raced>>

\* A field loaded from what overwrites the header is any number.
Lost ==
  /\ rpc \in {"length", "id", "datalen", "bytes", "finish"}
  /\ ~HeaderAt(rpos)
  /\ rpc' = "lost" /\ rpos' = WILD
  /\ rid' = 0 /\ rlen' = 0 /\ rbytes' = 0 /\ buf' = <<>>
  /\ UNCHANGED <<pvars, limit, last, found, early, raced>>

\* rc 1, or a length that is not zero: the buffer is taken to be large enough for it.
ReadLength ==
  /\ rpc = "length"
  /\ HeaderAt(rpos)
  /\ IF Empty(rpos)
       THEN rpc' = "idle" /\ found' = 0 /\ UNCHANGED early
       ELSE rpc' = "id" /\ early' = ~mem[rpos].ok /\ UNCHANGED found
  /\ UNCHANGED <<pvars, rpos, limit, rid, rlen, rbytes, buf, last, raced>>

ReadId ==
  /\ rpc = "id"
  /\ HeaderAt(rpos)
  /\ rid' = mem[rpos].id
  /\ raced' = (raced \/ InGap(rpos) \/ ~Complete(rpos))
  /\ rpc' = "datalen"
  /\ UNCHANGED <<pvars, rpos, limit, rlen, rbytes, buf, last, found, early>>

ReadDataLen ==
  /\ rpc = "datalen"
  /\ HeaderAt(rpos)
  /\ rlen' = mem[rpos].len
  /\ rpc' = "bytes"
  /\ UNCHANGED <<pvars, rpos, limit, rid, rbytes, buf, last, found, early, raced>>

ReadBytes ==
  /\ rpc = "bytes"
  /\ HeaderAt(rpos)
  /\ rbytes' = mem[rpos].len
  /\ rpc' = "payload"
  /\ UNCHANGED <<pvars, rpos, limit, rid, rlen, buf, last, found, early, raced>>

Cells(p, n) == [i \in 1..n |-> mem[p + i - 1]]

ReadPayload ==
  /\ rpc = "payload"
  /\ LET room == M - (rpos + HDR)
     IN IF rbytes > room
          THEN buf' = Cells(rpos + HDR, room) /\ rpc' = "wrapped"
          ELSE buf' = Cells(rpos + HDR, rbytes) /\ rpc' = "finish"
  /\ UNCHANGED <<pvars, rpos, limit, rid, rlen, rbytes, last, found, early, raced>>

ReadWrapped ==
  /\ rpc = "wrapped"
  /\ buf' = buf \o Cells(0, rbytes - Len(buf))
  /\ rpc' = "finish"
  /\ UNCHANGED <<pvars, rpos, limit, rid, rlen, rbytes, last, found, early, raced>>

\* The frame that was found, with the length that was sent, and all of its payload.
Whole ==
  /\ rid = found /\ rlen = size[found] /\ rbytes = rlen
  /\ \A i \in 1..rlen : buf[i] = Part("payload", found, i - 1)

\* rc 0, and NextId.
ReadFinish ==
  /\ rpc = "finish"
  /\ HeaderAt(rpos)
  /\ rpos' = mem[rpos].next
  /\ last' = [id |-> rid, intact |-> Whole, early |-> early, behind |-> end - start[found]]
  /\ rpc' = "idle"
  /\ rid' = 0 /\ rlen' = 0 /\ rbytes' = 0 /\ buf' = <<>>
  /\ found' = 0 /\ early' = FALSE
  /\ UNCHANGED <<pvars, limit, raced>>
-----------------------------------------------------------------------------
Producer ==
  \/ \E len \in Lens : SendHeader(len)
  \/ SendPayload \/ SendWrapped \/ SendLink \/ SendCommit \/ SendClear \/ SendMark

Consumer ==
  \/ CreateConsumer
  \/ ReadCheck \/ ReadResync
  \/ ReadLength \/ ReadId \/ ReadDataLen \/ ReadBytes
  \/ ReadPayload \/ ReadWrapped
  \/ ReadFinish \/ Lost

Next == Producer \/ Consumer

\* The producer finishes a frame it has begun, the consumer keeps polling.
Fairness == WF_vars(ppc # "idle" /\ Producer) /\ WF_vars(Consumer)

Spec == Init /\ [][Next]_vars
FairSpec == Spec /\ Fairness
-----------------------------------------------------------------------------
Cell == [kind : {"blank", "header", "payload"}, id : 0..MaxFrames, part : Nat,
         len : Nat, next : 0..M, prev : Addr, ok : BOOLEAN]

TypeOK ==
  /\ mem \in [Addr -> Cell]
  /\ tracks \in Addr /\ commit \in Addr
  /\ curr \in 0..M /\ fhdr \in Addr
  /\ ppc \in {"idle", "payload", "wrapped", "link", "commit", "clear", "mark"}
  /\ rpc \in {"new", "idle", "resync", "length", "id", "datalen", "bytes",
               "payload", "wrapped", "finish", "lost"}
  /\ rpos \in Addr \cup {WILD}
  /\ sent \in 0..MaxFrames

\* A header never reaches past the end of the memory, neither the one the
\* producer fills nor the one it clears for the next frame.
HeadersFit ==
  /\ TypeOK
  /\ fhdr + HDR <= M
  /\ ppc \in {"commit", "clear", "mark", "idle"} => curr + HDR <= M
  /\ rpc \notin {"lost"} => rpos + HDR <= M

\* A consumer less than one lap behind gets what was sent, unless it has loaded the length
\* before the header was complete: the header of the frame to come, sealed and empty, had
\* passed the test at :227.  The lap counts the cells claimed since the frame began, its own
\* included, and the header that the producer clears for the frame after the newest one.
OvertakenBy(behind) == behind + HDR > M
IntactWithinLap == last.early \/ OvertakenBy(last.behind) \/ last.intact

\* Only a consumer that was overtaken since it tested a header goes by overwritten fields.
WildOnlyIfOvertaken == rpc = "lost" => OvertakenBy(end - start[found])

\* The length check of ringBufferReadFrom lets every frame pass.
Accepting == \A len \in Lens : len <= (limit - HDR) % Word

\* When the producer pauses, a polling consumer comes to rest at the header after
\* the newest frame, where ringBufferReadFrom says that there is no newer frame:
\* unless its uninitialised limit rejects the frames.
AtRest == rpos = curr /\ rpc \in {"idle", "length"}
CatchesUp ==
  <>[](ppc = "idle") => <>[](rpc = "lost" \/ sent = 0 \/ ~Accepting \/ AtRest)

\* A consumer goes back in time only if it once has loaded an id from a header that was not
\* complete, the test at :227 having passed on what was there before, or from the gap.
BackOnlyByRace == [][last'.id >= last.id \/ raced]_vars
=============================================================================
