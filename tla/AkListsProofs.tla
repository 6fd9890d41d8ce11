--------------------------- MODULE AkListsProofs ---------------------------
(***************************************************************************)
(* The two linked lists of ak/, for every set of messages, keys and nodes. *)
(*                                                                         *)
(* The list of messages of ak/message.cpp (MsgQueue) is a FIFO             *)
(* and implements the mailbox of Mailboxes.  Its inductive invariant is    *)
(* the conjunction of what the run checks: RepresentsFifo needs            *)
(* NoDuplicates (to set the links of one message leaves the others alone)  *)
(* and TypeOK (the links are functions).                                   *)
(*                                                                         *)
(* The list of timers of ak/timer.cpp (AkTimer) is what its history says   *)
(* and implements Timers.  Its inductive invariant adds to the invariant   *)
(* of the run that no node is linked twice, that a key has one node, and   *)
(* that a walk is under way only while the lock is held.                   *)
(***************************************************************************)
EXTENDS MsgQueue, AkTimer, FiniteSetTheorems, FunctionTheorems, WellFoundedInduction,
        SequenceTheorems, TLAPS
-----------------------------------------------------------------------------
(* The list of messages *)

\* What the run checks, together with the types.
QueueInv == QTypeOK /\ NoDuplicates /\ RepresentsFifo

\* Nothing is linked before the first put.
LEMMA QueueInit == QInit => QueueInv
  BY DEF QInit, QMsgInit, QueueInv, QTypeOK, NoDuplicates, RepresentsFifo

\* q_msg_put keeps the list a list and adds its message at the tail.
LEMMA QueuePut ==
  ASSUME QueueInv, NEW m \in Msgs, QMsgPut(m)
  PROVE  QueueInv'
  <1> DEFINE n == Len(fifo)
  <1>1. /\ n \in Nat
        /\ fifo' = Append(fifo, m)
        /\ Len(fifo') = n + 1
        /\ fifo'[n + 1] = m
        /\ \A i \in 1..n : fifo'[i] = fifo[i] /\ fifo[i] \in Msgs /\ fifo[i] # m
    BY DEF QueueInv, QTypeOK, QMsgPut, Queued
  <1>2. QTypeOK'
    BY DEF QueueInv, QTypeOK, QMsgPut
  <1>3. NoDuplicates'
    BY <1>1 DEF QueueInv, NoDuplicates, QMsgPut
  <1>4. \/ n = 0 /\ qtail = NULL /\ qhead = NULL
        \/ n > 0 /\ qtail = fifo[n] /\ qtail \in Msgs /\ qhead = fifo[1]
    BY <1>1 DEF QueueInv, RepresentsFifo, QTypeOK
  <1>5. RepresentsFifo'
    <2>1. CASE n = 0
      BY <2>1, <1>1, <1>4 DEF QueueInv, RepresentsFifo, QMsgPut, QTypeOK
    <2>2. CASE n > 0
      <3>1. qtail # NULL /\ qtail = fifo[n] /\ qtail # m
        BY <2>2, <1>1, <1>4, NullAssumption DEF QueueInv
      <3>2. /\ qnext' = [qnext EXCEPT ![m] = qtail]
            /\ qprev' = [qprev EXCEPT ![m] = NULL, ![qtail] = m]
            /\ qhead' = qhead /\ qtail' = m /\ len' = len + 1
        BY <3>1 DEF QMsgPut
      <3>3. /\ fifo' # <<>> /\ qhead' = fifo'[1] /\ qtail' = fifo'[Len(fifo')]
            /\ qnext'[qhead'] = NULL /\ qprev'[qtail'] = NULL /\ len' = Len(fifo')
        BY <2>2, <3>1, <3>2, <1>1, <1>4 DEF QueueInv, QTypeOK, RepresentsFifo
      <3>4. ASSUME NEW i \in 1..(Len(fifo') - 1)
            PROVE  qprev'[fifo'[i]] = fifo'[i + 1] /\ qnext'[fifo'[i + 1]] = fifo'[i]
        <4>1. CASE i = n
          BY <4>1, <2>2, <3>1, <3>2, <1>1 DEF QueueInv, QTypeOK
        <4>2. CASE i < n
          <5>1. /\ i \in 1..(n - 1) /\ i \in 1..n /\ i + 1 \in 1..n /\ n \in 1..n
                /\ fifo[i] # fifo[n]
            BY <4>2, <1>1, <2>2 DEF QueueInv, NoDuplicates
          <5>2. qprev[fifo[i]] = fifo[i + 1] /\ qnext[fifo[i + 1]] = fifo[i]
            BY <5>1 DEF QueueInv, RepresentsFifo
          <5> QED
            BY <5>1, <5>2, <3>1, <3>2, <1>1 DEF QueueInv, QTypeOK
        <4> QED
          BY <4>1, <4>2, <1>1
      <3> QED
        BY <3>3, <3>4 DEF RepresentsFifo
    <2> QED
      BY <2>1, <2>2, <1>1
  <1> QED
    BY <1>2, <1>3, <1>5 DEF QueueInv

\* q_msg_get takes the oldest message and leaves the rest a list.
LEMMA QueueGet ==
  ASSUME QueueInv, QMsgGet
  PROVE  QueueInv' /\ fifo # <<>> /\ got' = Head(fifo)
  <1> DEFINE n == Len(fifo)
  <1>1. n \in Nat /\ fifo # <<>> /\ n > 0 /\ qhead = fifo[1] /\ qtail = fifo[n]
    BY DEF QueueInv, QTypeOK, RepresentsFifo, QMsgGet, QMsgAvailable
  <1>2. /\ fifo' = Tail(fifo)
        /\ Len(fifo') = n - 1
        /\ \A i \in 1..n : fifo[i] \in Msgs
        /\ \A i \in 1..(n - 1) : fifo'[i] = fifo[i + 1]
    BY <1>1 DEF QueueInv, QTypeOK, QMsgGet
  <1>3. got' = Head(fifo) /\ got' = fifo[1] /\ got' \in Msgs
    BY <1>1, <1>2 DEF QMsgGet
  <1>4. NoDuplicates'
    BY <1>1, <1>2, <1>3 DEF QueueInv, NoDuplicates
  <1>5. CASE n = 1
    <2>1. qhead = qtail
      BY <1>5, <1>1
    <2>2. QTypeOK' /\ RepresentsFifo'
      BY <2>1, <1>5, <1>1, <1>2, <1>3 DEF QueueInv, QTypeOK, RepresentsFifo, QMsgGet
    <2> QED
      BY <2>2, <1>1, <1>3, <1>4 DEF QueueInv
  <1>6. CASE n > 1
    <2>1. qhead # qtail /\ 1 \in 1..n /\ 2 \in 1..n /\ n \in 1..n /\ 1 \in 1..(n - 1)
      BY <1>6, <1>1 DEF QueueInv, NoDuplicates
    <2>2. qprev[qhead] = fifo[2]
      BY <2>1, <1>1 DEF QueueInv, RepresentsFifo
    <2>3. /\ qhead' = fifo[2] /\ qtail' = qtail /\ len' = len - 1
          /\ qnext' = [qnext EXCEPT ![fifo[2]] = NULL]
          /\ qprev' = [qprev EXCEPT ![fifo[1]] = NULL]
      BY <2>1, <2>2, <1>1 DEF QMsgGet
    <2>4. QTypeOK'
      BY <2>1, <2>3, <1>1, <1>2, <1>3 DEF QueueInv, QTypeOK, RepresentsFifo, QMsgGet
    <2>5. /\ len' = Len(fifo') /\ fifo' # <<>>
          /\ qhead' = fifo'[1] /\ qtail' = fifo'[Len(fifo')]
          /\ qnext'[qhead'] = NULL /\ qprev'[qtail'] = NULL
      <3>1. len' = Len(fifo') /\ fifo' # <<>>
        <4>1. len' = Len(fifo')
          BY <1>1, <1>2, <2>3 DEF QueueInv, RepresentsFifo
        <4>2. Len(fifo') # 0
          BY <1>1, <1>2, <1>6
        <4> QED
          BY <4>1, <4>2
      <3>2. fifo'[1] = fifo[2] /\ fifo'[n - 1] = fifo[n]
        BY <1>1, <1>2, <1>6
      <3>3. qhead' = fifo'[1] /\ qtail' = fifo'[Len(fifo')]
        BY <3>2, <1>1, <1>2, <2>3
      <3>4. qnext'[qhead'] = NULL
        BY <2>1, <2>3, <1>2 DEF QueueInv, QTypeOK
      <3>5. fifo[n] # fifo[1] /\ qprev[fifo[n]] = NULL
        BY <2>1, <1>1, <1>6 DEF QueueInv, NoDuplicates, RepresentsFifo
      <3>6. qprev'[qtail'] = NULL
        BY <3>5, <2>1, <2>3, <1>1, <1>2 DEF QueueInv, QTypeOK
      <3> QED
        BY <3>1, <3>3, <3>4, <3>6
    <2>6. ASSUME NEW i \in 1..(Len(fifo') - 1)
          PROVE  qprev'[fifo'[i]] = fifo'[i + 1] /\ qnext'[fifo'[i + 1]] = fifo'[i]
      <3>1. /\ i + 1 \in 1..(n - 1) /\ i + 1 \in 1..n /\ i + 2 \in 1..n /\ i \in 1..(n - 1)
            /\ (i + 1) + 1 = i + 2
        BY <1>1, <1>2
      <3>2. qprev[fifo[i + 1]] = fifo[i + 2] /\ qnext[fifo[i + 2]] = fifo[i + 1]
        BY <3>1 DEF QueueInv, RepresentsFifo
      <3>3. fifo[i + 1] # fifo[1] /\ fifo[i + 2] # fifo[2]
        BY <3>1, <2>1 DEF QueueInv, NoDuplicates
      <3>4. fifo'[i] = fifo[i + 1] /\ fifo'[i + 1] = fifo[i + 2]
        BY <3>1, <1>2
      <3> QED
        BY <3>1, <3>2, <3>3, <3>4, <2>3, <1>2 DEF QueueInv, QTypeOK
    <2> QED
      BY <2>4, <2>5, <2>6, <1>1, <1>3, <1>4 DEF QueueInv, RepresentsFifo
  <1>7. n \in Nat /\ n > 0
    BY <1>1
  <1> HIDE DEF n
  <1>8. n = 1 \/ n > 1
    BY <1>7
  <1> QED
    BY <1>1, <1>3, <1>5, <1>6, <1>8

\* Every step of message.cpp keeps the list a list.
LEMMA QueueStep == QueueInv /\ [QNext]_qvars => QueueInv'
  <1> SUFFICES ASSUME QueueInv, [QNext]_qvars PROVE QueueInv'
    OBVIOUS
  <1>1. CASE QMsgGet
    BY <1>1, QueueGet
  <1>2. CASE QMsgFree
    BY <1>2, NullAssumption DEF QMsgFree, QueueInv, QTypeOK, NoDuplicates, RepresentsFifo
  <1>3. CASE \E m \in Msgs : QMsgPut(m)
    BY <1>3, QueuePut
  <1>4. CASE UNCHANGED qvars
    BY <1>4 DEF qvars, QueueInv, QTypeOK, NoDuplicates, RepresentsFifo
  <1> QED
    BY <1>1, <1>2, <1>3, <1>4 DEF QNext

\* The links of message.cpp always spell the fifo, and no message is linked
\* twice, for any number of messages.
THEOREM ListIsFifo == QSpec => [](QTypeOK /\ NoDuplicates /\ RepresentsFifo)
  <1>1. QueueInv => QTypeOK /\ NoDuplicates /\ RepresentsFifo
    BY DEF QueueInv
  <1> QED
    BY <1>1, QueueInit, QueueStep, PTL DEF QSpec

\* No message is in the list twice, in whatever order it is put, got and freed.
THEOREM NoDuplicatesTheorem == QSpec => []NoDuplicates
  <1>1. QueueInv => NoDuplicates
    BY DEF QueueInv
  <1> QED
    BY <1>1, QueueInit, QueueStep, PTL DEF QSpec

\* A step of the list is a step of the mailbox it implements, or changes nothing
\* a task can see.
LEMMA QueueRefines == QueueInv /\ [QNext]_qvars => [Box!Next]_(Box!mvars)
  <1> SUFFICES ASSUME QueueInv, [QNext]_qvars PROVE [Box!Next]_(Box!mvars)
    OBVIOUS
  <1> USE DEF Box!mvars
  <1>1. CASE QMsgGet
    <2>1. fifo # <<>> /\ got' = Head(fifo) /\ got = NULL /\ fifo' = Tail(fifo)
      BY <1>1, QueueGet DEF QMsgGet
    <2>2. Box!Receive(0)
      BY <2>1 DEF Box!Receive
    <2> QED
      BY <2>2 DEF Box!Next
  <1>2. CASE QMsgFree
    <2>1. Box!Done(0)
      BY <1>2 DEF Box!Done, QMsgFree
    <2> QED
      BY <2>1 DEF Box!Next
  <1>3. ASSUME NEW m \in Msgs, QMsgPut(m) PROVE Box!Next
    <2>1. m \notin Queued /\ got # m /\ fifo' = Append(fifo, m) /\ got' = got
      BY <1>3 DEF QMsgPut
    <2>2. \A i \in DOMAIN fifo : fifo[i] # m
      BY <2>1 DEF Queued, QueueInv, QTypeOK
    <2>3. Box!Post(0, m)
      BY <2>1, <2>2 DEF Box!Post
    <2> QED
      BY <2>3 DEF Box!Next
  <1>4. CASE UNCHANGED qvars
    BY <1>4 DEF qvars
  <1> QED
    BY <1>1, <1>2, <1>3, <1>4 DEF QNext

\* The doubly linked list implements the mailbox of Mailboxes.tla.
THEOREM QueueImplementsMailbox == QSpec => ImplementsMailbox
  <1>1. QInit => Box!Init
    BY DEF QInit, Box!Init
  <1> QED
    BY <1>1, QueueInit, QueueStep, QueueRefines, PTL DEF QSpec, ImplementsMailbox, Box!Spec
-----------------------------------------------------------------------------
(* The list of timers *)

\* No node is linked twice.
Distinct == \A i, j \in 1..Len(order) : order[i] = order[j] => i = j

\* The links, as ListRepresentsTimers states them.
Linked ==
  /\ order = <<>> => head = NULL /\ tail = NULL
  /\ order # <<>> => /\ tail = order[1] /\ prev[tail] = NULL
                     /\ head = order[Len(order)] /\ next[head] = NULL
  /\ \A i \in 1..(Len(order) - 1) : /\ next[order[i]] = order[i + 1]
                                    /\ prev[order[i + 1]] = order[i]

\* Only timers that have still to expire are in the list, one for a key: timer_set looks
\* the key up before it inserts.
OneTimer ==
  /\ \A n \in Live : data[n].key \in Keys /\ data[n].counter > 0
  /\ \A m, n \in Live : data[m].key = data[n].key => m = n

\* A walk is under way only under the lock, so no other thread frees its node.
CursorInv == cursor # NULL => cursor \in Live /\ locked

\* The inductive invariant.
IInv == TypeOK /\ Distinct /\ Linked /\ OneTimer /\ CursorInv
-----------------------------------------------------------------------------
(* The walk along next *)

\* A set of natural numbers has a least element: what stands in for an induction.
LEMMA Least ==
  ASSUME NEW T \in SUBSET Nat, T # {}
  PROVE  \E x \in T : \A y \in T : x <= y
  <1>1. IsWellFoundedOn(OpToRel(<, Nat), Nat)
    BY NatLessThanWellFounded
  <1>2. PICK x \in T : \A y \in T : <<y, x>> \notin OpToRel(<, Nat)
    BY <1>1, WFMin, Zenon
  <1>3. \A y \in T : ~(y < x)
    BY <1>2 DEF OpToRel
  <1> QED
    BY <1>3

\* A recursive function along next is what any function is that satisfies its equation.
Step(g, c, n) ==
  g = [i \in 0..c |-> IF i = 0 THEN n ELSE IF g[i - 1] = NULL THEN NULL ELSE next[g[i - 1]]]

\* Two functions that satisfy the equation are the same.
LEMMA StepUnique ==
  ASSUME NEW c \in Nat, NEW n, NEW f, NEW g, Step(f, c, n), Step(g, c, n)
  PROVE  f = g
  <1> DEFINE T == {i \in 0..c : f[i] # g[i]}
  <1>0. f = [i \in 0..c |-> f[i]] /\ g = [i \in 0..c |-> g[i]]
    BY Zenon DEF Step
  <1>1. SUFFICES ASSUME T # {} PROVE FALSE
    BY <1>0, Zenon
  <1>2. PICK i \in T : \A j \in T : i <= j
    <2>1. T \in SUBSET Nat
      OBVIOUS
    <2> HIDE DEF T
    <2> QED
      BY <1>1, <2>1, Least
  <1>3. i # 0
    BY <1>2 DEF Step
  <1>4. i - 1 \in 0..c /\ i - 1 \notin T
    BY <1>2, <1>3
  <1>5. f[i - 1] = g[i - 1]
    BY <1>4
  <1>6. f[i] = g[i]
    BY <1>2, <1>3, <1>5 DEF Step
  <1> QED
    BY <1>2, <1>6

\* From(n) is the range of any function that satisfies the equation.
LEMMA WalkIs ==
  ASSUME NEW n, NEW g, IsFiniteSet(Nodes), Step(g, Cardinality(Nodes), n)
  PROVE  From(n) = {g[i] : i \in 0..Cardinality(Nodes)} \ {NULL}
  <1> DEFINE c == Cardinality(Nodes)
             f == CHOOSE f : Step(f, c, n)
  <1>0. c \in Nat
    BY FS_CardinalityType
  <1>1. Step(f, c, n)
    BY Zenon
  <1>2. f = g
    BY <1>0, <1>1, StepUnique
  <1>3. From(n) = {f[i] : i \in 0..c} \ {NULL}
    BY Zenon DEF From, Step
  <1> QED
    BY <1>2, <1>3

\* The neighbours of every node of the list.
LEMMA Links ==
  ASSUME TypeOK, Linked
  PROVE  /\ Len(order) \in Nat /\ Live \subseteq Nodes
         /\ \A i \in 1..Len(order) :
              /\ order[i] \in Nodes /\ order[i] \in Live /\ order[i] # NULL
              /\ next[order[i]] = IF i < Len(order) THEN order[i + 1] ELSE NULL
              /\ prev[order[i]] = IF i > 1 THEN order[i - 1] ELSE NULL
  <1>1. Len(order) \in Nat /\ \A i \in 1..Len(order) : order[i] \in Nodes
    BY DEF TypeOK
  <1>2. ASSUME NEW i \in 1..Len(order)
        PROVE  next[order[i]] = IF i < Len(order) THEN order[i + 1] ELSE NULL
    BY <1>1 DEF TypeOK, Linked
  <1>3. ASSUME NEW i \in 1..Len(order)
        PROVE  prev[order[i]] = IF i > 1 THEN order[i - 1] ELSE NULL
    <2>1. CASE i = 1
      BY <1>1, <2>1 DEF TypeOK, Linked
    <2>2. CASE i > 1
      <3>1. i - 1 \in 1..(Len(order) - 1) /\ (i - 1) + 1 = i
        BY <1>1, <2>2
      <3> QED
        BY <2>2, <3>1 DEF Linked
    <2> QED
      BY <1>1, <2>1, <2>2
  <1>4. Live \subseteq Nodes /\ \A i \in 1..Len(order) : order[i] \in Live
    BY <1>1 DEF Live
  <1> QED
    BY <1>1, <1>2, <1>3, <1>4, TimerAssumption

\* The walk of at most as many steps as there are nodes does not miss any.
LEMMA OrderIsShort ==
  ASSUME TypeOK, Distinct
  PROVE  Cardinality(Nodes) \in Nat /\ Len(order) \in 0..Cardinality(Nodes)
  <1>1. IsFiniteSet(Nodes) /\ Cardinality(Nodes) \in Nat
    BY TimerAssumption, FS_CardinalityType
  <1>2. order \in [1..Len(order) -> Nodes] /\ Len(order) \in Nat
    BY LenProperties DEF TypeOK
  <1>3. order \in Injection(1..Len(order), Nodes)
    BY <1>2 DEF Distinct, Injection, IsInjective
  <1>4. Cardinality(1..Len(order)) <= Cardinality(Nodes)
    BY <1>1, <1>3, FS_Injection
  <1>5. Cardinality(1..Len(order)) = Len(order)
    <2>1. Len(order) \in Int /\ 1 \in Int
      BY <1>2
    <2>2. Cardinality(1..Len(order)) = IF 1 > Len(order) THEN 0 ELSE Len(order) - 1 + 1
      BY <2>1, FS_Interval, Zenon
    <2> QED
      BY <1>2, <2>2
  <1> QED
    BY <1>1, <1>2, <1>4, <1>5

\* The walk from a place in the list meets the places from there on, however long the list.
LEMMA FromPlace ==
  ASSUME TypeOK, Distinct, Linked, NEW p \in 1..Len(order)
  PROVE  From(order[p]) = {order[i] : i \in p..Len(order)}
  <1> DEFINE c == Cardinality(Nodes)
             L == Len(order)
             g == [i \in 0..c |-> IF p + i <= L THEN order[p + i] ELSE NULL]
  <1>1. c \in Nat /\ L \in 0..c /\ L \in Nat /\ p \in Nat
    BY OrderIsShort, Links
  <1>2. ASSUME NEW i \in 0..c
        PROVE  g[i] = IF i = 0 THEN order[p] ELSE IF g[i - 1] = NULL THEN NULL ELSE next[g[i - 1]]
    <2>1. CASE i = 0
      BY <1>1, <2>1
    <2>2. CASE i # 0
      <3>1. i - 1 \in 0..c /\ p + (i - 1) \in Nat
        BY <1>1, <2>2
      <3>2. CASE p + (i - 1) <= L
        <4>1. g[i - 1] = order[p + (i - 1)] /\ p + (i - 1) \in 1..L
          BY <1>1, <3>1, <3>2
        <4>2. /\ order[p + (i - 1)] # NULL
              /\ next[order[p + (i - 1)]] = IF p + (i - 1) < L THEN order[(p + (i - 1)) + 1] ELSE NULL
          BY <4>1, Links
        <4>3. (p + (i - 1)) + 1 = p + i /\ (p + (i - 1) < L <=> p + i <= L)
          BY <1>1
        <4> QED
          BY <2>2, <4>1, <4>2, <4>3
      <3>3. CASE ~(p + (i - 1) <= L)
        BY <1>1, <2>2, <3>1, <3>3
      <3> QED
        BY <3>2, <3>3
    <2> QED
      BY <2>1, <2>2
  <1>3. Step(g, c, order[p])
    BY <1>2 DEF Step
  <1>4. From(order[p]) = {g[i] : i \in 0..c} \ {NULL}
    BY <1>3, WalkIs, TimerAssumption
  <1>5. ASSUME NEW x \in From(order[p]) PROVE x \in {order[i] : i \in p..L}
    <2>1. PICK i \in 0..c : x = g[i] /\ x # NULL
      BY <1>4
    <2>2. p + i <= L /\ x = order[p + i]
      BY <2>1
    <2> QED
      BY <1>1, <2>1, <2>2
  <1>6. ASSUME NEW i \in p..L PROVE order[i] \in From(order[p])
    <2>1. i - p \in 0..c /\ p + (i - p) = i /\ i \in 1..L
      BY <1>1
    <2>2. g[i - p] = order[i] /\ order[i] # NULL
      BY <1>1, <2>1, Links
    <2> QED
      BY <1>4, <2>1, <2>2
  <1> QED
    BY <1>5, <1>6

\* There is nothing behind the end.
LEMMA FromNull == From(NULL) = {}
  <1> DEFINE c == Cardinality(Nodes)
             g == [i \in 0..c |-> NULL]
  <1>0. c \in Nat
    BY TimerAssumption, FS_CardinalityType
  <1>1. Step(g, c, NULL)
    BY <1>0 DEF Step
  <1>2. From(NULL) = {g[i] : i \in 0..c} \ {NULL}
    BY <1>1, WalkIs, TimerAssumption
  <1> QED
    BY <1>2

\* timer_set and timer_remove_attr find the timers that are in the list.
LEMMA FoundInList ==
  ASSUME TypeOK, Distinct, Linked, NEW k
  PROVE  /\ From(tail) = Live
         /\ Found(k) = {n \in Live : data[n].key = k}
  <1>1. From(tail) = Live
    <2>1. CASE order = <<>>
      BY <2>1, FromNull DEF Linked, Live
    <2>2. CASE order # <<>>
      <3>1. tail = order[1] /\ 1 \in 1..Len(order)
        BY <2>2 DEF Linked, TypeOK
      <3> QED
        BY <3>1, FromPlace DEF Live
    <2> QED
      BY <2>1, <2>2
  <1> QED
    BY <1>1 DEF Found
-----------------------------------------------------------------------------
(* Removal and insertion *)

\* The four cases of timer_service_remove_node do one and the same thing.
LEMMA UnlinkIs ==
  ASSUME TypeOK, Distinct, Linked, NEW p \in 1..Len(order), Unlink(order[p])
  PROVE  /\ next' = [m \in Nodes |-> IF m = order[p] THEN NULL
                                     ELSE IF p > 1 /\ m = order[p - 1] THEN next[order[p]]
                                     ELSE next[m]]
         /\ prev' = [m \in Nodes |-> IF m = order[p] THEN NULL
                                     ELSE IF p < Len(order) /\ m = order[p + 1] THEN prev[order[p]]
                                     ELSE prev[m]]
         /\ tail' = IF p = 1 THEN next[order[p]] ELSE tail
         /\ head' = IF p = Len(order) THEN prev[order[p]] ELSE head
  <1> DEFINE L == Len(order)
             n == order[p]
  <1>1. /\ L \in Nat /\ p \in 1..L /\ n \in Nodes /\ n # NULL
        /\ next[n] = IF p < L THEN order[p + 1] ELSE NULL
        /\ prev[n] = IF p > 1 THEN order[p - 1] ELSE NULL
        /\ next \in [Nodes -> Nodes \cup {NULL}] /\ prev \in [Nodes -> Nodes \cup {NULL}]
        /\ tail = order[1] /\ head = order[L]
    <2>1. order # <<>>
      BY Links DEF TypeOK
    <2> QED
      BY <2>1, Links DEF TypeOK, Linked
  <1>2. /\ p < L => p + 1 \in 1..L /\ order[p + 1] \in Nodes /\ order[p + 1] # NULL
                    /\ order[p + 1] # n
        /\ p > 1 => p - 1 \in 1..L /\ order[p - 1] \in Nodes /\ order[p - 1] # NULL
                    /\ order[p - 1] # n
        /\ p > 1 /\ p < L => order[p - 1] # order[p + 1]
    BY <1>1, Links DEF Distinct
  <1>3. CASE next[n] = NULL /\ prev[n] = NULL
    <2>1. ~(p < L) /\ ~(p > 1)
      BY <1>1, <1>2, <1>3, Zenon
    <2>2. p = 1 /\ L = 1
      BY <1>1, <2>1
    <2>3. head' = NULL /\ tail' = NULL /\ next' = next /\ prev' = prev
      BY <1>3 DEF Unlink
    <2> QED
      BY <1>1, <1>3, <2>2, <2>3
  <1>4. CASE next[n] # NULL /\ prev[n] # NULL
    <2>1. p > 1 /\ p < L
      BY <1>1, <1>4
    <2>2. /\ prev' = [[prev EXCEPT ![next[n]] = prev[n]] EXCEPT ![n] = NULL]
          /\ next' = [[next EXCEPT ![prev[n]] = next[n]] EXCEPT ![n] = NULL]
          /\ head' = head /\ tail' = tail
      BY <1>4 DEF Unlink, Freed
    <2>3. next[n] = order[p + 1] /\ prev[n] = order[p - 1]
      BY <1>1, <2>1
    <2> HIDE DEF n, L
    <2>4. prev' = [m \in Nodes |-> IF m = n THEN NULL ELSE IF m = order[p + 1] THEN prev[n] ELSE prev[m]]
      BY <1>1, <1>2, <2>1, <2>2, <2>3
    <2>5. next' = [m \in Nodes |-> IF m = n THEN NULL ELSE IF m = order[p - 1] THEN next[n] ELSE next[m]]
      BY <1>1, <1>2, <2>1, <2>2, <2>3
    <2>6. p # 1 /\ p # L
      BY <1>1, <2>1
    <2> QED
      BY <2>1, <2>2, <2>4, <2>5, <2>6 DEF n, L
  <1>5. CASE next[n] # NULL /\ prev[n] = NULL
    <2>1. p = 1 /\ p < L /\ tail = n
      BY <1>1, <1>2, <1>5
    <2>2. /\ tail' = next[n] /\ head' = head
          /\ prev' = [prev EXCEPT ![next[n]] = NULL]
          /\ next' = [next EXCEPT ![n] = NULL]
      BY <1>5, <2>1 DEF Unlink, Freed
    <2> QED
      BY <1>1, <1>2, <1>5, <2>1, <2>2
  <1>6. CASE next[n] = NULL /\ prev[n] # NULL
    <2>1. p = L /\ p > 1 /\ head = n
      BY <1>1, <1>2, <1>6
    <2>2. /\ head' = prev[n] /\ tail' = tail
          /\ next' = [next EXCEPT ![prev[n]] = NULL]
          /\ prev' = [prev EXCEPT ![n] = NULL]
      BY <1>6, <2>1 DEF Unlink, Freed
    <2> QED
      BY <1>1, <1>2, <1>6, <2>1, <2>2
  <1> QED
    BY <1>3, <1>4, <1>5, <1>6

\* The order without one of its places.
LEMMA WithoutPlace ==
  ASSUME TypeOK, Distinct, NEW p \in 1..Len(order), order' = Without(order[p])
  PROVE  /\ order' \in Seq(Nodes) /\ Len(order') = Len(order) - 1
         /\ \A i \in 1..(Len(order) - 1) :
              order'[i] = IF i < p THEN order[i] ELSE order[i + 1]
         /\ Distinct'
         /\ Live' = Live \ {order[p]}
  <1> DEFINE L == Len(order)
             q == CHOOSE i \in 1..L : order[i] = order[p]
  <1>1. L \in Nat /\ \A i \in 1..L : order[i] \in Nodes
    BY DEF TypeOK
  <1>2. q = p
    <2>1. q \in 1..L /\ order[q] = order[p]
      OBVIOUS
    <2> QED
      BY <2>1 DEF Distinct
  <1>3. order' = [i \in 1..(L - 1) |-> IF i < p THEN order[i] ELSE order[i + 1]]
    <2>1. order' = [i \in 1..(L - 1) |-> IF i < q THEN order[i] ELSE order[i + 1]]
      BY Zenon DEF Without
    <2> QED
      BY <1>2, <2>1
  <1>4. L - 1 \in Nat
    BY <1>1
  <1>5. order' \in Seq(Nodes) /\ Len(order') = L - 1
    BY <1>1, <1>3, <1>4
  <1>6. \A i \in 1..(L - 1) : order'[i] = IF i < p THEN order[i] ELSE order[i + 1]
    BY <1>3
  <1>7. Distinct'
    <2> SUFFICES ASSUME NEW i \in 1..(L - 1), NEW j \in 1..(L - 1), order'[i] = order'[j]
                 PROVE  i = j
      BY <1>5 DEF Distinct
    <2> QED
      BY <1>1, <1>6 DEF Distinct
  <1>8. ASSUME NEW x \in Live, x # order[p] PROVE x \in Live'
    <2>1. PICK i \in 1..L : x = order[i]
      BY DEF Live
    <2>2. CASE i < p
      <3>1. i \in 1..(L - 1) /\ order'[i] = x
        BY <1>1, <1>6, <2>1, <2>2
      <3> QED
        BY <1>5, <3>1 DEF Live
    <2>3. CASE i > p
      <3>1. i - 1 \in 1..(L - 1) /\ ~(i - 1 < p) /\ (i - 1) + 1 = i
        BY <1>1, <2>3
      <3>2. order'[i - 1] = x
        BY <1>6, <2>1, <3>1
      <3> QED
        BY <1>5, <3>1, <3>2 DEF Live
    <2> QED
      BY <1>1, <1>8, <2>1, <2>2, <2>3
  <1>9. ASSUME NEW x \in Live' PROVE x \in Live /\ x # order[p]
    <2>1. PICK i \in 1..(L - 1) : x = order'[i]
      BY <1>5 DEF Live
    <2>2. PICK j \in 1..L : j # p /\ x = order[j]
      BY <1>1, <1>6, <2>1
    <2> QED
      BY <2>2 DEF Live, Distinct
  <1> QED
    BY <1>5, <1>6, <1>7, <1>8, <1>9

\* What is left after a removal is linked, newest first.
LEMMA UnlinkKeeps ==
  ASSUME TypeOK, Distinct, Linked, NEW p \in 1..Len(order), Unlink(order[p])
  PROVE  /\ head' \in Nodes \cup {NULL} /\ tail' \in Nodes \cup {NULL}
         /\ next' \in [Nodes -> Nodes \cup {NULL}] /\ prev' \in [Nodes -> Nodes \cup {NULL}]
         /\ Linked'
  <1> DEFINE L == Len(order)
             n == order[p]
  <1>1. order' = Without(n)
    BY DEF Unlink
  <1>2. /\ order' \in Seq(Nodes) /\ Len(order') = L - 1
        /\ \A i \in 1..(L - 1) : order'[i] = IF i < p THEN order[i] ELSE order[i + 1]
    BY <1>1, WithoutPlace
  <1>3. /\ L \in Nat /\ n \in Nodes
        /\ \A i \in 1..L :
             /\ order[i] \in Nodes
             /\ next[order[i]] = IF i < L THEN order[i + 1] ELSE NULL
             /\ prev[order[i]] = IF i > 1 THEN order[i - 1] ELSE NULL
    BY Links
  <1>4. /\ next' = [m \in Nodes |-> IF m = n THEN NULL
                                     ELSE IF p > 1 /\ m = order[p - 1] THEN next[n]
                                     ELSE next[m]]
        /\ prev' = [m \in Nodes |-> IF m = n THEN NULL
                                     ELSE IF p < L /\ m = order[p + 1] THEN prev[n]
                                     ELSE prev[m]]
        /\ tail' = IF p = 1 THEN next[n] ELSE tail
        /\ head' = IF p = L THEN prev[n] ELSE head
    BY UnlinkIs
  <1>5. /\ head' \in Nodes \cup {NULL} /\ tail' \in Nodes \cup {NULL}
        /\ next' \in [Nodes -> Nodes \cup {NULL}] /\ prev' \in [Nodes -> Nodes \cup {NULL}]
    BY <1>3, <1>4 DEF TypeOK
  <1> HIDE DEF n, L
  <1>6. ASSUME NEW i \in 1..(L - 1)
        PROVE  /\ next'[order'[i]] = IF i < L - 1 THEN order'[i + 1] ELSE NULL
               /\ prev'[order'[i]] = IF i > 1 THEN order'[i - 1] ELSE NULL
    <2> DEFINE j == IF i < p THEN i ELSE i + 1
    <2>1. /\ j \in 1..L /\ j # p /\ order'[i] = order[j]
          /\ order[j] # n /\ order[j] \in Nodes
      <3>1. j \in 1..L /\ j # p /\ i \in 1..L
        BY <1>3
      <3>2. order'[i] = order[j]
        BY <1>2
      <3>3. order[j] # n
        BY <3>1 DEF Distinct, n, L
      <3> QED
        BY <1>3, <3>1, <3>2, <3>3
    <2>2. /\ p > 1 => p - 1 \in 1..L /\ (order[j] = order[p - 1] <=> j = p - 1)
          /\ p < L => p + 1 \in 1..L /\ (order[j] = order[p + 1] <=> j = p + 1)
      BY <2>1, <1>3 DEF Distinct, L
    <2>3. next'[order'[i]] = IF p > 1 /\ j = p - 1 THEN next[n] ELSE next[order[j]]
      BY <1>4, <2>1, <2>2
    <2>4. prev'[order'[i]] = IF p < L /\ j = p + 1 THEN prev[n] ELSE prev[order[j]]
      BY <1>4, <2>1, <2>2
    <2>5. next[n] = (IF p < L THEN order[p + 1] ELSE NULL) /\ prev[n] = (IF p > 1 THEN order[p - 1] ELSE NULL)
      BY <1>3 DEF n, L
    <2>6. next'[order'[i]] = IF i < L - 1 THEN order'[i + 1] ELSE NULL
      <3>1. CASE i < L - 1
        <4>1. order'[i + 1] = IF i + 1 < p THEN order[i + 1] ELSE order[i + 2]
          <5>1. i + 1 \in 1..(L - 1) /\ (i + 1) + 1 = i + 2
            BY <1>3, <3>1
          <5> QED
            BY <1>2, <5>1
        <4> QED
          BY <1>3, <2>1, <2>3, <2>5, <3>1, <4>1 DEF L
      <3>2. CASE ~(i < L - 1)
        BY <1>3, <2>1, <2>3, <2>5, <3>2 DEF L
      <3> QED
        BY <3>1, <3>2
    <2>7. prev'[order'[i]] = IF i > 1 THEN order'[i - 1] ELSE NULL
      <3>1. CASE i > 1
        <4>1. order'[i - 1] = IF i - 1 < p THEN order[i - 1] ELSE order[i]
          BY <1>2, <1>3, <3>1
        <4> QED
          BY <1>3, <2>1, <2>4, <2>5, <3>1, <4>1 DEF L
      <3>2. CASE ~(i > 1)
        BY <1>3, <2>1, <2>4, <2>5, <3>2 DEF L
      <3> QED
        BY <3>1, <3>2
    <2> QED
      BY <2>6, <2>7
  <1>7. ASSUME order' = <<>> PROVE head' = NULL /\ tail' = NULL
    <2>1. L = 1 /\ p = 1
      <3>1. L - 1 = 0
        BY <1>2, <1>7
      <3>2. p \in 1..L
        BY DEF L
      <3> QED
        BY <1>3, <3>1, <3>2
    <2> QED
      BY <1>3, <1>4, <2>1 DEF n
  <1>8. ASSUME order' # <<>>
        PROVE  /\ tail' = order'[1] /\ prev'[tail'] = NULL
               /\ head' = order'[Len(order')] /\ next'[head'] = NULL
    <2>1. L > 1 /\ 1 \in 1..(L - 1) /\ L - 1 \in 1..(L - 1)
      BY <1>2, <1>3, <1>8
    <2>2. order # <<>> /\ tail = order[1] /\ head = order[L]
      BY <2>1 DEF Linked, L
    <2>3. order'[1] = IF p = 1 THEN order[2] ELSE order[1]
      BY <1>2, <2>1 DEF L
    <2>4. order'[L - 1] = IF p = L THEN order[L - 1] ELSE order[L]
      BY <1>2, <1>3, <2>1 DEF L
    <2>5. tail' = order'[1]
      BY <1>3, <1>4, <2>1, <2>2, <2>3 DEF n, L
    <2>6. head' = order'[L - 1]
      BY <1>3, <1>4, <2>1, <2>2, <2>4 DEF n, L
    <2> QED
      BY <1>2, <1>6, <2>1, <2>5, <2>6
  <1>9. \A i \in 1..(Len(order') - 1) : /\ next'[order'[i]] = order'[i + 1]
                                        /\ prev'[order'[i + 1]] = order'[i]
    <2> SUFFICES ASSUME NEW i \in 1..(Len(order') - 1)
                 PROVE  next'[order'[i]] = order'[i + 1] /\ prev'[order'[i + 1]] = order'[i]
      OBVIOUS
    <2>1. i \in 1..(L - 1) /\ i + 1 \in 1..(L - 1) /\ i < L - 1 /\ i + 1 > 1 /\ (i + 1) - 1 = i
      BY <1>2, <1>3
    <2> QED
      BY <1>6, <2>1
  <1> QED
    BY <1>5, <1>7, <1>8, <1>9 DEF Linked

\* malloc returns a node that is not linked; at the tail it makes a longer list.
LEMMA InsertKeeps ==
  ASSUME TypeOK, Distinct, Linked, NEW k, NEW duty, NEW periodic, NEW n \in Nodes,
         Insert(k, duty, periodic, n)
  PROVE  /\ head' \in Nodes \cup {NULL} /\ tail' \in Nodes \cup {NULL}
         /\ next' \in [Nodes -> Nodes \cup {NULL}] /\ prev' \in [Nodes -> Nodes \cup {NULL}]
         /\ order' \in Seq(Nodes)
         /\ Distinct' /\ Linked'
         /\ Live' = Live \cup {n}
  <1> DEFINE L == Len(order)
  <1>1. /\ L \in Nat
        /\ \A i \in 1..L : order[i] \in Nodes /\ order[i] \in Live
    BY Links
  <1>2. /\ n \notin Live /\ order' = <<n>> \o order /\ tail' = n
        /\ head' = IF tail = NULL THEN n ELSE head
        /\ next' = [next EXCEPT ![n] = tail]
        /\ prev' = [m \in Nodes |-> IF m = n THEN NULL ELSE IF m = tail THEN n ELSE prev[m]]
    BY DEF Insert
  <1>3. /\ order' \in Seq(Nodes) /\ Len(order') = L + 1 /\ order'[1] = n
        /\ \A i \in 2..(L + 1) : order'[i] = order[i - 1]
    BY <1>1, <1>2 DEF TypeOK
  <1> HIDE DEF L
  <1>4. /\ head' \in Nodes \cup {NULL} /\ tail' \in Nodes \cup {NULL}
        /\ next' \in [Nodes -> Nodes \cup {NULL}] /\ prev' \in [Nodes -> Nodes \cup {NULL}]
    BY <1>2 DEF TypeOK
  <1>5. Distinct'
    <2> SUFFICES ASSUME NEW i \in 1..(L + 1), NEW j \in 1..(L + 1), order'[i] = order'[j]
                 PROVE  i = j
      BY <1>3 DEF Distinct
    <2>1. \A m \in 2..(L + 1) : m - 1 \in 1..L /\ order'[m] = order[m - 1] /\ order'[m] # n
      BY <1>1, <1>2, <1>3
    <2> QED
      BY <1>1, <1>3, <2>1 DEF Distinct, L
  <1>6. Live' = Live \cup {n}
    <2>1. ASSUME NEW x \in Live' PROVE x \in Live \cup {n}
      <3>1. PICK i \in 1..(L + 1) : x = order'[i]
        BY <1>3 DEF Live
      <3>2. i # 1 => i \in 2..(L + 1) /\ i - 1 \in 1..L
        BY <1>1
      <3> QED
        BY <1>1, <1>3, <3>1, <3>2
    <2>2. ASSUME NEW x \in Live PROVE x \in Live'
      <3>1. PICK i \in 1..L : x = order[i]
        BY DEF Live, L
      <3>2. i + 1 \in 2..(L + 1) /\ i + 1 \in 1..(L + 1) /\ (i + 1) - 1 = i
        BY <1>1
      <3>3. order'[i + 1] = x
        BY <1>3, <3>1, <3>2
      <3> QED
        BY <1>3, <3>2, <3>3 DEF Live
    <2>3. n \in Live'
      BY <1>1, <1>3 DEF Live
    <2> QED
      BY <2>1, <2>2, <2>3
  <1>7. Linked'
    <2>1. order' # <<>>
      BY <1>1, <1>3
    <2>2. tail' = order'[1] /\ prev'[tail'] = NULL
      BY <1>2, <1>3
    <2>3. head' = order'[Len(order')] /\ next'[head'] = NULL
      <3>1. CASE order = <<>>
        <4>1. L = 0 /\ tail = NULL
          BY <3>1 DEF Linked, L
        <4> QED
          BY <1>2, <1>3, <4>1 DEF TypeOK
      <3>2. CASE order # <<>>
        <4>1. L > 0 /\ L \in 1..L /\ tail = order[1] /\ head = order[L] /\ next[head] = NULL
          BY <1>1, <3>2 DEF Linked, L, TypeOK
        <4>2. tail # NULL /\ head \in Nodes /\ head # n
          BY <1>1, <1>2, <4>1, TimerAssumption
        <4>3. order'[L + 1] = order[L]
          <5>1. L + 1 \in 2..(L + 1) /\ (L + 1) - 1 = L
            BY <1>1, <4>1
          <5> QED
            BY <1>3, <5>1
        <4> QED
          BY <1>2, <1>3, <4>1, <4>2, <4>3 DEF TypeOK
      <3> QED
        BY <3>1, <3>2
    <2>4. ASSUME NEW i \in 1..(Len(order') - 1)
          PROVE  next'[order'[i]] = order'[i + 1] /\ prev'[order'[i + 1]] = order'[i]
      <3>1. i \in 1..L /\ i + 1 \in 2..(L + 1) /\ (i + 1) - 1 = i /\ order'[i + 1] = order[i]
        BY <1>1, <1>3
      <3>2. order # <<>> /\ tail = order[1] /\ order[i] \in Nodes /\ order[i] # n
        BY <1>1, <1>2, <3>1 DEF Linked, L
      <3>3. CASE i = 1
        BY <1>2, <1>3, <3>1, <3>2, <3>3 DEF TypeOK
      <3>4. CASE i # 1
        <4>1. /\ i - 1 \in 1..(L - 1) /\ (i - 1) + 1 = i /\ 1 \in 1..L /\ i - 1 \in 1..L
              /\ order'[i] = order[i - 1]
          BY <1>1, <1>3, <3>1, <3>4
        <4>2. next[order[i - 1]] = order[i] /\ prev[order[i]] = order[i - 1]
          BY <4>1 DEF Linked, L
        <4>3. order[i] # tail /\ order[i - 1] # n /\ order[i - 1] \in Nodes
          BY <1>1, <1>2, <3>1, <3>2, <3>4, <4>1 DEF Distinct, L
        <4> QED
          BY <1>2, <3>1, <3>2, <4>1, <4>2, <4>3 DEF TypeOK
      <3> QED
        BY <3>3, <3>4
    <2> QED
      BY <2>1, <2>2, <2>3, <2>4 DEF Linked
  <1> QED
    BY <1>3, <1>4, <1>5, <1>6, <1>7
-----------------------------------------------------------------------------
(* The invariant *)

\* No timer is armed at the start.
LEMMA InitIInv == Init => IInv
  <1> SUFFICES ASSUME Init PROVE IInv
    OBVIOUS
  <1>1. TypeOK
    <2>1. NoData \in Timer
      BY DEF NoData, Timer
    <2>2. <<>> \in Seq(Nodes) /\ <<>> \in Seq(Keys) /\ 0 \in 0..MaxBacklog
      BY TimerAssumption
    <2>3. head = NULL /\ tail = NULL /\ cursor = NULL
      BY DEF Init
    <2> QED
      BY <2>1, <2>2, <2>3 DEF Init, TypeOK
  <1>2. Live = {}
    BY DEF Init, Live
  <1>3. Linked /\ Distinct
    BY DEF Init, Linked, Distinct
  <1> QED
    BY <1>1, <1>2, <1>3 DEF Init, IInv, OneTimer, CursorInv

\* The node of a key is the only one, and has a place in the list.
LEMMA TheNode ==
  ASSUME IInv, NEW k, Found(k) # {}
  PROVE  LET n == CHOOSE n \in Found(k) : TRUE
         IN /\ n \in Live /\ n \in Nodes /\ data[n].key = k
            /\ Found(k) = {n}
            /\ \E p \in 1..Len(order) : n = order[p]
  <1> DEFINE n == CHOOSE n \in Found(k) : TRUE
  <1>1. n \in Found(k)
    OBVIOUS
  <1>2. Found(k) = {m \in Live : data[m].key = k}
    BY FoundInList DEF IInv
  <1>3. n \in Live /\ data[n].key = k
    BY <1>1, <1>2
  <1>4. n \in Nodes
    BY <1>3, Links DEF IInv
  <1>5. Found(k) = {n}
    BY <1>2, <1>3 DEF IInv, OneTimer
  <1>6. \E p \in 1..Len(order) : n = order[p]
    BY <1>3 DEF Live
  <1> QED
    BY <1>3, <1>4, <1>5, <1>6

\* The rest of a timer's node is left alone when its node is removed.
LEMMA RemoveKeeps ==
  ASSUME IInv, NEW n \in Live, Unlink(n), data' = Freed(data, n, NoData)
  PROVE  /\ head' \in Nodes \cup {NULL} /\ tail' \in Nodes \cup {NULL}
         /\ next' \in [Nodes -> Nodes \cup {NULL}] /\ prev' \in [Nodes -> Nodes \cup {NULL}]
         /\ data' \in [Nodes -> Timer] /\ order' \in Seq(Nodes)
         /\ Distinct' /\ Linked' /\ OneTimer'
         /\ Live' = Live \ {n}
         /\ \A m \in Live' : data'[m] = data[m]
  <1>1. PICK p \in 1..Len(order) : n = order[p]
    BY DEF Live
  <1>2. /\ head' \in Nodes \cup {NULL} /\ tail' \in Nodes \cup {NULL}
        /\ next' \in [Nodes -> Nodes \cup {NULL}] /\ prev' \in [Nodes -> Nodes \cup {NULL}]
        /\ Linked'
    BY <1>1, UnlinkKeeps DEF IInv
  <1>3. order' \in Seq(Nodes) /\ Distinct' /\ Live' = Live \ {n}
    BY <1>1, WithoutPlace DEF IInv, Unlink
  <1>4. NoData \in Timer
    BY DEF NoData, Timer
  <1>5. data' = [data EXCEPT ![n] = NoData] /\ data \in [Nodes -> Timer] /\ Live \subseteq Nodes
    BY Links DEF Freed, IInv, TypeOK
  <1>6. data' \in [Nodes -> Timer] /\ \A m \in Live' : data'[m] = data[m]
    BY <1>3, <1>4, <1>5
  <1>7. OneTimer'
    BY <1>3, <1>6 DEF IInv, OneTimer
  <1> QED
    BY <1>2, <1>3, <1>6, <1>7

\* timer_set keeps the invariant: it refreshes the one node of the key or inserts one.
LEMMA SetStep ==
  ASSUME IInv, NEW k \in Keys, NEW duty \in Duties, NEW periodic \in BOOLEAN,
         TimerSet(k, duty, periodic)
  PROVE  IInv'
  <1>0. duty \in Nat /\ Unit \in Nat \ {0}
    BY TimerAssumption
  <1>1. CASE duty < Unit
    BY <1>1 DEF TimerSet, IInv, TypeOK, Distinct, Linked, OneTimer, CursorInv, Live, listVars
  <1>2. CASE ~(duty < Unit) /\ Found(k) # {} /\ Refresh(k, duty)
    <2> DEFINE n == CHOOSE n \in Found(k) : TRUE
    <2>1. UNCHANGED <<listVars, backlog, locked, cursor, mail, fatal>>
      BY <1>2 DEF TimerSet, Refresh
    <2>2. n \in Live /\ n \in Nodes /\ Live \subseteq Nodes
      BY <1>2, TheNode, Links DEF IInv
    <2>3. data' = [data EXCEPT ![n].counter = duty]
      BY <1>2 DEF Refresh
    <2> HIDE DEF n
    <2>4. data' \in [Nodes -> Timer]
      BY <1>0, <2>2, <2>3 DEF IInv, TypeOK, Timer
    <2>5. /\ \A m \in Live : data'[m].key = data[m].key
          /\ \A m \in Live : data'[m].counter > 0
      BY <1>0, <1>2, <2>2, <2>3 DEF IInv, TypeOK, Timer, OneTimer
    <2>6. Live' = Live
      BY <2>1 DEF Live, listVars
    <2>7. OneTimer'
      BY <2>5, <2>6 DEF IInv, OneTimer
    <2> QED
      BY <2>1, <2>4, <2>6, <2>7 DEF IInv, TypeOK, Distinct, Linked, CursorInv, listVars
  <1>3. ASSUME ~(duty < Unit), Found(k) = {}, NEW n \in Nodes, Insert(k, duty, periodic, n),
               UNCHANGED <<backlog, locked, cursor, mail, fatal>>
        PROVE  IInv'
    <2>1. /\ head' \in Nodes \cup {NULL} /\ tail' \in Nodes \cup {NULL}
          /\ next' \in [Nodes -> Nodes \cup {NULL}] /\ prev' \in [Nodes -> Nodes \cup {NULL}]
          /\ order' \in Seq(Nodes)
          /\ Distinct' /\ Linked'
          /\ Live' = Live \cup {n}
      BY <1>3, InsertKeeps DEF IInv
    <2> DEFINE t == [key |-> k, counter |-> duty, period |-> IF periodic THEN duty ELSE 0]
    <2>2. data' = [data EXCEPT ![n] = t] /\ t \in Timer /\ n \notin Live
      BY <1>0, <1>3 DEF Insert, Timer
    <2>3. data' \in [Nodes -> Timer] /\ Live \subseteq Nodes
      BY <2>2, Links DEF IInv, TypeOK
    <2>4. data'[n] = t /\ \A m \in Live : data'[m] = data[m] /\ data[m].key # k
      <3>1. \A m \in Live : data[m].key # k
        BY <1>3, FoundInList DEF IInv
      <3> QED
        BY <2>2, <2>3, <3>1 DEF IInv, TypeOK
    <2>5. t.key = k /\ t.counter > 0
      BY <1>0, <1>3
    <2> HIDE DEF t
    <2>6. OneTimer'
      BY <2>1, <2>4, <2>5 DEF IInv, OneTimer
    <2> QED
      BY <1>3, <2>1, <2>3, <2>6 DEF IInv, TypeOK, CursorInv
  <1> QED
    BY <1>1, <1>2, <1>3 DEF TimerSet

\* timer_remove_attr keeps the invariant: no walk is under way while it holds the lock.
LEMMA RemoveAttrStep ==
  ASSUME IInv, NEW k \in Keys, TimerRemoveAttr(k)
  PROVE  IInv'
  <1> DEFINE n == CHOOSE n \in Found(k) : TRUE
  <1>1. Found(k) # {} /\ Unlink(n) /\ data' = Freed(data, n, NoData) /\ ~locked
        /\ UNCHANGED <<backlog, locked, cursor, mail, fatal>>
    BY DEF TimerRemoveAttr
  <1>2. n \in Live
    BY <1>1, TheNode
  <1> HIDE DEF n
  <1> QED
    BY <1>1, <1>2, RemoveKeeps DEF IInv, TypeOK, CursorInv

\* What one turn of the handler's loop does.
LEMMA NodeCases ==
  ASSUME IInv, HandlerNode
  PROVE  LET c == data[cursor].counter - Unit
             k == data[cursor].key
         IN /\ cursor \in Live /\ cursor \in Nodes /\ k \in Keys /\ locked /\ c \in Int
            /\ cursor' = next[cursor] /\ UNCHANGED <<backlog, locked, fatal>>
            /\ \/ /\ c > 0 /\ data' = [data EXCEPT ![cursor].counter = c]
                  /\ UNCHANGED <<listVars, mail>>
               \/ /\ ~(c > 0) /\ mail' = Append(mail, k)
                  /\ data[cursor].period # 0
                  /\ data' = [data EXCEPT ![cursor].counter = data[cursor].period]
                  /\ UNCHANGED listVars
               \/ /\ ~(c > 0) /\ mail' = Append(mail, k)
                  /\ data[cursor].period = 0
                  /\ Unlink(cursor) /\ data' = Freed(data, cursor, NoData)
  <1> DEFINE c == data[cursor].counter - Unit
             k == data[cursor].key
             d == [data[cursor] EXCEPT !.counter = @ - Unit]
  <1>1. cursor \in Live /\ locked /\ cursor \in Nodes /\ data \in [Nodes -> Timer]
    BY Links DEF HandlerNode, IInv, CursorInv, TypeOK
  <1>2. data[cursor] \in Timer /\ k \in Keys
    BY <1>1 DEF IInv, OneTimer
  <1>3. d.counter = c /\ d.key = k /\ d.period = data[cursor].period /\ c \in Int
    BY <1>2, TimerAssumption DEF Timer
  <1>4. [data EXCEPT ![cursor] = d] = [data EXCEPT ![cursor].counter = c]
    BY <1>1, <1>2 DEF Timer
  <1>5. [data EXCEPT ![cursor] = [d EXCEPT !.counter = d.period]]
          = [data EXCEPT ![cursor].counter = data[cursor].period]
    <2>1. [d EXCEPT !.counter = d.period] = [data[cursor] EXCEPT !.counter = data[cursor].period]
      BY <1>2, <1>3 DEF Timer
    <2> QED
      BY <1>1, <2>1
  <1>6. (CHOOSE n \in Found(k) : TRUE) = cursor
    <2>1. cursor \in Found(k)
      BY <1>1, FoundInList DEF IInv
    <2> QED
      BY <2>1, TheNode
  <1>7. /\ cursor' = next[cursor] /\ UNCHANGED <<backlog, locked, fatal>>
        /\ IF d.counter > 0
             THEN /\ data' = [data EXCEPT ![cursor] = d]
                  /\ UNCHANGED <<listVars, mail>>
             ELSE /\ mail' = Append(mail, d.key)
                  /\ IF d.period # 0
                       THEN /\ data' = [data EXCEPT ![cursor] = [d EXCEPT !.counter = d.period]]
                            /\ UNCHANGED listVars
                       ELSE LET n == CHOOSE n \in Found(d.key) : TRUE
                            IN Unlink(n) /\ data' = Freed(data, n, NoData)
    BY DEF HandlerNode
  <1> HIDE DEF d
  <1>8. CASE c > 0
    BY <1>1, <1>2, <1>3, <1>4, <1>7, <1>8
  <1>9. CASE ~(c > 0) /\ data[cursor].period # 0
    BY <1>1, <1>2, <1>3, <1>5, <1>7, <1>9
  <1>10. CASE ~(c > 0) /\ data[cursor].period = 0
    BY <1>1, <1>2, <1>3, <1>6, <1>7, <1>10
  <1> QED
    BY <1>8, <1>9, <1>10

\* The node after the cursor is still in the list when the cursor's is not.
LEMMA NextOfCursor ==
  ASSUME IInv, cursor \in Live
  PROVE  next[cursor] # NULL => next[cursor] \in Live /\ next[cursor] # cursor
  <1>1. PICK p \in 1..Len(order) : cursor = order[p]
    BY DEF Live
  <1>2. ASSUME next[cursor] # NULL
        PROVE  p + 1 \in 1..Len(order) /\ next[cursor] = order[p + 1]
    BY <1>1, <1>2, Links DEF IInv
  <1>3. ASSUME next[cursor] # NULL PROVE order[p + 1] # order[p] /\ order[p + 1] \in Live
    BY <1>2, <1>3, Links DEF IInv, Distinct
  <1> QED
    BY <1>1, <1>2, <1>3

\* One turn of the handler keeps the invariant: the cursor moves on to a node that is
\* linked although the turn may have freed the one it leaves.
LEMMA NodeStep == ASSUME IInv, HandlerNode PROVE IInv'
  <1> DEFINE c == data[cursor].counter - Unit
             k == data[cursor].key
  <1>1. /\ cursor \in Live /\ cursor \in Nodes /\ k \in Keys /\ locked /\ c \in Int
        /\ cursor' = next[cursor] /\ UNCHANGED <<backlog, locked, fatal>>
        /\ \/ /\ c > 0 /\ data' = [data EXCEPT ![cursor].counter = c]
              /\ UNCHANGED <<listVars, mail>>
           \/ /\ ~(c > 0) /\ mail' = Append(mail, k)
              /\ data[cursor].period # 0
              /\ data' = [data EXCEPT ![cursor].counter = data[cursor].period]
              /\ UNCHANGED listVars
           \/ /\ ~(c > 0) /\ mail' = Append(mail, k)
              /\ data[cursor].period = 0
              /\ Unlink(cursor) /\ data' = Freed(data, cursor, NoData)
    BY NodeCases
  <1>2. mail' \in Seq(Keys)
    <2>1. mail \in Seq(Keys) /\ k \in Keys
      BY <1>1 DEF IInv, TypeOK
    <2>2. mail' = mail \/ mail' = Append(mail, k)
      BY <1>1
    <2> HIDE DEF k
    <2> QED
      BY <2>1, <2>2
  <1>3. cursor' \in Nodes \cup {NULL} /\ (cursor' # NULL => cursor' \in Live /\ cursor' # cursor)
    BY <1>1, NextOfCursor DEF IInv, TypeOK
  <1>4. ASSUME NEW v \in Nat \ {0}, data' = [data EXCEPT ![cursor].counter = v], UNCHANGED listVars
        PROVE  IInv'
    <2>0. cursor \in Nodes /\ data \in [Nodes -> Timer]
      BY <1>1 DEF IInv, TypeOK
    <2>1. data' \in [Nodes -> Timer]
      BY <2>0, <1>4 DEF Timer
    <2>2. Live' = Live /\ Live \subseteq Nodes
      BY <1>4, Links DEF Live, listVars, IInv
    <2>3. \A m \in Live : data'[m].key = data[m].key /\ data'[m].counter > 0
      BY <1>1, <1>4, <2>2 DEF IInv, TypeOK, Timer, OneTimer
    <2>4. OneTimer'
      BY <2>2, <2>3 DEF IInv, OneTimer
    <2> QED
      BY <1>1, <1>2, <1>3, <1>4, <2>1, <2>2, <2>4
         DEF IInv, TypeOK, Distinct, Linked, CursorInv, listVars
  <1>5. CASE c > 0 /\ data' = [data EXCEPT ![cursor].counter = c] /\ UNCHANGED <<listVars, mail>>
    <2>1. c \in Nat \ {0}
      BY <1>1, <1>5
    <2> QED
      BY <1>4, <1>5, <2>1
  <1>6. CASE data[cursor].period # 0 /\ UNCHANGED listVars
             /\ data' = [data EXCEPT ![cursor].counter = data[cursor].period]
    <2>1. data[cursor].period \in Nat \ {0}
      BY <1>1, <1>6 DEF IInv, TypeOK, Timer
    <2> QED
      BY <1>4, <1>6, <2>1
  <1>7. CASE Unlink(cursor) /\ data' = Freed(data, cursor, NoData)
    <2>1. /\ head' \in Nodes \cup {NULL} /\ tail' \in Nodes \cup {NULL}
          /\ next' \in [Nodes -> Nodes \cup {NULL}] /\ prev' \in [Nodes -> Nodes \cup {NULL}]
          /\ data' \in [Nodes -> Timer] /\ order' \in Seq(Nodes)
          /\ Distinct' /\ Linked' /\ OneTimer'
          /\ Live' = Live \ {cursor}
      BY <1>1, <1>7, RemoveKeeps
    <2> QED
      BY <1>1, <1>2, <1>3, <2>1 DEF IInv, TypeOK, CursorInv
  <1> QED
    BY <1>1, <1>5, <1>6, <1>7

\* One step per action.
LEMMA StepIInv == IInv /\ [Next]_vars => IInv'
  <1> SUFFICES ASSUME IInv, [Next]_vars PROVE IInv'
    OBVIOUS
  <1> USE DEF TypeOK, Distinct, Linked, OneTimer, CursorInv, Live
  <1>1. CASE Expire
    BY <1>1, TimerAssumption DEF Expire, IInv, listVars
  <1>2. CASE HandlerLock
    <2>1. tail # NULL => tail \in Live
      BY Links DEF IInv
    <2> QED
      BY <1>2, <2>1, TimerAssumption DEF HandlerLock, IInv, listVars
  <1>3. CASE HandlerNode
    BY <1>3, NodeStep
  <1>4. CASE HandlerUnlock
    <2>1. cursor = NULL /\ cursor' = NULL /\ locked' = FALSE
          /\ UNCHANGED <<listVars, data, backlog, mail, fatal>>
      BY <1>4 DEF HandlerUnlock
    <2>2. locked' \in BOOLEAN
      BY <2>1
    <2>3. UNCHANGED <<head, tail, next, prev, order, data, backlog, mail, fatal, cursor>>
      BY <2>1 DEF listVars
    <2>4. TypeOK'
      BY <2>2, <2>3 DEF IInv
    <2>5. Distinct' /\ Linked' /\ OneTimer'
      BY <2>3 DEF IInv
    <2> QED
      BY <2>1, <2>4, <2>5 DEF IInv
  <1>5. CASE Receive
    BY <1>5 DEF Receive, IInv, listVars
  <1>6. CASE \E k \in Keys : TimerRemoveAttr(k)
    BY <1>6, RemoveAttrStep
  <1>7. CASE \E k \in Keys, d \in Duties, p \in BOOLEAN : TimerSet(k, d, p)
    BY <1>7, SetStep
  <1>8. CASE UNCHANGED vars
    BY <1>8 DEF vars, IInv, listVars
  <1> QED
    BY <1>1, <1>2, <1>3, <1>4, <1>5, <1>6, <1>7, <1>8 DEF Next, Handler

\* The links of timer.cpp always spell the list of armed timers and the handler never
\* stands on a node that was freed, for any keys, nodes, durations and threads.
THEOREM TimerListTheorem == Spec => []ListRepresentsTimers
  <1>1. IInv => ListRepresentsTimers
    BY DEF IInv, ListRepresentsTimers, Linked, OneTimer, CursorInv
  <1> QED
    BY <1>1, InitIInv, StepIInv, PTL DEF Spec
-----------------------------------------------------------------------------
(* The refinement *)

\* What the tasks see of the list.
ArmedFacts ==
  /\ ArmedTimers = [k \in Keys |-> ArmedTimers[k]]
  /\ \A k \in Keys : (\A n \in Live : data[n].key # k) => ArmedTimers[k] = NULL
  /\ \A n \in Live : /\ ArmedTimers[data[n].key]
                          = [period |-> data[n].period, counter |-> data[n].counter]
                     /\ ArmedTimers[data[n].key] # NULL

\* The timer of a key is that of its node.
LEMMA ArmedIs == IInv => ArmedFacts
  <1> SUFFICES ASSUME IInv PROVE ArmedFacts
    OBVIOUS
  <1>1. ArmedTimers = [k \in Keys |-> ArmedTimers[k]]
    BY Zenon DEF ArmedTimers
  <1>2. ASSUME NEW k \in Keys, \A n \in Live : data[n].key # k PROVE ArmedTimers[k] = NULL
    BY <1>2 DEF ArmedTimers
  <1>3. ASSUME NEW n \in Live
        PROVE  /\ ArmedTimers[data[n].key]
                    = [period |-> data[n].period, counter |-> data[n].counter]
               /\ ArmedTimers[data[n].key] # NULL
    <2> DEFINE k == data[n].key
               mine == {m \in Live : data[m].key = k}
               d == data[CHOOSE m \in mine : TRUE]
    <2>1. k \in Keys /\ n \in Nodes /\ data[n] \in Timer
      BY Links DEF IInv, OneTimer, TypeOK
    <2>2. mine = {n}
      BY DEF IInv, OneTimer
    <2>3. (CHOOSE m \in mine : TRUE) = n
      BY <2>2
    <2>4. ArmedTimers[k] = IF mine = {} THEN NULL ELSE [period |-> d.period, counter |-> d.counter]
      BY <2>1, Zenon DEF ArmedTimers
    <2>5. ArmedTimers[k] = [period |-> data[n].period, counter |-> data[n].counter]
      BY <2>2, <2>3, <2>4
    <2>6. [period |-> data[n].period, counter |-> data[n].counter] \in [period : Nat, counter : Nat]
      BY <2>1 DEF Timer
    <2> QED
      BY <2>5, <2>6, TimerAssumption
  <1> QED
    BY <1>1, <1>2, <1>3 DEF ArmedFacts

\* What the handler has still to visit.
FromFacts ==
  /\ cursor = NULL => From(cursor) = {}
  /\ \A p \in 1..Len(order) :
       cursor = order[p] => From(cursor) = {order[i] : i \in p..Len(order)}

\* It is the rest of the list.
LEMMA FromIs == IInv => FromFacts
  BY FromNull, FromPlace DEF FromFacts, IInv

\* Both hold before and after a step.
LEMMA BothFacts ==
  ASSUME IInv, IInv'
  PROVE  ArmedFacts /\ FromFacts /\ ArmedFacts' /\ FromFacts'
  <1>1. IInv' => ArmedFacts'
    BY ArmedIs, PTL
  <1>2. IInv' => FromFacts'
    BY FromIs, PTL
  <1> QED
    BY <1>1, <1>2, ArmedIs, FromIs

\* A key whose node and data a step leaves alone keeps its timer.
Same(j) ==
  /\ \A n \in Live : data[n].key = j => n \in Live' /\ data'[n] = data[n]
  /\ \A n \in Live' : data'[n].key = j => n \in Live /\ data[n].key = j

\* Its timer is the same afterwards.
LEMMA SameTimer ==
  ASSUME ArmedFacts, ArmedFacts', NEW j \in Keys, Same(j)
  PROVE  ArmedTimers'[j] = ArmedTimers[j]
  <1>1. CASE \A n \in Live : data[n].key # j
    <2>1. \A n \in Live' : data'[n].key # j
      BY <1>1 DEF Same
    <2> QED
      BY <1>1, <2>1 DEF ArmedFacts
  <1>2. ASSUME NEW n \in Live, data[n].key = j PROVE ArmedTimers'[j] = ArmedTimers[j]
    <2>1. n \in Live' /\ data'[n] = data[n]
      BY <1>2 DEF Same
    <2>2. ArmedTimers[j] = [period |-> data[n].period, counter |-> data[n].counter]
      BY <1>2 DEF ArmedFacts
    <2>3. ArmedTimers'[data'[n].key]
             = [period |-> data'[n].period, counter |-> data'[n].counter]
      BY <2>1 DEF ArmedFacts
    <2> QED
      BY <1>2, <2>1, <2>2, <2>3
  <1> QED
    BY <1>1, <1>2

\* A step that leaves all keys but one alone changes one timer.
LEMMA ChangeOne ==
  ASSUME ArmedFacts, ArmedFacts', NEW k \in Keys, NEW v, ArmedTimers'[k] = v,
         \A j \in Keys \ {k} : Same(j)
  PROVE  ArmedTimers' = [ArmedTimers EXCEPT ![k] = v]
  <1>1. \A j \in Keys \ {k} : ArmedTimers'[j] = ArmedTimers[j]
    BY SameTimer
  <1>2. /\ ArmedTimers = [j \in Keys |-> ArmedTimers[j]]
        /\ ArmedTimers' = [j \in Keys |-> ArmedTimers'[j]]
    BY DEF ArmedFacts
  <1> QED
    BY <1>1, <1>2

\* Between two turns the walk loses the node that was handled.
LEMMA WalkLosesCursor ==
  ASSUME IInv, IInv', HandlerNode
  PROVE  /\ cursor \in From(cursor) /\ From(cursor) \subseteq Live
         /\ From(cursor)' = From(cursor) \ {cursor}
  <1> DEFINE L == Len(order)
  <1>1. FromFacts /\ FromFacts'
    BY BothFacts
  <1>2. cursor \in Live /\ cursor' = next[cursor]
    BY NodeCases
  <1>3. PICK p \in 1..L : cursor = order[p]
    BY <1>2 DEF Live
  <1>4. L \in Nat /\ cursor' = IF p < L THEN order[p + 1] ELSE NULL
    BY <1>2, <1>3, Links DEF IInv
  <1>5. From(cursor) = {order[i] : i \in p..L}
    BY <1>1, <1>3 DEF FromFacts
  <1>6. cursor \in From(cursor) /\ From(cursor) \subseteq Live
    BY <1>3, <1>4, <1>5 DEF Live
  <1>7. From(cursor) \ {cursor} = {order[i] : i \in (p + 1)..L}
    BY <1>3, <1>4, <1>5 DEF IInv, Distinct
  <1>8. CASE UNCHANGED listVars
    <2>1. order' = order
      BY <1>8 DEF listVars
    <2>2. CASE p < L
      <3>1. p + 1 \in 1..L /\ cursor' = order'[p + 1]
        BY <1>4, <2>1, <2>2
      <3>2. From(cursor)' = {order[i] : i \in (p + 1)..L}
        BY <1>1, <2>1, <3>1 DEF FromFacts
      <3> QED
        BY <1>6, <1>7, <3>2
    <2>3. CASE ~(p < L)
      <3>1. From(cursor)' = {}
        BY <1>1, <1>4, <2>3 DEF FromFacts
      <3>2. {order[i] : i \in (p + 1)..L} = {}
        BY <1>4, <2>3
      <3> QED
        BY <1>6, <1>7, <3>1, <3>2
    <2> QED
      BY <2>2, <2>3
  <1>9. CASE Unlink(cursor)
    <2>1. /\ Len(order') = L - 1
          /\ \A i \in 1..(L - 1) : order'[i] = IF i < p THEN order[i] ELSE order[i + 1]
      BY <1>3, <1>9, WithoutPlace DEF IInv, Unlink
    <2>2. CASE p < L
      <3>1. p \in 1..(L - 1) /\ cursor' = order'[p]
        BY <1>4, <2>1, <2>2
      <3>2. From(cursor)' = {order'[i] : i \in p..(L - 1)}
        BY <1>1, <2>1, <3>1 DEF FromFacts
      <3>3. \A i \in p..(L - 1) : order'[i] = order[i + 1] /\ i + 1 \in (p + 1)..L
        BY <1>4, <2>1
      <3>4. \A i \in (p + 1)..L : i - 1 \in p..(L - 1) /\ (i - 1) + 1 = i
        BY <1>4
      <3>5. ASSUME NEW i \in p..(L - 1) PROVE order'[i] \in {order[j] : j \in (p + 1)..L}
        BY <3>3
      <3>6. ASSUME NEW i \in (p + 1)..L PROVE order[i] \in {order'[j] : j \in p..(L - 1)}
        <4>1. order'[i - 1] = order[i] /\ i - 1 \in p..(L - 1)
          BY <3>3, <3>4
        <4> QED
          BY <4>1
      <3>7. From(cursor)' = {order[i] : i \in (p + 1)..L}
        BY <3>2, <3>5, <3>6
      <3> QED
        BY <1>6, <1>7, <3>7
    <2>3. CASE ~(p < L)
      <3>1. From(cursor)' = {}
        BY <1>1, <1>4, <2>3 DEF FromFacts
      <3>2. {order[i] : i \in (p + 1)..L} = {}
        BY <1>4, <2>3
      <3> QED
        BY <1>6, <1>7, <3>1, <3>2
    <2> QED
      BY <2>2, <2>3
  <1>10. (UNCHANGED listVars) \/ Unlink(cursor)
    BY NodeCases
  <1> QED
    BY <1>8, <1>9, <1>10

\* To write the counter of a node is to write the counter of its key.
LEMMA CounterChanges ==
  ASSUME IInv, IInv', NEW n \in Live, NEW v, order' = order,
         data' = [data EXCEPT ![n].counter = v]
  PROVE  /\ data[n].key \in Keys
         /\ ArmedTimers' = [ArmedTimers EXCEPT ![data[n].key] =
                              [period |-> data[n].period, counter |-> v]]
  <1> DEFINE k == data[n].key
  <1>1. ArmedFacts /\ ArmedFacts'
    BY BothFacts
  <1>2. Live' = Live /\ n \in Nodes /\ Live \subseteq Nodes /\ data \in [Nodes -> Timer]
    BY Links DEF Live, IInv, TypeOK
  <1>3. k \in Keys /\ data[n] \in Timer
    BY <1>2 DEF IInv, OneTimer
  <1>4. /\ data'[n].key = k /\ data'[n].period = data[n].period /\ data'[n].counter = v
        /\ \A m \in Live \ {n} : data'[m] = data[m]
    BY <1>2, <1>3 DEF Timer
  <1>5. ArmedTimers'[data'[n].key]
          = [period |-> data'[n].period, counter |-> data'[n].counter]
    BY <1>1, <1>2 DEF ArmedFacts
  <1>6. ArmedTimers'[k] = [period |-> data[n].period, counter |-> v]
    BY <1>4, <1>5
  <1>7. \A j \in Keys \ {k} : Same(j)
    BY <1>2, <1>4 DEF Same
  <1> HIDE DEF k
  <1>8. ArmedTimers' = [ArmedTimers EXCEPT ![k] = [period |-> data[n].period, counter |-> v]]
    BY <1>1, <1>3, <1>6, <1>7, ChangeOne
  <1> QED
    BY <1>3, <1>8 DEF k

\* To free a node is to disarm its key.
LEMMA TimerGoes ==
  ASSUME IInv, IInv', NEW n \in Live, Unlink(n), data' = Freed(data, n, NoData)
  PROVE  /\ data[n].key \in Keys
         /\ ArmedTimers' = [ArmedTimers EXCEPT ![data[n].key] = NULL]
  <1> DEFINE k == data[n].key
  <1>1. ArmedFacts /\ ArmedFacts'
    BY BothFacts
  <1>2. Live' = Live \ {n} /\ \A m \in Live' : data'[m] = data[m]
    BY RemoveKeeps
  <1>3. k \in Keys /\ \A m \in Live' : data'[m].key # k
    BY <1>2 DEF IInv, OneTimer
  <1>4. ArmedTimers'[k] = NULL
    BY <1>1, <1>3 DEF ArmedFacts
  <1>5. \A j \in Keys \ {k} : Same(j)
    BY <1>2 DEF Same
  <1> HIDE DEF k
  <1>6. ArmedTimers' = [ArmedTimers EXCEPT ![k] = NULL]
    BY <1>1, <1>3, <1>4, <1>5, ChangeOne
  <1> QED
    BY <1>3, <1>6 DEF k

\* A caller that holds the lock finds no pass under way.
LEMMA NoPass ==
  ASSUME IInv, IInv', UNCHANGED cursor, ~locked
  PROVE  PassLeft = {} /\ PassLeft' = {}
  <1>1. cursor = NULL /\ cursor' = NULL
    BY DEF IInv, CursorInv
  <1>2. FromFacts /\ FromFacts'
    BY BothFacts
  <1>3. From(cursor) = {} /\ From(cursor)' = {}
    BY <1>1, <1>2 DEF FromFacts
  <1> QED
    BY <1>3 DEF PassLeft

\* A step that touches neither the list nor the walk is invisible.
LEMMA Invisible ==
  ASSUME UNCHANGED <<listVars, data, cursor>>
  PROVE  ArmedTimers' = ArmedTimers /\ PassLeft' = PassLeft
  <1>1. next' = next /\ order' = order /\ data' = data /\ cursor' = cursor
    BY DEF listVars
  <1>2. From(cursor)' = From(cursor)
    BY <1>1 DEF From
  <1> QED
    BY <1>1, <1>2 DEF ArmedTimers, PassLeft, Live

\* timer_set is Set, or ends the process, which nobody sees in the list.
LEMMA SetRefines ==
  ASSUME IInv, IInv', NEW k \in Keys, NEW duty \in Duties, NEW periodic \in BOOLEAN,
         TimerSet(k, duty, periodic)
  PROVE  [TheTimers!Next]_(TheTimers!tvars)
  <1>0. duty \in Nat /\ Unit \in Nat \ {0}
    BY TimerAssumption
  <1>1. CASE duty < Unit
    BY <1>1, Invisible DEF TimerSet, TheTimers!tvars
  <1>2. ASSUME duty >= Unit,
               /\ PassLeft = {}
               /\ ArmedTimers' = [ArmedTimers EXCEPT ![k] =
                     IF ArmedTimers[k] = NULL
                       THEN [period |-> IF periodic THEN duty ELSE 0, counter |-> duty]
                       ELSE [ArmedTimers[k] EXCEPT !.counter = duty]]
               /\ UNCHANGED <<PassLeft, mail>>
        PROVE  TheTimers!Next
    <2>1. TheTimers!Set(k, duty, periodic)
      BY <1>2 DEF TheTimers!Set
    <2>2. duty \in {d \in Duties : d >= Unit}
      BY <1>2
    <2> QED
      BY <2>1, <2>2 DEF TheTimers!Next
  <1>3. CASE ~(duty < Unit)
    <2>0. ~locked /\ UNCHANGED <<backlog, locked, cursor, mail, fatal>> /\ duty >= Unit
      BY <1>0, <1>3 DEF TimerSet
    <2>1. PassLeft = {} /\ PassLeft' = {}
      BY <2>0, NoPass
    <2>2. ArmedFacts /\ ArmedFacts'
      BY BothFacts
    <2>3. CASE Found(k) # {} /\ Refresh(k, duty)
      <3> DEFINE n == CHOOSE n \in Found(k) : TRUE
      <3>1. n \in Live /\ n \in Nodes /\ data[n].key = k
        BY <2>3, TheNode
      <3>2. data' = [data EXCEPT ![n].counter = duty] /\ order' = order
        BY <2>3 DEF Refresh, listVars
      <3> HIDE DEF n
      <3>3. ArmedTimers' = [ArmedTimers EXCEPT ![k] =
                              [period |-> data[n].period, counter |-> duty]]
        BY <3>1, <3>2, CounterChanges
      <3>4. /\ ArmedTimers[k] = [period |-> data[n].period, counter |-> data[n].counter]
            /\ ArmedTimers[k] # NULL
        BY <2>2, <3>1 DEF ArmedFacts
      <3>5. [ArmedTimers[k] EXCEPT !.counter = duty]
              = [period |-> data[n].period, counter |-> duty]
        BY <3>4
      <3> QED
        BY <1>2, <2>0, <2>1, <3>3, <3>4, <3>5
    <2>4. ASSUME Found(k) = {}, NEW n \in Nodes, Insert(k, duty, periodic, n)
          PROVE  TheTimers!Next
      <3> DEFINE per == IF periodic THEN duty ELSE 0
                 t == [key |-> k, counter |-> duty, period |-> per]
      <3>1. Live' = Live \cup {n} /\ Live \subseteq Nodes
        BY <2>4, InsertKeeps, Links DEF IInv
      <3>2. data' = [data EXCEPT ![n] = t] /\ n \notin Live
        BY <2>4 DEF Insert
      <3>3. data'[n] = t /\ \A m \in Live : data'[m] = data[m]
        BY <3>1, <3>2 DEF IInv, TypeOK
      <3>4. \A m \in Live : data[m].key # k
        BY <2>4, FoundInList DEF IInv
      <3>5. ArmedTimers[k] = NULL
        BY <2>2, <3>4 DEF ArmedFacts
      <3>6. t.key = k /\ t.period = per /\ t.counter = duty
        OBVIOUS
      <3> HIDE DEF t
      <3>7. ArmedTimers'[data'[n].key]
              = [period |-> data'[n].period, counter |-> data'[n].counter]
        BY <2>2, <3>1 DEF ArmedFacts
      <3>8. ArmedTimers'[k] = [period |-> per, counter |-> duty]
        BY <3>3, <3>6, <3>7
      <3>9. \A j \in Keys \ {k} : Same(j)
        BY <3>1, <3>3, <3>6 DEF Same
      <3> HIDE DEF per
      <3>10. ArmedTimers' = [ArmedTimers EXCEPT ![k] = [period |-> per, counter |-> duty]]
        BY <2>2, <3>8, <3>9, ChangeOne
      <3> QED
        BY <1>2, <2>0, <2>1, <3>5, <3>10 DEF per
    <2> QED
      BY <1>3, <2>3, <2>4 DEF TimerSet
  <1> QED
    BY <1>1, <1>3

\* timer_remove_attr is Remove.
LEMMA RemoveRefines ==
  ASSUME IInv, IInv', NEW k \in Keys, TimerRemoveAttr(k)
  PROVE  TheTimers!Next
  <1> DEFINE n == CHOOSE n \in Found(k) : TRUE
  <1>1. Found(k) # {} /\ Unlink(n) /\ data' = Freed(data, n, NoData) /\ ~locked
        /\ UNCHANGED <<backlog, locked, cursor, mail, fatal>>
    BY DEF TimerRemoveAttr
  <1>2. n \in Live /\ data[n].key = k
    BY <1>1, TheNode
  <1> HIDE DEF n
  <1>3. ArmedTimers' = [ArmedTimers EXCEPT ![k] = NULL]
    BY <1>1, <1>2, TimerGoes
  <1>4. PassLeft = {} /\ PassLeft' = {}
    BY <1>1, NoPass
  <1>5. TheTimers!Remove(k)
    BY <1>1, <1>3, <1>4 DEF TheTimers!Remove
  <1> QED
    BY <1>5 DEF TheTimers!Next

\* The handler that gets the lock begins a pass over all armed timers.
LEMMA LockRefines ==
  ASSUME IInv, IInv', HandlerLock
  PROVE  TheTimers!Next
  <1>1. /\ ~locked /\ cursor' = tail /\ cursor = NULL
        /\ UNCHANGED <<listVars, data, mail>>
    BY DEF HandlerLock, IInv, CursorInv
  <1>2. order' = order /\ next' = next /\ data' = data
    BY <1>1 DEF listVars
  <1>3. ArmedTimers' = ArmedTimers
    BY <1>2 DEF ArmedTimers, Live
  <1>4. ArmedFacts /\ FromFacts
    BY BothFacts
  <1>5. PassLeft = {}
    BY <1>1, <1>4 DEF FromFacts, PassLeft
  <1>6. From(cursor)' = Live
    <2>1. From(cursor)' = From(tail)
      BY <1>1, <1>2 DEF From
    <2> QED
      BY <2>1, FoundInList DEF IInv
  <1>7. PassLeft' = {data[n].key : n \in Live}
    BY <1>2, <1>6 DEF PassLeft
  <1>8. {k \in Keys : ArmedTimers[k] # NULL} = {data[n].key : n \in Live}
    <2>1. ASSUME NEW k \in Keys, ArmedTimers[k] # NULL PROVE \E n \in Live : data[n].key = k
      BY <1>4, <2>1 DEF ArmedFacts
    <2>2. ASSUME NEW n \in Live PROVE data[n].key \in Keys /\ ArmedTimers[data[n].key] # NULL
      BY <1>4 DEF ArmedFacts, IInv, OneTimer
    <2> QED
      BY <2>1, <2>2
  <1>9. TheTimers!BeginPass
    BY <1>1, <1>3, <1>5, <1>7, <1>8 DEF TheTimers!BeginPass
  <1> QED
    BY <1>9 DEF TheTimers!Next

\* One turn of its loop counts one timer down.
LEMMA NodeRefines ==
  ASSUME IInv, IInv', HandlerNode
  PROVE  TheTimers!Next
  <1> DEFINE c == data[cursor].counter - Unit
             k == data[cursor].key
             old == [period |-> data[cursor].period, counter |-> data[cursor].counter]
             t == [old EXCEPT !.counter = @ - Unit]
  <1>1. /\ cursor \in Live /\ cursor \in Nodes /\ k \in Keys /\ locked /\ c \in Int
        /\ cursor' = next[cursor] /\ UNCHANGED <<backlog, locked, fatal>>
        /\ \/ /\ c > 0 /\ data' = [data EXCEPT ![cursor].counter = c]
              /\ UNCHANGED <<listVars, mail>>
           \/ /\ ~(c > 0) /\ mail' = Append(mail, k)
              /\ data[cursor].period # 0
              /\ data' = [data EXCEPT ![cursor].counter = data[cursor].period]
              /\ UNCHANGED listVars
           \/ /\ ~(c > 0) /\ mail' = Append(mail, k)
              /\ data[cursor].period = 0
              /\ Unlink(cursor) /\ data' = Freed(data, cursor, NoData)
    BY NodeCases
  <1>2. /\ cursor \in From(cursor) /\ From(cursor) \subseteq Live
        /\ From(cursor)' = From(cursor) \ {cursor}
    BY WalkLosesCursor
  <1>3. \A m \in Live \ {cursor} : data'[m] = data[m]
    <2>1. data \in [Nodes -> Timer] /\ Live \subseteq Nodes
      BY Links DEF IInv, TypeOK
    <2> QED
      BY <1>1, <2>1 DEF Freed
  <1>4. k \in PassLeft /\ PassLeft' = PassLeft \ {k}
    <2>1. PassLeft' = {data[m].key : m \in From(cursor) \ {cursor}}
      BY <1>2, <1>3 DEF PassLeft
    <2>2. \A m \in From(cursor) \ {cursor} : data[m].key # k
      BY <1>2 DEF IInv, OneTimer
    <2> QED
      BY <1>2, <2>1, <2>2 DEF PassLeft
  <1>5. ArmedTimers[k] = old
    BY <1>1, BothFacts DEF ArmedFacts
  <1>6. t.counter = c /\ t.period = data[cursor].period
        /\ t = [period |-> data[cursor].period, counter |-> c]
        /\ [t EXCEPT !.counter = t.period]
              = [period |-> data[cursor].period, counter |-> data[cursor].period]
    <2>1. t = [period |-> data[cursor].period, counter |-> c]
      OBVIOUS
    <2> HIDE DEF t, c
    <2> QED
      BY <2>1
  <1>7. TheTimers!CountDown(k)
        <=> /\ k \in PassLeft
            /\ PassLeft' = PassLeft \ {k}
            /\ IF t.counter > 0
                 THEN /\ ArmedTimers' = [ArmedTimers EXCEPT ![k] = t]
                      /\ mail' = mail
                 ELSE /\ ArmedTimers' = [ArmedTimers EXCEPT ![k] =
                              IF t.period # 0 THEN [t EXCEPT !.counter = t.period] ELSE NULL]
                      /\ mail' = Append(mail, k)
    BY <1>5 DEF TheTimers!CountDown
  <1> HIDE DEF t, old, c
  <1>8. CASE c > 0 /\ data' = [data EXCEPT ![cursor].counter = c] /\ UNCHANGED <<listVars, mail>>
    <2>1. ArmedTimers' = [ArmedTimers EXCEPT ![k] = t]
      BY <1>1, <1>6, <1>8, CounterChanges DEF listVars
    <2> QED
      BY <1>1, <1>4, <1>6, <1>7, <1>8, <2>1 DEF TheTimers!Next
  <1>9. CASE /\ ~(c > 0) /\ mail' = Append(mail, k)
             /\ data[cursor].period # 0
             /\ data' = [data EXCEPT ![cursor].counter = data[cursor].period]
             /\ UNCHANGED listVars
    <2>1. ArmedTimers' = [ArmedTimers EXCEPT ![k] = [t EXCEPT !.counter = t.period]]
      BY <1>1, <1>6, <1>9, CounterChanges DEF listVars
    <2> QED
      BY <1>1, <1>4, <1>6, <1>7, <1>9, <2>1 DEF TheTimers!Next
  <1>10. CASE /\ ~(c > 0) /\ mail' = Append(mail, k)
              /\ data[cursor].period = 0
              /\ Unlink(cursor) /\ data' = Freed(data, cursor, NoData)
    <2>1. ArmedTimers' = [ArmedTimers EXCEPT ![k] = NULL]
      BY <1>1, <1>10, TimerGoes
    <2> QED
      BY <1>1, <1>4, <1>6, <1>7, <1>10, <2>1 DEF TheTimers!Next
  <1> QED
    BY <1>1, <1>8, <1>9, <1>10

\* Every step maps to a step or a stutter.
LEMMA StepRefines == IInv /\ IInv' /\ [Next]_vars => [TheTimers!Next]_(TheTimers!tvars)
  <1> SUFFICES ASSUME IInv, IInv', [Next]_vars PROVE [TheTimers!Next]_(TheTimers!tvars)
    OBVIOUS
  <1>1. CASE Expire \/ HandlerUnlock \/ UNCHANGED vars
    <2>1. UNCHANGED <<listVars, data, cursor, mail>>
      BY <1>1 DEF Expire, HandlerUnlock, vars
    <2> QED
      BY <2>1, Invisible DEF TheTimers!tvars
  <1>2. CASE HandlerLock
    BY <1>2, LockRefines
  <1>3. CASE HandlerNode
    BY <1>3, NodeRefines
  <1>4. CASE Receive
    <2>1. UNCHANGED <<listVars, data, cursor>> /\ mail # <<>> /\ mail' = Tail(mail)
      BY <1>4 DEF Receive
    <2>2. TheTimers!Receive
      BY <2>1, Invisible DEF TheTimers!Receive
    <2> QED
      BY <2>2 DEF TheTimers!Next
  <1>5. CASE \E k \in Keys : TimerRemoveAttr(k)
    BY <1>5, RemoveRefines
  <1>6. CASE \E k \in Keys, d \in Duties, p \in BOOLEAN : TimerSet(k, d, p)
    BY <1>6, SetRefines
  <1> QED
    BY <1>1, <1>2, <1>3, <1>4, <1>5, <1>6 DEF Next, Handler

\* The empty list maps to no timers.
LEMMA InitRefines == Init => TheTimers!Init
  <1> SUFFICES ASSUME Init PROVE TheTimers!Init
    OBVIOUS
  <1>1. Live = {} /\ cursor = NULL /\ mail = <<>>
    BY DEF Init, Live
  <1>2. ArmedFacts /\ FromFacts
    BY InitIInv, ArmedIs, FromIs
  <1>3. ArmedTimers = [k \in Keys |-> NULL]
    BY <1>1, <1>2 DEF ArmedFacts
  <1>4. PassLeft = {}
    BY <1>1, <1>2 DEF FromFacts, PassLeft
  <1> QED
    BY <1>1, <1>3, <1>4 DEF TheTimers!Init

\* Whatever the callers and the handler threads do, the tasks see the timers they
\* asked for: every pass of timer_handler counts every armed timer down exactly
\* once, posts the ones that expire and re-arms the periodic ones.
THEOREM TimersImplemented == Spec => ImplementsTimers
  <1>1. IInv /\ IInv' /\ [Next]_vars => [TheTimers!Next]_(TheTimers!tvars)
    BY StepRefines
  <1> QED
    BY <1>1, InitIInv, StepIInv, InitRefines, PTL DEF Spec, ImplementsTimers, TheTimers!Spec
=============================================================================
