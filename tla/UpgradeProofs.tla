--------------------------- MODULE UpgradeProofs ---------------------------
(***************************************************************************)
(* For any number of requests: there is one upgrade at a time, and what is *)
(* flashed is what was checked.  The invariant counts the places an        *)
(* upgrade can be in (messages, jobs, the flash, the timer): OneUpgrade    *)
(* says that they are one while the flag is set and none otherwise, so     *)
(* that whoever changes FIRMWARE_FILE is the only one who is anywhere.     *)
(* The counting of messages is by cardinality, and three lemmas say what   *)
(* Append and Tail do to it.                                               *)
(***************************************************************************)
EXTENDS Upgrade, FiniteSetTheorems, FunctionTheorems, SequenceTheorems, TLAPS

FwSigs == {"GET_URL", "DOWNLOAD_START", "UPGRADE_START", "RELEASE"}
Places(box, signal) == {i \in 1..Len(box) : box[i] = signal}

LEMMA PlacesFinite ==
  ASSUME NEW box \in Seq(FwSigs), NEW x
  PROVE  /\ IsFiniteSet(Places(box, x))
         /\ Count(box, x) = Cardinality(Places(box, x)) /\ Count(box, x) \in Nat
<1>1. IsFiniteSet(1..Len(box))
  BY FS_Interval, LenProperties
<1>2. Places(box, x) \in SUBSET (1..Len(box))
  BY DEF Places
<1>3. IsFiniteSet(Places(box, x))
  BY <1>1, <1>2, FS_Subset
<1>4. Cardinality(Places(box, x)) \in Nat
  BY <1>3, FS_CardinalityType
<1> QED  BY <1>3, <1>4 DEF Count, Places

LEMMA CountEmpty == \A x : Count(<<>>, x) = 0
<1>1. \A x : {i \in 1..Len(<<>>) : <<>>[i] = x} = {}
  OBVIOUS
<1> QED  BY <1>1, FS_EmptySet DEF Count

\* A message posted to the task is one more of its kind.
LEMMA CountAppend ==
  ASSUME NEW box \in Seq(FwSigs), NEW y \in FwSigs, NEW x
  PROVE  Count(Append(box, y), x) = Count(box, x) + (IF y = x THEN 1 ELSE 0)
<1> DEFINE n == Len(box)
           new == Append(box, y)
<1>1. /\ new \in Seq(FwSigs) /\ n \in Nat /\ Len(new) = n + 1
      /\ new[n + 1] = y /\ \A i \in 1..n : new[i] = box[i]
  BY AppendProperties, LenProperties
<1>2. n + 1 \notin Places(box, x)
  BY <1>1 DEF Places
<1>0. /\ Count(new, x) = Cardinality(Places(new, x))
      /\ Count(box, x) = Cardinality(Places(box, x)) /\ Count(box, x) \in Nat
  BY <1>1, PlacesFinite
<1>3. CASE y = x
  <2>1. Places(new, x) = Places(box, x) \cup {n + 1}
    <3>1. ASSUME NEW i \in Places(new, x) PROVE i \in Places(box, x) \cup {n + 1}
      BY <3>1, <1>1 DEF Places
    <3>2. ASSUME NEW i \in Places(box, x) PROVE i \in Places(new, x)
      BY <3>2, <1>1 DEF Places
    <3>3. n + 1 \in Places(new, x)
      BY <1>1, <1>3 DEF Places
    <3> QED  BY <3>1, <3>2, <3>3
  <2>2. Cardinality(Places(new, x)) = Cardinality(Places(box, x)) + 1
    BY <2>1, <1>2, PlacesFinite, FS_AddElement
  <2> QED  BY <2>2, <1>0, <1>3
<1>4. CASE y # x
  <2>1. Places(new, x) = Places(box, x)
    BY <1>1, <1>4 DEF Places
  <2> QED  BY <2>1, <1>0, <1>4
<1> QED  BY <1>3, <1>4

\* The message that the task takes is one less.
LEMMA CountTail ==
  ASSUME NEW box \in Seq(FwSigs), box # <<>>, NEW x
  PROVE  /\ Tail(box) \in Seq(FwSigs)
         /\ Count(Tail(box), x) = Count(box, x) - (IF Head(box) = x THEN 1 ELSE 0)
<1> DEFINE n == Len(box)
           old == Tail(box)
           rest == Places(box, x) \ {1}
           up == [i \in Places(old, x) |-> i + 1]
<1>1. /\ old \in Seq(FwSigs) /\ n \in Nat \ {0} /\ Len(old) = n - 1 /\ Head(box) = box[1]
      /\ \A i \in 1..Len(old) : old[i] = box[i + 1]
  BY HeadTailProperties, LenProperties, EmptySeq
<1>2. up \in Bijection(Places(old, x), rest)
  <2>1. up \in [Places(old, x) -> rest]
    <3>1. ASSUME NEW i \in Places(old, x) PROVE i + 1 \in rest
      BY <3>1, <1>1 DEF Places
    <3> QED  BY <3>1
  <2>2. \A i, j \in Places(old, x) : up[i] = up[j] => i = j
    BY <1>1 DEF Places
  <2>3. \A k \in rest : \E i \in Places(old, x) : up[i] = k
    <3>1. TAKE k \in rest
    <3>2. k - 1 \in Places(old, x) /\ up[k - 1] = k
      BY <1>1 DEF Places
    <3> QED  BY <3>2
  <2> QED  BY <2>1, <2>2, <2>3, Fun_IsBij
<1>3. Cardinality(rest) = Cardinality(Places(old, x))
  <2>1. ExistsBijection(Places(old, x), rest)
    BY <1>2 DEF ExistsBijection
  <2> QED  BY <2>1, <1>1, PlacesFinite, FS_Bijection
<1>4. Cardinality(rest) = IF 1 \in Places(box, x) THEN Cardinality(Places(box, x)) - 1
                          ELSE Cardinality(Places(box, x))
  BY PlacesFinite, FS_RemoveElement
<1>5. 1 \in Places(box, x) <=> Head(box) = x
  BY <1>1 DEF Places
<1>6. /\ Count(old, x) = Cardinality(Places(old, x))
      /\ Count(box, x) = Cardinality(Places(box, x)) /\ Count(box, x) \in Nat
  BY <1>1, PlacesFinite
<1> QED  BY <1>1, <1>3, <1>4, <1>5, <1>6
-----------------------------------------------------------------------------
Inv == TypeOK /\ OneUpgrade /\ FlashedIsChecked

\* The invariant with the types of the sequences and the counts made explicit.
Counts == /\ fw \in Seq(FwSigs) /\ sys \in Seq({"REBOOT", "CMD_REBOOT"})
          /\ \A x \in FwSigs : Count(fw, x) \in Nat

LEMMA InvCounts == Inv => Counts
  BY PlacesFinite DEF Inv, TypeOK, Counts, FwSigs

LEMMA Bits ==
  /\ Bit(TRUE) = 1 /\ Bit(FALSE) = 0
  /\ \A b \in BOOLEAN : Bit(b) \in {0, 1} /\ (b <=> Bit(b) = 1)
  BY DEF Bit

LEMMA InitInv == Init => Inv
<1> SUFFICES ASSUME Init PROVE Inv
  OBVIOUS
<1>1. fw \in Seq(FwSigs) /\ sys \in Seq({"REBOOT", "CMD_REBOOT"})
  BY EmptySeq DEF Init
<1>2. \A x : Count(fw, x) = 0
  BY CountEmpty DEF Init
<1>3. TypeOK
  <2>1. running \in BOOLEAN /\ flashing \in BOOLEAN /\ timer \in BOOLEAN
    BY DEF Init
  <2>2. queued \in Nat /\ downloading \in 0..WORKERS /\ file \in {"none", "partial", "checked"}
    BY DEF Init, WORKERS
  <2> QED  BY <1>1, <2>1, <2>2 DEF TypeOK, FwSigs
<1>4. Stages = 0 /\ Bit(running) = 0
  <2>1. Bit(running) = 0 /\ Bit(flashing) = 0 /\ Bit(timer) = 0
    BY Bits DEF Init
  <2> QED  BY <1>2, <2>1 DEF Init, Stages
<1>5. FlashedIsChecked
  BY <1>2 DEF Init, FlashedIsChecked
<1> QED  BY <1>3, <1>4, <1>5 DEF Inv, OneUpgrade

\* What a post to FW, or the receipt of a message, does to all the counts.
Posted(box, y) == /\ Append(box, y) \in Seq(FwSigs)
                  /\ \A x \in FwSigs : Count(Append(box, y), x) = Count(box, x) + (IF y = x THEN 1 ELSE 0)
Taken(box) == /\ Tail(box) \in Seq(FwSigs)
              /\ \A x \in FwSigs :
                   Count(Tail(box), x) = Count(box, x) - (IF Head(box) = x THEN 1 ELSE 0)

LEMMA PostAndTake ==
  ASSUME NEW box \in Seq(FwSigs)
  PROVE  /\ \A y \in FwSigs : Posted(box, y)
         /\ box # <<>> => Taken(box)
  BY CountAppend, CountTail, AppendProperties DEF Posted, Taken

\* SYS is told: its mailbox has no count.
LEMMA SysPost ==
  ASSUME NEW box \in Seq({"REBOOT", "CMD_REBOOT"})
  PROVE  /\ \A y \in {"REBOOT", "CMD_REBOOT"} : Append(box, y) \in Seq({"REBOOT", "CMD_REBOOT"})
         /\ box # <<>> => Tail(box) \in Seq({"REBOOT", "CMD_REBOOT"})
  BY AppendProperties, HeadTailProperties

\* The invariant in numbers: d, u, r messages, the jobs, and bits for the three flags.
Sum(d, u, r, q, l, f, t, o) == d + q + l + u + r + f + t = o

\* One step per action: what it does to the numbers, then their sum.
LEMMA NextInv == Inv /\ [Next]_vars => Inv'
<1> SUFFICES ASSUME Inv, [Next]_vars PROVE Inv'
  OBVIOUS
<1> DEFINE d == Count(fw, "DOWNLOAD_START")
           u == Count(fw, "UPGRADE_START")
           r == Count(fw, "RELEASE")
           f == Bit(flashing)
           t == Bit(timer)
           o == Bit(running)
           Types == /\ running \in BOOLEAN /\ flashing \in BOOLEAN /\ timer \in BOOLEAN
                    /\ fw \in Seq(FwSigs) /\ sys \in Seq({"REBOOT", "CMD_REBOOT"})
                    /\ queued \in Nat /\ downloading \in 0..2
                    /\ file \in {"none", "partial", "checked"}
           Checked == f = 1 \/ u > 0 => file = "checked"
<1>a. /\ Types /\ Counts /\ Sum(d, u, r, queued, downloading, f, t, o) /\ Checked
  BY InvCounts, Bits DEF Inv, TypeOK, OneUpgrade, FlashedIsChecked, Stages, Sum, WORKERS, FwSigs
<1>b. /\ d \in Nat /\ u \in Nat /\ r \in Nat
      /\ f \in {0, 1} /\ t \in {0, 1} /\ o \in {0, 1}
      /\ (flashing <=> f = 1) /\ (timer <=> t = 1) /\ (running <=> o = 1)
  BY <1>a, Bits DEF Counts, FwSigs
<1>c. ASSUME Types', Sum(d, u, r, queued, downloading, f, t, o)', Checked' PROVE Inv'
  <2>1. flashing' <=> f' = 1
    BY <1>c, Bits
  <2>2. TypeOK'
    BY <1>c DEF TypeOK, WORKERS, FwSigs
  <2>3. OneUpgrade'
    BY <1>c DEF OneUpgrade, Stages, Sum
  <2>4. FlashedIsChecked'
    BY <1>c, <2>1 DEF FlashedIsChecked
  <2> QED  BY <2>2, <2>3, <2>4 DEF Inv
<1>d. /\ \A y \in FwSigs : Posted(fw, y)
      /\ fw # <<>> => Taken(fw)
      /\ Append(sys, "REBOOT") \in Seq({"REBOOT", "CMD_REBOOT"})
  BY <1>a, PostAndTake, SysPost DEF Counts
<1>e. /\ (running' = TRUE => o' = 1) /\ (flashing' = TRUE => f' = 1) /\ (timer' = TRUE => t' = 1)
      /\ (timer' = FALSE => t' = 0) /\ (running' = FALSE => o' = 0)
      /\ (~running => o = 0) /\ (~flashing => f = 0) /\ (timer => t = 1)
  <2>1. /\ running' = TRUE => o' = 1
        /\ flashing' = TRUE => f' = 1
        /\ timer' = TRUE => t' = 1
        /\ timer' = FALSE => t' = 0
        /\ running' = FALSE => o' = 0
    BY Bits
  <2>2. (~running => o = 0) /\ (~flashing => f = 0) /\ (timer => t = 1)
    BY <1>b
  <2> QED  BY <2>1, <2>2
<1> HIDE DEF d, u, r, f, t, o, Types, Checked
<1>1. CASE Request
  <2>1. Posted(fw, "GET_URL")
    BY <1>d DEF FwSigs, d, u, r, f, t, o, Types
  <2>2. d' = d /\ u' = u /\ r' = r /\ f' = f /\ t' = t /\ o' = o /\ Types'
        /\ queued' = queued /\ downloading' = downloading /\ file' = file
    <3>1. CASE fw' = Append(fw, "GET_URL") /\ sys' = sys
      BY <1>1, <3>1, <2>1, <1>a, <1>b DEF Request, Posted, FwSigs, d, u, r, f, t, o, Types
    <3>2. CASE sys' = Append(sys, "REBOOT") /\ fw' = fw
      BY <1>1, <3>2, <1>a, <1>d DEF Request, d, u, r, f, t, o, Types
    <3> QED  BY <1>1, <3>1, <3>2 DEF Request
  <2>3. Sum(d, u, r, queued, downloading, f, t, o)' /\ Checked'
    BY <2>2, <1>a, <1>b DEF Sum, Checked, Types
  <2> QED  BY <2>2, <2>3, <1>c
<1>2. CASE GetUrl
  <2>1. Taken(fw) /\ Tail(fw) \in Seq(FwSigs) /\ Head(fw) = "GET_URL"
    BY <1>2, <1>d DEF GetUrl, FwReceives, Taken, d, u, r, f, t, o, Types
  <2>2. Posted(Tail(fw), "DOWNLOAD_START")
    BY <2>1, PostAndTake DEF FwSigs, d, u, r, f, t, o, Types
  <2>3. /\ f' = f /\ t' = t /\ queued' = queued /\ downloading' = downloading /\ file' = file
        /\ u' = u /\ r' = r
        /\ (d' = d + 1 /\ o = 0 /\ o' = 1) \/ (d' = d /\ o' = o)
        /\ Types'
    <3>1. CASE ~running /\ fw' = Append(Tail(fw), "DOWNLOAD_START") /\ running' = TRUE
      <4>1. o = 0 /\ o' = 1
        BY <3>1, <1>e
      <4>2. d' = d + 1 /\ u' = u /\ r' = r
        BY <3>1, <2>1, <2>2, <1>b DEF Posted, Taken, FwSigs, d, u, r
      <4>3. f' = f /\ t' = t /\ queued' = queued /\ downloading' = downloading /\ file' = file
        BY <1>2 DEF GetUrl, f, t
      <4>4. Types'
        BY <1>2, <3>1, <2>2, <1>a DEF GetUrl, Posted, FwSigs, Types
      <4> QED  BY <4>1, <4>2, <4>3, <4>4
    <3>2. CASE fw' = Tail(fw) /\ running' = running
      BY <1>2, <3>2, <2>1, <1>a, <1>b DEF GetUrl, Taken, FwSigs, d, u, r, f, t, o, Types
    <3> QED  BY <1>2, <3>1, <3>2 DEF GetUrl
  <2>4. Sum(d, u, r, queued, downloading, f, t, o)' /\ Checked'
    BY <2>3, <1>a, <1>b DEF Sum, Checked, Types
  <2> QED  BY <2>3, <2>4, <1>c
<1>3. CASE DownloadStart
  <2>1. /\ d' = d - 1 /\ u' = u /\ r' = r /\ f' = f /\ t' = t /\ o' = o /\ file' = file
        /\ queued' = queued + 1 /\ downloading' = downloading
    BY <1>3, <1>a, <1>b, <1>d, Bits DEF DownloadStart, Taken, FwSigs, FwReceives, d, u, r, f, t, o, Types
  <2>2. Types'
    BY <1>3, <1>a, <1>d, Bits DEF DownloadStart, Taken, FwSigs, FwReceives, d, u, r, f, t, o, Types
  <2>3. Sum(d, u, r, queued, downloading, f, t, o)' /\ Checked'
    BY <2>1, <1>a, <1>b DEF Sum, Checked, Types
  <2> QED  BY <2>2, <2>3, <1>c
<1>4. CASE DownloadBegins
  <2>1. d' = d /\ u' = u /\ r' = r /\ f' = f /\ t' = t /\ o' = o /\ file' = "partial"
        /\ queued > 0 /\ queued' = queued - 1 /\ downloading' = downloading + 1
    BY <1>4, <1>a, <1>b, <1>d, Bits DEF DownloadBegins, WORKERS, d, u, r, f, t, o, Types
  <2>2. Types'
    BY <1>4, <1>a, <1>d, Bits DEF DownloadBegins, WORKERS, d, u, r, f, t, o, Types
  <2>3. Sum(d, u, r, queued, downloading, f, t, o)' /\ Checked'
    BY <2>1, <1>a, <1>b DEF Sum, Checked, Types
  <2> QED  BY <2>2, <2>3, <1>c
<1>5. CASE DownloadFails
  <2>1. /\ d' = d /\ u' = u /\ r' = r + 1 /\ f' = f /\ t' = t /\ o' = o /\ file' = "none"
        /\ queued' = queued /\ downloading > 0 /\ downloading' = downloading - 1
    BY <1>5, <1>a, <1>b, <1>d, Bits DEF DownloadFails, Posted, FwSigs, d, u, r, f, t, o, Types
  <2>2. Types'
    BY <1>5, <1>a, <1>d, Bits DEF DownloadFails, Posted, FwSigs, d, u, r, f, t, o, Types
  <2>3. Sum(d, u, r, queued, downloading, f, t, o)' /\ Checked'
    BY <2>1, <1>a, <1>b DEF Sum, Checked, Types
  <2> QED  BY <2>2, <2>3, <1>c
<1>6. CASE DownloadSucceeds
  <2>1. /\ d' = d /\ u' = u + 1 /\ r' = r /\ f' = f /\ t' = t /\ o' = o /\ file' = "checked"
        /\ queued' = queued /\ downloading > 0 /\ downloading' = downloading - 1
    BY <1>6, <1>a, <1>b, <1>d, Bits DEF DownloadSucceeds, Posted, FwSigs, d, u, r, f, t, o, Types
  <2>2. Types'
    BY <1>6, <1>a, <1>d, Bits DEF DownloadSucceeds, Posted, FwSigs, d, u, r, f, t, o, Types
  <2>3. Sum(d, u, r, queued, downloading, f, t, o)' /\ Checked'
    BY <2>1, <1>a, <1>b DEF Sum, Checked, Types
  <2> QED  BY <2>2, <2>3, <1>c
<1>7. CASE UpgradeStart
  <2>1. /\ d' = d /\ u' = u - 1 /\ r' = r /\ t' = t /\ o' = o /\ file' = file
        /\ f = 0 /\ f' = 1 /\ queued' = queued /\ downloading' = downloading /\ u > 0
    <3>1. f = 0 /\ f' = 1
      BY <1>7, <1>e DEF UpgradeStart, FwReceives
    <3>2. Taken(fw) /\ Head(fw) = "UPGRADE_START" /\ fw' = Tail(fw)
      BY <1>7, <1>d DEF UpgradeStart, FwReceives, Taken, FwSigs
    <3>3. d' = d /\ u' = u - 1 /\ r' = r
      BY <3>2, <1>b DEF Taken, FwSigs, d, u, r
    <3>4. u' \in Nat
      BY <3>2, PlacesFinite DEF Taken, u
    <3>5. t' = t /\ o' = o /\ file' = file /\ queued' = queued /\ downloading' = downloading
      BY <1>7 DEF UpgradeStart, t, o
    <3> QED  BY <3>1, <3>3, <3>4, <3>5, <1>b
  <2>2. Types'
    BY <1>7, <1>a, <1>d, Bits DEF UpgradeStart, Taken, FwSigs, FwReceives, Counts, d, u, r, f, t, o, Types
  <2>3. Sum(d, u, r, queued, downloading, f, t, o)' /\ Checked'
    BY <2>1, <1>a, <1>b DEF Sum, Checked, Types
  <2> QED  BY <2>2, <2>3, <1>c
<1>8. CASE FlashFails
  <2>1. /\ d' = d /\ u' = u /\ r' = r /\ f = 1 /\ f' = 0 /\ t' = t /\ o' = 0 /\ file' = file
        /\ queued' = queued /\ downloading' = downloading
    BY <1>8, <1>a, <1>b, <1>d, Bits DEF FlashFails, d, u, r, f, t, o, Types
  <2>2. Types'
    BY <1>8, <1>a, <1>d, Bits DEF FlashFails, d, u, r, f, t, o, Types
  <2>3. Sum(d, u, r, queued, downloading, f, t, o)' /\ Checked'
    BY <2>1, <1>a, <1>b DEF Sum, Checked, Types
  <2> QED  BY <2>2, <2>3, <1>c
<1>9. CASE FlashSucceeds
  <2>1. /\ d' = d /\ u' = u /\ r' = r /\ f = 1 /\ f' = 0 /\ t' = 1 /\ o' = o /\ file' = file
        /\ queued' = queued /\ downloading' = downloading
    BY <1>9, <1>a, <1>b, <1>d, Bits DEF FlashSucceeds, d, u, r, f, t, o, Types
  <2>2. Types'
    BY <1>9, <1>a, <1>d, Bits DEF FlashSucceeds, d, u, r, f, t, o, Types
  <2>3. Sum(d, u, r, queued, downloading, f, t, o)' /\ Checked'
    BY <2>1, <1>a, <1>b DEF Sum, Checked, Types
  <2> QED  BY <2>2, <2>3, <1>c
<1>10. CASE ReleaseTimeout
  <2>1. /\ d' = d /\ u' = u /\ r' = r + 1 /\ f' = f /\ t = 1 /\ t' = 0 /\ o' = o
        /\ file' = file /\ queued' = queued /\ downloading' = downloading
    <3>1. t = 1 /\ t' = 0
      BY <1>10, <1>e DEF ReleaseTimeout
    <3>2. d' = d /\ u' = u /\ r' = r + 1
      <4>1. Posted(fw, "RELEASE") /\ fw' = Append(fw, "RELEASE")
        BY <1>10, <1>d DEF ReleaseTimeout, FwSigs
      <4> QED  BY <4>1, <1>b DEF Posted, FwSigs, d, u, r
    <3> QED  BY <1>10, <3>1, <3>2 DEF ReleaseTimeout, f, o
  <2>2. Types'
    BY <1>10, <1>a, <1>d, Bits DEF ReleaseTimeout, Posted, FwSigs, d, u, r, f, t, o, Types
  <2>3. Sum(d, u, r, queued, downloading, f, t, o)' /\ Checked'
    BY <2>1, <1>a, <1>b DEF Sum, Checked, Types
  <2> QED  BY <2>2, <2>3, <1>c
<1>11. CASE Release
  <2>1. /\ d' = d /\ u' = u /\ r' = r - 1 /\ f' = f /\ t' = t /\ o' = 0
        /\ file' = file /\ queued' = queued /\ downloading' = downloading /\ r > 0
    <3>1. o' = 0
      BY <1>11, <1>e DEF Release
    <3>2. Taken(fw) /\ Head(fw) = "RELEASE" /\ fw' = Tail(fw)
      BY <1>11, <1>d DEF Release, FwReceives
    <3>3. d' = d /\ u' = u /\ r' = r - 1
      BY <3>2, <1>b DEF Taken, FwSigs, d, u, r
    <3>4. r' \in Nat
      BY <3>2, PlacesFinite DEF Taken, r
    <3>5. t' = t /\ f' = f /\ file' = file /\ queued' = queued /\ downloading' = downloading
      BY <1>11 DEF Release, t, f
    <3> QED  BY <3>1, <3>3, <3>4, <3>5, <1>b
  <2>2. Types'
    BY <1>11, <1>a, <1>d, Bits DEF Release, Taken, FwSigs, FwReceives, Counts, d, u, r, f, t, o, Types
  <2>3. Sum(d, u, r, queued, downloading, f, t, o)' /\ Checked'
    BY <2>1, <1>a, <1>b DEF Sum, Checked, Types
  <2> QED  BY <2>2, <2>3, <1>c
<1>12. CASE Reboot
  <2>1. sys' \in Seq({"REBOOT", "CMD_REBOOT"})
    <3>1. Tail(sys) \in Seq({"REBOOT", "CMD_REBOOT"})
      BY <1>12, <1>a, SysPost DEF Reboot, d, u, r, f, t, o, Types
    <3> QED  BY <1>12, <3>1, SysPost DEF Reboot
  <2>2. /\ d' = d /\ u' = u /\ r' = r /\ f' = f /\ t' = t /\ o' = o /\ Types'
        /\ queued' = queued /\ downloading' = downloading /\ file' = file
    BY <1>12, <2>1, <1>a DEF Reboot, d, u, r, f, t, o, Types
  <2>3. Sum(d, u, r, queued, downloading, f, t, o)' /\ Checked'
    BY <2>2, <1>a, <1>b DEF Sum, Checked, Types
  <2> QED  BY <2>2, <2>3, <1>c
<1>13. CASE CmdReboot
  <2>1. fw' = <<>> /\ sys' = <<>> /\ Types'
    <3>1. /\ fw' = <<>> /\ sys' = <<>> /\ queued' = 0 /\ downloading' = 0 /\ file' = "none"
          /\ running' \in BOOLEAN /\ flashing' \in BOOLEAN /\ timer' \in BOOLEAN
      BY <1>13 DEF CmdReboot
    <3>2. fw' \in Seq(FwSigs) /\ sys' \in Seq({"REBOOT", "CMD_REBOOT"})
      BY <3>1, EmptySeq
    <3> QED  BY <3>1, <3>2 DEF Types
  <2>2. /\ d' = 0 /\ u' = 0 /\ r' = 0 /\ f' = 0 /\ t' = 0 /\ o' = 0
        /\ queued' = 0 /\ downloading' = 0
    BY <1>13, <2>1, CountEmpty, Bits DEF CmdReboot, d, u, r, f, t, o, Types
  <2>3. Sum(d, u, r, queued, downloading, f, t, o)' /\ Checked'
    BY <2>2 DEF Sum, Checked, Types
  <2> QED  BY <2>1, <2>3, <1>c
<1>14. CASE UNCHANGED vars
  BY <1>14, <1>a, <1>c DEF vars, Sum, Checked, Types, d, u, r, f, t, o
<1> QED
  BY <1>1, <1>2, <1>3, <1>4, <1>5, <1>6, <1>7, <1>8, <1>9, <1>10, <1>11, <1>12, <1>13, <1>14
     DEF Next, Fw, Sys, Flash, DownloadEnds

THEOREM UpgradeInvariant == Spec => []Inv
<1> QED  BY InitInv, NextInv, PTL DEF Spec

\* isOtaRunning is set exactly while an upgrade is somewhere, and it is in one place,
\* for any number of requests, failures and reboots.
THEOREM OneUpgradeTheorem == Spec => []OneUpgrade
<1>1. Inv => OneUpgrade
  BY DEF Inv
<1> QED  BY <1>1, UpgradeInvariant, PTL

\* FIRMWARE_FILE is the checked one from the end of its check to the end of the flash.
THEOREM FlashedIsCheckedTheorem == Spec => []FlashedIsChecked
<1>1. Inv => FlashedIsChecked
  BY DEF Inv
<1> QED  BY <1>1, UpgradeInvariant, PTL
=============================================================================
