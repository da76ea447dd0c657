---------------------------- MODULE MemoryProofs ----------------------------
(***************************************************************************)
(* The two maps of memory, which share no state, proved side by side.      *)
(*                                                                         *)
(* MemoryMap: ownership of the regions in the physical address map, for    *)
(* every size of the map and every set of devices: the list never holds a  *)
(* region that was deleted, and a region is deleted twice only after an    *)
(* error.  Then the order of the list, which decides who serves an         *)
(* address: the control region comes first, a region just added second.    *)
(* Last the walk that validates an access from region to region.           *)
(*                                                                         *)
(* VirtualMemory: the page walk, for every number of levels, size of page  *)
(* and contents of the tables.                                             *)
(***************************************************************************)
EXTENDS MemoryMap, VirtualMemory, TLAPS, SequenceTheorems, NaturalsInduction,
        WellFoundedInduction

-----------------------------------------------------------------------------
(* MemoryMap                                                               *)

MapType == [list : Seq(RegionType), count : Addr, blind : BOOLEAN]

\* The regions of the list belong to the owners in `live`, one each.
Held(m, live) ==
    /\ m \in MapType
    /\ \A i \in 1..Len(m.list) : m.list[i].kind \in Owner => m.list[i].kind \in live
    /\ \A i, j \in 1..Len(m.list) :
          m.list[i].kind \in Owner /\ m.list[i].kind = m.list[j].kind => i = j

-----------------------------------------------------------------------------
(* Lists.                                                                  *)

LEMMA MinOfNat ==
    ASSUME NEW S \in SUBSET Nat, S # {}
    PROVE  Min(S) \in S /\ \A x \in S : Min(S) =< x
  <1> DEFINE Less == {p \in Nat \X Nat : p[1] < p[2]}
  <1>1. IsWellFoundedOn(Less, Nat)
    BY NatLessThanWellFounded, Zenon DEF OpToRel
  <1>2. \E x \in S : \A y \in S : <<y, x>> \notin Less
    <2> HIDE DEF Less
    <2> QED BY <1>1, WFMin
  <1>3. \A x, y \in Nat : y < x => <<y, x>> \in Less
    OBVIOUS
  <1>4. \E x \in S : \A y \in S : x =< y
    <2> HIDE DEF Less
    <2>1. PICK x \in S : \A y \in S : <<y, x>> \notin Less
      BY <1>2
    <2>2. ASSUME NEW y \in S
          PROVE  x =< y
      <3>1. x \in Nat /\ y \in Nat /\ ~(y < x)
        BY <1>3, <2>1
      <3> QED BY <3>1
    <2> QED BY <2>2
  <1> QED
    BY <1>4 DEF Min

\* `new` is s without its element number i.
Removed(new, s, i) ==
    /\ Len(new) = Len(s) - 1
    /\ \A k \in 1..(Len(s) - 1) : new[k] = s[IF k < i THEN k ELSE k + 1]

LEMMA RemoveAtProperties ==
    ASSUME NEW S, NEW s \in Seq(S), NEW i \in 1..Len(s)
    PROVE  RemoveAt(s, i) \in Seq(S) /\ Removed(RemoveAt(s, i), s, i)
  <1> DEFINE a == SubSeq(s, 1, i - 1)
             b == SubSeq(s, i + 1, Len(s))
  <1>1. /\ a \in Seq(S) /\ Len(a) = i - 1
        /\ \A k \in 1..(i - 1) : a[k] = s[k]
    BY SubSeqProperties
  <1>2. /\ b \in Seq(S) /\ Len(b) = Len(s) - i
        /\ \A k \in 1..(Len(s) - i) : b[k] = s[i + k]
    BY SubSeqProperties
  <1> HIDE DEF a, b
  <1>3. RemoveAt(s, i) = a \o b
    BY DEF RemoveAt, a, b
  <1>4. /\ a \o b \in Seq(S) /\ Len(a \o b) = Len(s) - 1
        /\ \A k \in 1..(Len(s) - 1) :
              (a \o b)[k] = IF k <= i - 1 THEN a[k] ELSE b[k - (i - 1)]
    <2>1. /\ a \o b \in Seq(S) /\ Len(a \o b) = Len(a) + Len(b)
          /\ \A k \in 1..(Len(a) + Len(b)) :
                (a \o b)[k] = IF k <= Len(a) THEN a[k] ELSE b[k - Len(a)]
      BY <1>1, <1>2, ConcatProperties
    <2>2. Len(a) + Len(b) = Len(s) - 1
      BY <1>1, <1>2
    <2> QED BY <1>1, <2>1, <2>2
  <1>5. ASSUME NEW k \in 1..(Len(s) - 1)
        PROVE  (a \o b)[k] = s[IF k < i THEN k ELSE k + 1]
    <2>1. CASE k < i
      BY <1>1, <1>4, <2>1
    <2>2. CASE ~(k < i)
      <3>1. k - (i - 1) \in 1..(Len(s) - i) /\ i + (k - (i - 1)) = k + 1
        BY <2>2
      <3> QED BY <1>2, <1>4, <2>2, <3>1
    <2> QED BY <2>1, <2>2
  <1> QED
    BY <1>3, <1>4, <1>5 DEF Removed

\* `new` is s with e as its element number i.
Inserted(new, s, i, e) ==
    /\ Len(new) = Len(s) + 1
    /\ \A k \in 1..(Len(s) + 1) :
          new[k] = IF k < i THEN s[k] ELSE IF k = i THEN e ELSE s[k - 1]

LEMMA InsertAtProperties ==
    ASSUME NEW S, NEW s \in Seq(S), NEW e \in S, NEW i \in 1..(Len(s) + 1)
    PROVE  InsertAt(s, i, e) \in Seq(S) /\ Inserted(InsertAt(s, i, e), s, i, e)
  <1> DEFINE a == SubSeq(s, 1, i - 1)
             b == SubSeq(s, i, Len(s))
  <1>1. /\ a \in Seq(S) /\ Len(a) = i - 1
        /\ \A k \in 1..(i - 1) : a[k] = s[k]
    BY SubSeqProperties
  <1>2. /\ b \in Seq(S) /\ Len(b) = Len(s) - i + 1
        /\ \A k \in 1..(Len(s) - i + 1) : b[k] = s[i + k - 1]
    BY SubSeqProperties
  <1> HIDE DEF a, b
  <1>3. InsertAt(s, i, e) = (a \o <<e>>) \o b
    BY DEF InsertAt, a, b
  <1>4. /\ a \o <<e>> \in Seq(S) /\ Len(a \o <<e>>) = i
        /\ \A k \in 1..i : (a \o <<e>>)[k] = IF k < i THEN s[k] ELSE e
    BY <1>1, ConcatProperties
  <1> QED
    BY <1>2, <1>3, <1>4, ConcatProperties DEF Inserted

LEMMA AppendProps ==
    ASSUME NEW S, NEW s \in Seq(S), NEW e \in S
    PROVE  /\ Append(s, e) \in Seq(S)
           /\ Inserted(Append(s, e), s, Len(s) + 1, e)
  BY AppendProperties, LenProperties DEF Inserted

-----------------------------------------------------------------------------
(* The operations of MMU keep the regions with their owners.               *)

\* What SelectInSeq finds is in the list.
LEMMA InList ==
    ASSUME NEW S, NEW s \in Seq(S), NEW I \in SUBSET (1..Len(s))
    PROVE  (IF I # {} THEN Min(I) ELSE 0) \in 0..Len(s)
  <1>1. Len(s) \in Nat
    BY LenProperties
  <1>2. I \in SUBSET Nat
    BY <1>1
  <1>3. I # {} => Min(I) \in I
    BY <1>2, MinOfNat
  <1>4. I # {} => Min(I) \in 1..Len(s)
    BY <1>3
  <1>5. 0 \in 0..Len(s) /\ 1..Len(s) \subseteq 0..Len(s)
    BY <1>1
  <1>6. CASE I = {}
    BY <1>5, <1>6
  <1>7. CASE I # {}
    BY <1>4, <1>5, <1>7
  <1> QED BY <1>6, <1>7

LEMMA AddHeld ==
    ASSUME NEW m, NEW live, NEW live2, Held(m, live), NEW r \in RegionType,
           live \subseteq live2,
           r.kind \in Owner => r.kind \in live2 \ live
    PROVE  Held(AddMemoryRegion(m, r), live2)
  <1> DEFINE larger == SelectInSeq(m.list, LAMBDA c : r.start < c.start)
             Fits(list) == /\ list \in Seq(RegionType)
                           /\ \E n \in 1..(Len(m.list) + 1) :
                                 Inserted(list, m.list, n, r)
  <1>1. /\ m.list \in Seq(RegionType) /\ m.count \in Addr /\ Len(m.list) \in Nat
        /\ m.blind \in BOOLEAN /\ m \in MapType
    BY LenProperties DEF Held, MapType
  <1>2. larger \in 0..Len(m.list)
    BY <1>1, InList DEF SelectInSeq
  <1>3. ASSUME NEW list, Fits(list), NEW count \in Addr, NEW blind \in BOOLEAN
        PROVE  Held([list |-> list, count |-> count, blind |-> blind], live2)
    <2>0. PICK n \in 1..(Len(m.list) + 1) : Inserted(list, m.list, n, r)
      BY <1>3
    <2>1. /\ list \in Seq(RegionType) /\ Len(list) = Len(m.list) + 1
          /\ \A k \in 1..(Len(m.list) + 1) :
                list[k] = IF k < n THEN m.list[k]
                          ELSE IF k = n THEN r ELSE m.list[k - 1]
      BY <1>3, <2>0 DEF Inserted
    <2> DEFINE Old(k) == IF k < n THEN k ELSE k - 1
    <2>2. \A k \in 1..(Len(m.list) + 1) : k # n =>
             Old(k) \in 1..Len(m.list) /\ list[k] = m.list[Old(k)]
      <3>1. TAKE k \in 1..(Len(m.list) + 1)
      <3>2. HAVE k # n
      <3>3. CASE k < n
        <4>1. k \in 1..Len(m.list)
          BY <1>1, <3>3
        <4> QED BY <2>1, <3>3, <4>1
      <3>4. CASE ~(k < n)
        <4>1. k - 1 \in 1..Len(m.list)
          BY <1>1, <3>2, <3>4
        <4> QED BY <2>1, <3>2, <3>4, <4>1
      <3> QED BY <3>3, <3>4
    <2>3. \A i, j \in 1..(Len(m.list) + 1) :
             i # n /\ j # n /\ Old(i) = Old(j) => i = j
      BY <1>1, <2>1
    <2>4. list[n] = r /\ Len(list) = Len(m.list) + 1
      BY <2>1
    <2> HIDE DEF Old
    <2>5. ASSUME NEW k \in 1..Len(list), list[k].kind \in Owner
          PROVE  list[k].kind \in live2
      <3>1. CASE k = n
        BY <2>4, <2>5, <3>1
      <3>2. CASE k # n
        BY <2>2, <2>4, <2>5, <3>2 DEF Held
      <3> QED BY <3>1, <3>2
    <2>6. ASSUME NEW i \in 1..Len(list), NEW j \in 1..Len(list),
                 list[i].kind \in Owner, list[i].kind = list[j].kind
          PROVE  i = j
      <3>1. \A k \in 1..Len(list) : k # n /\ list[k].kind \in Owner =>
               list[k].kind \in live
        BY <2>2, <2>4 DEF Held
      <3>2. i = n <=> j = n
        BY <2>4, <2>6, <3>1
      <3>3. CASE i # n /\ j # n
        <4>1. Old(i) = Old(j)
          BY <2>2, <2>4, <2>6, <3>3 DEF Held
        <4> QED BY <2>3, <2>4, <3>3, <4>1
      <3> QED BY <3>2, <3>3
    <2> QED BY <1>3, <2>1, <2>5, <2>6 DEF Held, MapType
  <1> HIDE DEF larger
  <1>4. \A c \in Nat : (c + 1) % AddrMod \in Addr
    BY MapAssumption DEF Addr
  <1>5. CASE m.count = 0
    <2>1. Fits(Append(m.list, r))
      <3>1. /\ Append(m.list, r) \in Seq(RegionType)
            /\ Inserted(Append(m.list, r), m.list, Len(m.list) + 1, r)
        BY <1>1, AppendProps
      <3>2. Len(m.list) + 1 \in 1..(Len(m.list) + 1)
        BY <1>1
      <3> QED BY <3>1, <3>2, Zenon
    <2>2. 1 \in Addr
      BY MapAssumption DEF Addr
    <2>3. (m.blind \/ m.list # <<>>) \in BOOLEAN
      BY <1>1
    <2>4. AddMemoryRegion(m, r) =
            [list |-> Append(m.list, r), count |-> 1, blind |-> m.blind \/ m.list # <<>>]
      BY <1>5 DEF AddMemoryRegion, AppendRegion
    <2> HIDE DEF Fits
    <2> QED BY <1>3, <2>1, <2>2, <2>3, <2>4
  <1>6. CASE m.count # 0 /\ larger = 0
    BY <1>6 DEF AddMemoryRegion, Held, larger
  <1>7. \A n \in 1..(Len(m.list) + 1) : Fits(InsertAt(m.list, n, r))
    BY <1>1, InsertAtProperties
  <1>8. CASE m.count # 0 /\ larger # 0
    <2> DEFINE list == InsertAt(m.list, larger + 1, r)
    <2>1. larger + 1 \in 1..(Len(m.list) + 1)
      BY <1>1, <1>2, <1>8
    <2>2. Fits(list)
      BY <1>7, <2>1
    <2>3. (m.count + 1) % AddrMod \in Addr
      BY <1>1, <1>4 DEF Addr
    <2>4. AddMemoryRegion(m, r) =
            [list |-> list, count |-> (m.count + 1) % AddrMod, blind |-> m.blind]
      BY <1>8 DEF AddMemoryRegion, larger
    <2> HIDE DEF list, Fits
    <2> QED BY <1>1, <1>3, <2>2, <2>3, <2>4
  <1> QED BY <1>5, <1>6, <1>8

\* The count of regions one above and one below.
After(c) == IF c = AddrMod - 1 THEN 0 ELSE c + 1

LEMMA CountModulo ==
    ASSUME NEW c \in Addr
    PROVE  /\ c % AddrMod = c /\ (c + 1) % AddrMod = After(c)
           /\ (c + AddrMod - 1) % AddrMod = IF c = 0 THEN AddrMod - 1 ELSE c - 1
  <1>1. PICK n \in Nat : n = AddrMod /\ n > 1
    BY MapAssumption
  <1>2. c \in 0..(n - 1)
    BY <1>1 DEF Addr
  <1>3. c % n = c
    BY <1>1, <1>2
  <1>4. (c + 1) % n = IF c = n - 1 THEN 0 ELSE c + 1
    BY <1>1, <1>2
  <1>5. (c + n - 1) % n = IF c = 0 THEN n - 1 ELSE c - 1
    BY <1>1, <1>2
  <1> QED BY <1>1, <1>3, <1>4, <1>5 DEF After

LEMMA RemoveHeld ==
    ASSUME NEW m, NEW live, Held(m, live), NEW i \in 0..Len(m.list)
    PROVE  Held(RemoveAtIndex(m, i), live)
  <1>1. /\ m.list \in Seq(RegionType) /\ m.count \in Addr /\ Len(m.list) \in Nat
        /\ m.blind \in BOOLEAN /\ m \in MapType
    BY LenProperties DEF Held, MapType
  <1> DEFINE count == (m.count + AddrMod - 1) % AddrMod
  <1>2. count \in Addr
    <2>1. count = IF m.count = 0 THEN AddrMod - 1 ELSE m.count - 1
      BY <1>1, CountModulo
    <2>2. PICK n \in Nat : n = AddrMod /\ n > 1
      BY MapAssumption
    <2>3. m.count \in 0..(n - 1)
      BY <1>1, <2>2 DEF Addr
    <2> HIDE DEF count
    <2>4. count \in 0..(n - 1)
      BY <2>1, <2>2, <2>3
    <2> QED BY <2>2, <2>4 DEF Addr
  <1> HIDE DEF count
  <1>3. CASE i = 0
    <2>1. RemoveAtIndex(m, i) = [list |-> m.list, count |-> count, blind |-> m.blind]
      BY <1>3 DEF RemoveAtIndex, count
    <2> QED BY <1>1, <1>2, <2>1 DEF Held, MapType
  <1>4. CASE i # 0
    <2> DEFINE list == RemoveAt(m.list, i)
    <2>1. RemoveAtIndex(m, i) = [list |-> list, count |-> count, blind |-> m.blind]
      BY <1>4 DEF RemoveAtIndex, count
    <2>2. list \in Seq(RegionType) /\ Removed(list, m.list, i)
      BY <1>1, <1>4, RemoveAtProperties
    <2> HIDE DEF list
    <2> DEFINE Old(k) == IF k < i THEN k ELSE k + 1
    <2>3. \A k \in 1..Len(list) :
             Old(k) \in 1..Len(m.list) /\ list[k] = m.list[Old(k)]
      <3>1. TAKE k \in 1..Len(list)
      <3>2. k \in 1..(Len(m.list) - 1)
        BY <2>2 DEF Removed
      <3>3. Old(k) \in 1..Len(m.list)
        BY <1>1, <3>2
      <3> QED BY <2>2, <3>2, <3>3 DEF Removed
    <2>4. \A j, k \in 1..Len(list) : Old(j) = Old(k) => j = k
      BY <1>1, <2>2 DEF Removed
    <2> HIDE DEF Old
    <2>5. ASSUME NEW k \in 1..Len(list), list[k].kind \in Owner
          PROVE  list[k].kind \in live
      BY <2>3, <2>5 DEF Held
    <2>6. ASSUME NEW j \in 1..Len(list), NEW k \in 1..Len(list),
                 list[j].kind \in Owner, list[j].kind = list[k].kind
          PROVE  j = k
      <3>1. Old(j) = Old(k)
        BY <2>3, <2>6 DEF Held
      <3> QED BY <2>4, <3>1
    <2>7. PICK new : new = [list |-> list, count |-> count, blind |-> m.blind]
      OBVIOUS
    <2>8. new.list = list /\ new \in MapType
      BY <1>1, <1>2, <2>2, <2>7 DEF MapType
    <2>9. Held(new, live)
      BY <2>5, <2>6, <2>8, Zenon DEF Held
    <2> QED BY <2>1, <2>7, <2>9
  <1> QED BY <1>3, <1>4

\* The region of an owner is gone when the owner has given it up.
LEMMA RemoveOwnerHeld ==
    ASSUME NEW m, NEW live, Held(m, live), NEW o \in Owner
    PROVE  Held(RemoveMemoryRegion(m, o), live \ {o})
  <1> DEFINE spot == SelectInSeq(m.list, LAMBDA r : r.kind = o)
             I  == {i \in 1..Len(m.list) : m.list[i].kind = o}
             m2 == RemoveAtIndex(m, spot)
  <1>1. m.list \in Seq(RegionType) /\ m.count \in Addr /\ Len(m.list) \in Nat
    BY LenProperties DEF Held, MapType
  <1>2. spot = IF I # {} THEN Min(I) ELSE 0
    BY DEF SelectInSeq
  <1>3. spot \in 0..Len(m.list)
    BY <1>1, <1>2, InList
  <1>4. I \in SUBSET Nat /\ 0 \notin I
    BY <1>1
  <1>5. IF spot = 0 THEN I = {} ELSE spot \in I
    <2> HIDE DEF spot, I
    <2>1. I # {} => Min(I) \in I
      BY <1>4, MinOfNat
    <2> QED BY <1>2, <1>4, <2>1
  <1> HIDE DEF spot
  <1>6. Held(m2, live)
    BY <1>3, RemoveHeld
  <1>7. \A k \in 1..Len(m2.list) : m2.list[k].kind # o
    <2>1. CASE spot = 0
      BY <1>5, <2>1 DEF RemoveAtIndex
    <2>2. CASE spot # 0
      <3>1. m2.list = RemoveAt(m.list, spot)
        BY <2>2 DEF RemoveAtIndex
      <3>2. Removed(m2.list, m.list, spot)
        BY <1>1, <1>3, <2>2, <3>1, RemoveAtProperties
      <3>3. ASSUME NEW k \in 1..Len(m2.list), m2.list[k].kind = o
            PROVE  FALSE
        <4>1. k \in 1..(Len(m.list) - 1)
          BY <3>2, <3>3 DEF Removed
        <4>2. m2.list[k] = m.list[IF k < spot THEN k ELSE k + 1]
          BY <3>2, <4>1 DEF Removed
        <4>3. (IF k < spot THEN k ELSE k + 1) = spot
          BY <1>1, <1>5, <2>2, <3>3, <4>1, <4>2 DEF Held
        <4> QED BY <1>3, <4>1, <4>3
      <3> QED BY <3>3
    <2> QED BY <2>1, <2>2
  <1>8. RemoveMemoryRegion(m, o) = m2
    BY DEF RemoveMemoryRegion, spot
  <1> HIDE DEF m2
  <1> QED BY <1>6, <1>7, <1>8 DEF Held

LEMMA RamRegion ==
    ASSUME NEW a \in 0..AddrMod, NEW b \in 0..AddrMod
    PROVE  /\ Region(a, b, "ram") \in RegionType
           /\ Region(a, b, "ram").kind \notin Owner
  BY MapAssumption DEF Region, RegionType, Kind, Owner

LEMMA AddRamHeld ==
    ASSUME NEW m, NEW live, Held(m, live),
           NEW a \in 0..AddrMod, NEW b \in 0..AddrMod
    PROVE  Held(AddMemoryRegion(m, Region(a, b, "ram")), live)
  BY RamRegion, AddHeld

LEMMA CutHeld ==
    ASSUME NEW m, NEW live, Held(m, live),
           NEW start \in Addr, NEW end \in Addr
    PROVE  /\ Held(RemoveRegionSegment(m, start, end).map, live)
           /\ RemoveRegionSegment(m, start, end).segment \in RegionType
  <1> DEFINE spot == SelectInSeq(m.list, LAMBDA c : Inside(c, start) /\ c.start < end)
             r == m.list[spot]
             fails == \/ ~CanSplit(r)
                      \/ /\ r.end < end /\ spot < Len(m.list)
                         /\ m.list[spot + 1].start < end
             gone == RemoveAtIndex(m, spot)
             lower == IF r.start < start
                      THEN AddMemoryRegion(gone, Region(r.start, start, "ram"))
                      ELSE gone
             upper == IF end < r.end
                      THEN AddMemoryRegion(lower, Region(end, r.end, "ram"))
                      ELSE lower
             segment == Region(start, IF end < r.end THEN end ELSE r.end, "ram")
  <1>1. m.list \in Seq(RegionType) /\ Len(m.list) \in Nat
    BY LenProperties DEF Held, MapType
  <1>2. spot \in 0..Len(m.list)
    BY <1>1, InList DEF SelectInSeq
  <1>3. RemoveRegionSegment(m, start, end) =
          IF spot = 0 THEN [ok |-> TRUE, map |-> m, segment |-> None]
          ELSE IF fails THEN [ok |-> FALSE, map |-> m, segment |-> None]
          ELSE [ok |-> TRUE, map |-> upper, segment |-> segment]
    BY DEF RemoveRegionSegment
  <1>4. None \in RegionType
    BY RamRegion, MapAssumption DEF None
  <1>5. Held(gone, live)
    BY <1>2, RemoveHeld
  <1>6. start \in 0..AddrMod /\ end \in 0..AddrMod
    BY MapAssumption DEF Addr
  <1>7. spot # 0 => r.start \in 0..AddrMod /\ r.end \in 0..AddrMod
    <2>1. spot # 0 => r \in RegionType
      BY <1>1, <1>2
    <2> QED BY <2>1 DEF RegionType
  <1> HIDE DEF spot, r, fails, gone
  <1>8. spot # 0 => Held(lower, live)
    BY <1>5, <1>6, <1>7, AddRamHeld
  <1> HIDE DEF lower
  <1>9. spot # 0 => Held(upper, live)
    BY <1>6, <1>7, <1>8, AddRamHeld
  <1>10. spot # 0 => segment \in RegionType
    BY <1>6, <1>7, RamRegion
  <1> HIDE DEF upper, segment
  <1> QED BY <1>3, <1>4, <1>9, <1>10

LEMMA ReaddHeld ==
    ASSUME NEW m, NEW live, Held(m, live), NEW segment \in RegionType
    PROVE  Held(ReaddRegionSegment(m, segment), live)
  <1> DEFINE gaps == {i \in 2..Len(m.list) : /\ m.list[i - 1].end <= segment.start
                                             /\ segment.end <= m.list[i].start}
             spot == Min(gaps)
             before == m.list[spot - 1]
             after == m.list[spot]
             joinsBefore == before.end = segment.start
             joinsAfter == after.start = segment.end
             m1 == IF joinsAfter THEN RemoveAtIndex(m, spot) ELSE m
             m2 == IF joinsBefore THEN RemoveAtIndex(m1, spot - 1) ELSE m1
             start == IF joinsBefore THEN before.start ELSE segment.start
             end == IF joinsAfter THEN after.end ELSE segment.end
  <1>1. m.list \in Seq(RegionType) /\ Len(m.list) \in Nat
    BY LenProperties DEF Held, MapType
  <1>2. ReaddRegionSegment(m, segment) =
          IF segment = None \/ gaps = {} THEN m
          ELSE AddMemoryRegion(m2, Region(start, end, "ram"))
    BY DEF ReaddRegionSegment
  <1>3. gaps # {} => spot \in 2..Len(m.list)
    <2>1. gaps \in SUBSET (2..Len(m.list)) /\ gaps \in SUBSET Nat
      BY <1>1
    <2> HIDE DEF gaps
    <2> QED BY <2>1, MinOfNat
  <1> HIDE DEF gaps, spot
  <1>4. CASE gaps = {}
    BY <1>2, <1>4
  <1>5. CASE gaps # {}
    <2>1. before \in RegionType /\ after \in RegionType
      BY <1>1, <1>3, <1>5
    <2>2. start \in 0..AddrMod /\ end \in 0..AddrMod
      BY <2>1 DEF RegionType
    <2> HIDE DEF before, after, start, end
    <2>3. Held(m1, live)
      BY <1>3, <1>5, RemoveHeld
    <2>4. spot - 1 \in 0..Len(m1.list)
      <3>1. Len(m.list) - 1 <= Len(m1.list)
        BY <1>1, <1>3, <1>5, RemoveAtProperties DEF RemoveAtIndex, Removed
      <3>2. Len(m1.list) \in Nat
        BY <2>3, LenProperties DEF Held, MapType
      <3> QED BY <1>1, <1>3, <1>5, <3>1, <3>2
    <2> HIDE DEF m1
    <2>5. Held(m2, live)
      BY <2>3, <2>4, RemoveHeld
    <2> HIDE DEF m2
    <2> QED BY <1>2, <2>2, <2>5, AddRamHeld
  <1> QED BY <1>4, <1>5

-----------------------------------------------------------------------------
(* The commands.                                                           *)

Live == {o \in Owner : slot[o].pointer = "live"}

SlotType == [base : Addr, pointer : {"null", "live", "deleted"},
             segment : RegionType]

\* A pointer to a deleted region that the next command would delete again is
\* left behind by an error only.
DeletedInv ==
    /\ \A d \in Device : slot[d].pointer = "live" => slot[d].base # 0
    /\ \A o \in Owner :
          slot[o].pointer = "deleted" /\ (o = Frame \/ slot[o].base # 0) => o \in refused

\* The inductive invariant.
MapInv == TypeOK /\ Held(map, Live) /\ DeletedInv

LEMMA InitMapInv == Init => MapInv
  <1> SUFFICES ASSUME Init
               PROVE  MapInv
    OBVIOUS
  <1>1. Sys \in RegionType /\ BIOS \in RegionType /\ None \in RegionType
    BY MapAssumption DEF Sys, BIOS, None, Region, RegionType, Kind
  <1>2. Sys.kind \notin Owner /\ BIOS.kind \notin Owner
    BY MapAssumption DEF Sys, BIOS, Region, Owner
  <1>3. Live = {}
    BY DEF Init, Live
  <1>4. Held(EmptyMap, {})
    BY MapAssumption DEF EmptyMap, Held, MapType, Addr
  <1>5. Held(map, {})
    BY <1>1, <1>2, <1>4, AddHeld DEF Init
  <1>6. 0 \in Addr /\ 0 \in 0..RAMSize
    BY MapAssumption DEF Addr
  <1>7. slot \in [Owner -> SlotType]
    BY <1>1, <1>6 DEF Init, SlotType
  <1>8. TypeOK
    BY <1>1, <1>5, <1>6, <1>7 DEF Init, TypeOK, Held, MapType, SlotType
  <1>9. DeletedInv
    BY DEF Init, DeletedInv, Owner
  <1> QED BY <1>3, <1>5, <1>8, <1>9 DEF MapInv

LEMMA SetRegionInv ==
    ASSUME MapInv, NEW r \in RAMRegions, SetRegion(r[1], r[2])
    PROVE  MapInv'
  <1> DEFINE new == Region(r[1], r[1] + r[2], "ram")
  <1>1. r[1] \in Nat /\ r[2] \in Nat /\ r[1] + r[2] < AddrMod /\ RAMSize \in Nat
        /\ AddrMod \in Nat
    BY MapAssumption
  <1>2. r[1] \in 0..AddrMod /\ r[1] + r[2] \in 0..AddrMod
    BY <1>1
  <1>3. new \in RegionType /\ None \in RegionType
    BY <1>1, <1>2, RamRegion DEF None
  <1>4. Held(AddMemoryRegion(map, new), Live)
    BY <1>2, AddRamHeld DEF MapInv
  <1>5. Live' = Live /\ DeletedInv'
    BY DEF SetRegion, Live, MapInv, DeletedInv
  <1> HIDE DEF new
  <1>6. Held(map', Live') /\ latest' \in RegionType
    BY <1>3, <1>4, <1>5 DEF SetRegion, NewMap, MapInv, TypeOK, new
  <1>7. used' \in 0..RAMSize
    BY <1>1 DEF SetRegion, MapInv, TypeOK
  <1>8. TypeOK'
    BY <1>6, <1>7 DEF SetRegion, MapInv, TypeOK, Held, MapType
  <1> QED BY <1>5, <1>6, <1>8 DEF MapInv

LEMMA OccupyInv ==
    ASSUME MapInv, NEW o \in Owner, NEW m, Held(m, Live \ {o}),
           NEW base \in Addr, NEW size \in Nat, NEW pointer \in {"null", "deleted"},
           o \in Device => base # 0,
           Occupy(o, m, base, size, pointer), UNCHANGED <<used, undefined>>
    PROVE  MapInv'
  <1> DEFINE end == (base + size) % AddrMod
             cut == RemoveRegionSegment(m, base, end)
             new == Region(base, end, o)
  <1>1. end \in Addr
    BY MapAssumption DEF Addr
  <1>2. Held(cut.map, Live \ {o}) /\ cut.segment \in RegionType
    BY <1>1, CutHeld
  <1>3. new \in RegionType /\ new.kind = o
    BY <1>1, MapAssumption DEF Region, RegionType, Kind, Addr
  <1>4. Held(AddMemoryRegion(cut.map, new), Live \cup {o})
    <2>1. Live \ {o} \subseteq Live \cup {o} /\ o \in (Live \cup {o}) \ (Live \ {o})
      OBVIOUS
    <2> HIDE DEF cut, new
    <2> QED BY <1>2, <1>3, <2>1, AddHeld
  <1>5. slot \in [Owner -> SlotType] /\ refused \subseteq Owner
    BY DEF MapInv, TypeOK, SlotType
  <1>6. None \in RegionType
    BY RamRegion, MapAssumption DEF None
  <1>7. CASE cut.ok
    <2>1. /\ map' = AddMemoryRegion(cut.map, new) /\ latest' = new
          /\ slot' = [slot EXCEPT ![o] = [base |-> base, pointer |-> "live",
                                          segment |-> cut.segment]]
          /\ refused' = refused \ {o}
      BY <1>7 DEF Occupy, NewMap
    <2> HIDE DEF cut, new
    <2>2. slot' \in [Owner -> SlotType] /\ refused' \subseteq Owner
      BY <1>2, <1>5, <2>1 DEF SlotType
    <2>3. Live' = Live \cup {o}
      BY <1>5, <2>1 DEF Live
    <2>4. DeletedInv'
      BY <1>5, <2>1 DEF MapInv, DeletedInv, SlotType
    <2>5. TypeOK'
      BY <1>3, <1>4, <2>1, <2>2 DEF MapInv, TypeOK, Held, MapType, SlotType
    <2> QED BY <1>4, <2>1, <2>3, <2>4, <2>5 DEF MapInv
  <1>8. CASE ~cut.ok
    <2>1. /\ map' = m /\ latest' = None
          /\ slot' = [slot EXCEPT ![o].base = base, ![o].pointer = pointer]
          /\ refused' = refused \cup {o}
      BY <1>8 DEF Occupy, NewMap
    <2> DEFINE based == [slot EXCEPT ![o].base = base]
    <2>2. /\ based \in [Owner -> SlotType] /\ based[o].base = base
          /\ \A d \in Owner \ {o} : based[d] = slot[d]
      BY <1>5 DEF SlotType
    <2>3. slot' = [based EXCEPT ![o].pointer = pointer]
      BY <2>1
    <2> HIDE DEF based
    <2>4. /\ slot' \in [Owner -> SlotType]
          /\ slot'[o].base = base /\ slot'[o].pointer = pointer
          /\ \A d \in Owner \ {o} : slot'[d] = slot[d]
      BY <2>2, <2>3 DEF SlotType
    <2>5. Live' = Live \ {o} /\ DeletedInv'
      <3>1. Live' = Live \ {o}
        BY <2>4 DEF Live
      <3>2. DeletedInv'
        BY <2>1, <2>4 DEF MapInv, DeletedInv, Owner
      <3> QED BY <3>1, <3>2
    <2>6. TypeOK'
      BY <1>5, <1>6, <2>1, <2>4 DEF MapInv, TypeOK, Held, MapType, SlotType
    <2> QED BY <2>1, <2>5, <2>6 DEF MapInv
  <1> QED BY <1>7, <1>8

\* An owner with a live region gives it up.
LEMMA ReleaseHeld ==
    ASSUME MapInv, NEW o \in Owner
    PROVE  Held(Release(o), Live \ {o})
  <1>1. slot[o].segment \in RegionType
    BY DEF MapInv, TypeOK
  <1>2. Held(RemoveMemoryRegion(map, o), Live \ {o})
    BY RemoveOwnerHeld DEF MapInv
  <1> QED BY <1>1, <1>2, ReaddHeld DEF Release

LEMMA DeleteAgainInv ==
    ASSUME MapInv, DeleteAgain
    PROVE  MapInv'
  <1>1. Live' = Live
    BY DEF DeleteAgain, Live
  <1>2. TypeOK'
    BY DEF DeleteAgain, MapInv, TypeOK
  <1>3. DeletedInv'
    BY DEF DeleteAgain, MapInv, DeletedInv
  <1> QED BY <1>1, <1>2, <1>3 DEF DeleteAgain, MapInv

LEMMA SetDeviceInfoInv ==
    ASSUME MapInv, NEW d \in Device, NEW base \in Bases, SetDeviceInfo(d, base)
    PROVE  MapInv'
  <1> DEFINE old == slot[d].base # 0 /\ slot[d].pointer # "null"
             m   == IF old THEN Release(d) ELSE map
             pointer == IF old THEN "deleted" ELSE slot[d].pointer
  <1>1. d \in Owner /\ base \in Addr /\ PortSize[d] \in Nat
    BY MapAssumption DEF Owner, Addr
  <1>2. slot \in [Owner -> SlotType]
    BY DEF MapInv, TypeOK, SlotType
  <1>3. CASE old /\ slot[d].pointer = "deleted"
    BY <1>3, DeleteAgainInv DEF SetDeviceInfo
  <1>4. CASE ~(old /\ slot[d].pointer = "deleted")
    <2>1. pointer \in {"null", "deleted"}
      BY <1>1, <1>2, <1>4 DEF MapInv, DeletedInv, SlotType
    <2>2. Held(m, Live \ {d})
      <3>1. CASE old
        BY <1>1, <3>1, ReleaseHeld
      <3>2. CASE ~old
        <4>1. Live \ {d} = Live
          BY <1>1, <2>1, <3>2 DEF Live
        <4> QED BY <3>2, <4>1 DEF MapInv
      <3> QED BY <3>1, <3>2
    <2>3. UNCHANGED <<used, undefined>>
      BY <1>4 DEF SetDeviceInfo
    <2>4. CASE base # 0
      <3>1. Occupy(d, m, base, PortSize[d], pointer)
        BY <1>4, <2>4 DEF SetDeviceInfo
      <3> HIDE DEF m, pointer
      <3> QED BY <1>1, <2>1, <2>2, <2>3, <2>4, <3>1, OccupyInv
    <2>5. CASE base = 0
      <3>1. /\ map' = m /\ latest' = None
              /\ slot' = [slot EXCEPT ![d].base = 0, ![d].pointer = pointer]
            /\ refused' = refused \ {d}
        BY <1>4, <2>5 DEF SetDeviceInfo, NewMap
      <3> HIDE DEF m, pointer
      <3> DEFINE based == [slot EXCEPT ![d].base = 0]
      <3>2. /\ based \in [Owner -> SlotType] /\ based[d].base = 0
            /\ \A o \in Owner \ {d} : based[o] = slot[o]
        BY <1>1, <1>2, <2>5 DEF SlotType
      <3>3. slot' = [based EXCEPT ![d].pointer = pointer]
        BY <3>1
      <3> HIDE DEF based
      <3>4. /\ slot' \in [Owner -> SlotType]
            /\ slot'[d].base = 0 /\ slot'[d].pointer = pointer
            /\ \A o \in Owner \ {d} : slot'[o] = slot[o]
        BY <1>1, <2>1, <3>2, <3>3 DEF SlotType
      <3>5. Live' = Live \ {d}
        BY <1>1, <2>1, <3>4 DEF Live
      <3>6. DeletedInv'
        BY <1>1, <2>1, <3>1, <3>4, MapAssumption DEF MapInv, DeletedInv, Owner
      <3>7. None \in RegionType
        BY RamRegion, MapAssumption DEF None
      <3>8. TypeOK'
        BY <2>2, <2>3, <3>1, <3>4, <3>7
        DEF MapInv, TypeOK, Held, MapType, SlotType
      <3> QED BY <2>2, <3>1, <3>5, <3>6, <3>8 DEF MapInv
    <2> QED BY <2>4, <2>5
  <1> QED BY <1>3, <1>4

LEMMA SetModeInv ==
    ASSUME MapInv, NEW address \in Bases, NEW size \in FrameSizes,
           SetMode(address, size)
    PROVE  MapInv'
  <1> DEFINE old == slot[Frame].pointer # "null"
             m   == IF old THEN Release(Frame) ELSE map
             pointer == IF old THEN "deleted" ELSE "null"
  <1>1. /\ Frame \in Owner /\ Frame \notin Device
        /\ address \in Addr /\ size \in Nat
    BY MapAssumption DEF Owner, Addr
  <1>2. CASE slot[Frame].pointer = "deleted"
    BY <1>2, DeleteAgainInv DEF SetMode
  <1>3. CASE slot[Frame].pointer # "deleted"
    <2>1. /\ UNCHANGED <<used, undefined>>
          /\ Occupy(Frame, m, address, size, pointer)
      BY <1>3 DEF SetMode
    <2>2. Held(m, Live \ {Frame})
      <3>1. CASE old
        BY <1>1, <3>1, ReleaseHeld
      <3>2. CASE ~old
        <4>1. Live \ {Frame} = Live
          BY <3>2 DEF Live
        <4> QED BY <3>2, <4>1 DEF MapInv
      <3> QED BY <3>1, <3>2
    <2>3. pointer \in {"null", "deleted"}
      OBVIOUS
    <2> HIDE DEF m, pointer
    <2> QED BY <1>1, <2>1, <2>2, <2>3, OccupyInv
  <1> QED BY <1>2, <1>3

LEMMA StepMapInv == MapInv /\ [Next]_vars => MapInv'
  <1> SUFFICES ASSUME MapInv, [Next]_vars
               PROVE  MapInv'
    OBVIOUS
  <1>1. CASE Next
    BY <1>1, SetRegionInv, SetDeviceInfoInv, SetModeInv DEF Next
  <1>2. CASE UNCHANGED vars
    BY <1>2 DEF vars, MapInv, TypeOK, DeletedInv, Live, Held, MapType
  <1> QED BY <1>1, <1>2

\* The inductive invariant of the address map, for every map and all devices.
THEOREM MapInvariance == Spec => []MapInv
  BY InitMapInv, StepMapInv, PTL DEF Spec

\* The model of m_regions, m_currentUsedRAM and the devices' pointers is typed;
\* in particular SET_REGION never gives away more RAM than m_RAMSize.
THEOREM MapTypeCorrect == Spec => []TypeOK
  BY MapInvariance, PTL DEF MapInv

\* Whatever the guest asks for, m_regions never holds a region that its
\* device has deleted, and never two regions of one device.
THEOREM ListedCorrect == Spec => []ListedAreLive
  <1>1. MapInv => ListedAreLive
    BY DEF MapInv, Held, Live, ListedAreLive, TypeOK
  <1> QED BY <1>1, MapInvariance, PTL

\* SET_DEVICE_INFO and SET_MODE delete a region twice only if the command
\* before them on the same device reported an error.
THEOREM DeletedTwiceCorrect == Spec => DeletedTwiceAfterError
  <1> DEFINE Excused == undefined' /\ ~undefined =>
                          \E o \in refused : slot[o].pointer = "deleted"
  <1>1. MapInv /\ [Next]_vars => [Excused]_vars
    <2> SUFFICES ASSUME MapInv, Next, undefined', ~undefined
                 PROVE  \E o \in refused : slot[o].pointer = "deleted"
      BY DEF vars
    <2>1. CASE \E r \in RAMRegions : SetRegion(r[1], r[2])
      BY <2>1 DEF SetRegion
    <2>2. CASE \E d \in Device, a \in Bases : SetDeviceInfo(d, a)
      BY <2>2 DEF SetDeviceInfo, MapInv, DeletedInv, Owner
    <2>3. CASE \E a \in Bases, n \in FrameSizes : SetMode(a, n)
      BY <2>3 DEF SetMode, MapInv, DeletedInv, Owner
    <2> QED BY <2>1, <2>2, <2>3 DEF Next
  <1> QED BY <1>1, MapInvariance, PTL DEF Spec, DeletedTwiceAfterError

-----------------------------------------------------------------------------
(* The layout of the list: the system control region heads it, because a   *)
(* region is put behind the first that starts higher, and no other starts  *)
(* as high; so the newest region stands behind it.  This holds whatever    *)
(* m_count says, until it says 0 of a list with regions: from then on a    *)
(* region may be anywhere (blind).                                         *)

\* A region behind the control region, and one that may come there.
Fits(r) == r.kind # "sys" /\ \A n \in Sizes : r.end + n <= AddrMod
Placed(r) == Fits(r) /\ r.start < SysStart

Topped(list) ==
    /\ list \in Seq(RegionType)
    /\ Len(list) >= 1 /\ list[1] = Sys
    /\ \A i \in 2..Len(list) : Placed(list[i])

Settled(m) == m \in MapType /\ (~m.blind => Topped(m.list))

\* What RemoveRegionSegment hands out.
Whole(s) == s = None \/ (s.start < s.end /\ Fits(s))

LEMMA SizesPositive ==
    /\ \A n \in Sizes : n \in Nat \ {0}
    /\ \A d \in Device : PortSize[d] \in Sizes
    /\ FrameSizes \subseteq Sizes
  BY MapAssumption DEF Sizes

\* The control region starts above all others, so it is the first that starts
\* above a region that is added below it.
LEMMA FirstLarger ==
    ASSUME NEW list, Topped(list), NEW r \in RegionType
    PROVE  SelectInSeq(list, LAMBDA c : r.start < c.start) =
              IF r.start < SysStart THEN 1 ELSE 0
  <1> DEFINE I == {i \in 1..Len(list) : r.start < list[i].start}
  <1>1. SelectInSeq(list, LAMBDA c : r.start < c.start) = IF I # {} THEN Min(I) ELSE 0
    BY DEF SelectInSeq
  <1>2. Len(list) \in Nat /\ Len(list) >= 1 /\ SysStart \in Nat /\ r.start \in Nat
    BY LenProperties, MapAssumption DEF Topped, RegionType
  <1>3. list[1].start = SysStart
    BY DEF Topped, Sys, Region
  <1>4. \A i \in 1..Len(list) : list[i].start \in Nat /\ list[i].start <= SysStart
    <2>1. TAKE i \in 1..Len(list)
    <2>2. list[i] \in RegionType
      BY DEF Topped
    <2>3. list[i].start \in Nat
      BY <2>2, MapAssumption DEF RegionType
    <2>4. CASE i = 1
      BY <1>2, <1>3, <2>4
    <2>5. CASE i # 1
      <3>1. i \in 2..Len(list)
        BY <1>2, <2>5
      <3> QED BY <1>2, <2>3, <3>1 DEF Topped, Placed
    <2> QED BY <2>3, <2>4, <2>5
  <1>5. CASE r.start < SysStart
    <2>1. 1 \in I /\ I \in SUBSET Nat
      BY <1>2, <1>3, <1>5
    <2>2. Min(I) = 1
      <3>1. \A x, y \in I : (\A z \in I : x =< z) /\ (\A z \in I : y =< z) => x = y
        BY <1>2
      <3>2. \A z \in I : 1 =< z
        BY <1>2
      <3> HIDE DEF I
      <3> QED BY <2>1, <3>1, <3>2 DEF Min
    <2> QED BY <1>1, <1>5, <2>1, <2>2
  <1>6. CASE ~(r.start < SysStart)
    <2>1. I = {}
      BY <1>2, <1>4, <1>6
    <2> QED BY <1>1, <1>6, <2>1
  <1> QED BY <1>5, <1>6

LEMMA InsertedTopped ==
    ASSUME NEW s, Topped(s), NEW list \in Seq(RegionType), NEW r, Placed(r),
           Inserted(list, s, 2, r)
    PROVE  Topped(list) /\ Len(list) >= 2 /\ list[2] = r
  <1>1. Len(s) \in Nat /\ Len(s) >= 1 /\ s[1] = Sys
    BY LenProperties DEF Topped
  <1>2. Len(list) = Len(s) + 1 /\ list[1] = Sys /\ list[2] = r
    <2>1. 1 \in 1..(Len(s) + 1) /\ 2 \in 1..(Len(s) + 1)
      BY <1>1
    <2> QED BY <1>1, <2>1 DEF Inserted
  <1>3. ASSUME NEW i \in 2..Len(list)
        PROVE  Placed(list[i])
    <2>1. CASE i = 2
      BY <1>2, <2>1
    <2>2. CASE i # 2
      <3>1. i - 1 \in 2..Len(s) /\ i \in 1..(Len(s) + 1) /\ ~(i < 2)
        BY <1>1, <1>2, <2>2
      <3>2. list[i] = s[i - 1]
        BY <2>2, <3>1 DEF Inserted
      <3> QED BY <3>1, <3>2 DEF Topped
    <2> QED BY <2>1, <2>2
  <1> QED BY <1>1, <1>2, <1>3 DEF Topped

\* A region that starts below the control region comes right behind it; the
\* others are dropped.
LEMMA AddSettled ==
    ASSUME NEW m, Settled(m), NEW r \in RegionType,
           ~m.blind /\ r.start < SysStart => Fits(r)
    PROVE  /\ Settled(AddMemoryRegion(m, r))
           /\ ~AddMemoryRegion(m, r).blind =>
                 /\ ~m.blind
                 /\ r.start < SysStart => /\ Len(AddMemoryRegion(m, r).list) >= 2
                                          /\ AddMemoryRegion(m, r).list[2] = r
  <1> DEFINE larger == SelectInSeq(m.list, LAMBDA c : r.start < c.start)
             list == InsertAt(m.list, larger + 1, r)
             count == (m.count + 1) % AddrMod
  <1>1. /\ m \in MapType /\ m.list \in Seq(RegionType) /\ m.count \in Addr
        /\ m.blind \in BOOLEAN /\ Len(m.list) \in Nat
    BY LenProperties DEF Settled, MapType
  <1>3. larger \in 0..Len(m.list)
    BY <1>1, InList DEF SelectInSeq
  <1>4. ~m.blind => larger = IF r.start < SysStart THEN 1 ELSE 0
    BY FirstLarger DEF Settled
  <1>5. ~m.blind => m.list # <<>>
    BY DEF Settled, Topped
  <1>6. CASE m.count = 0
    <2>1. AddMemoryRegion(m, r) = [list |-> Append(m.list, r), count |-> 1,
                         blind |-> m.blind \/ m.list # <<>>]
      BY <1>6 DEF AddMemoryRegion, AppendRegion
    <2>2. PICK blind : blind = (m.blind \/ m.list # <<>>)
      OBVIOUS
    <2>3. blind
      BY <1>1, <1>5, <2>2
    <2>4. blind \in BOOLEAN
      BY <1>1, <2>2
    <2>5. 1 \in Addr /\ Append(m.list, r) \in Seq(RegionType)
      BY <1>1, AppendProperties, MapAssumption DEF Addr
    <2>6. AddMemoryRegion(m, r) = [list |-> Append(m.list, r), count |-> 1, blind |-> blind]
      BY <2>1, <2>2
    <2>7. AddMemoryRegion(m, r).blind /\ AddMemoryRegion(m, r) \in MapType
      BY <2>3, <2>4, <2>5, <2>6 DEF MapType
    <2> QED BY <2>7 DEF Settled
  <1>7. CASE m.count # 0 /\ larger = 0
    <2>1. AddMemoryRegion(m, r) = m
      BY <1>7 DEF AddMemoryRegion
    <2> HIDE DEF larger
    <2>2. ~m.blind => ~(r.start < SysStart)
      BY <1>4, <1>7
    <2> QED BY <2>1, <2>2
  <1>8. CASE m.count # 0 /\ larger # 0
    <2>1. AddMemoryRegion(m, r) = [list |-> list, count |-> count, blind |-> m.blind]
      BY <1>8 DEF AddMemoryRegion
    <2> HIDE DEF larger
    <2>2. count \in Addr
      BY <1>1, MapAssumption DEF Addr
    <2>3. larger + 1 \in 1..(Len(m.list) + 1)
      BY <1>1, <1>3, <1>8
    <2>4. list \in Seq(RegionType) /\ Inserted(list, m.list, larger + 1, r)
      BY <1>1, <2>3, InsertAtProperties
    <2>5. ASSUME ~m.blind
          PROVE  Topped(list) /\ (r.start < SysStart => Len(list) >= 2 /\ list[2] = r)
      <3>1. r.start < SysStart /\ larger + 1 = 2
        BY <1>4, <1>8, <2>5
      <3>2. Placed(r) /\ Topped(m.list) /\ Inserted(list, m.list, 2, r)
        BY <2>4, <2>5, <3>1 DEF Placed, Settled
      <3> HIDE DEF list
      <3> QED BY <2>4, <3>2, InsertedTopped
    <2> HIDE DEF list, count
    <2>6. /\ AddMemoryRegion(m, r) \in MapType
          /\ AddMemoryRegion(m, r).list = list /\ AddMemoryRegion(m, r).blind = m.blind
      BY <1>1, <2>1, <2>2, <2>4 DEF MapType
    <2> QED BY <2>5, <2>6 DEF Settled
  <1> QED BY <1>6, <1>7, <1>8

LEMMA CountTyped ==
    ASSUME NEW c \in Addr
    PROVE  (c + AddrMod - 1) % AddrMod \in Addr
  <1>1. PICK n \in Nat : n = AddrMod /\ n > 1
    BY MapAssumption
  <1>2. c \in 0..(n - 1)
    BY <1>1 DEF Addr
  <1>3. (c + n - 1) % n \in 0..(n - 1)
    BY <1>1, <1>2
  <1> QED BY <1>1, <1>3 DEF Addr

\* Whatever is removed, it is not the control region.
LEMMA RemoveSettled ==
    ASSUME NEW m, Settled(m), NEW i \in 0..Len(m.list), ~m.blind => i # 1
    PROVE  /\ Settled(RemoveAtIndex(m, i))
           /\ RemoveAtIndex(m, i).blind = m.blind
           /\ i # 0 => Len(RemoveAtIndex(m, i).list) = Len(m.list) - 1
  <1>1. /\ m \in MapType /\ m.list \in Seq(RegionType) /\ m.count \in Addr
        /\ m.blind \in BOOLEAN /\ Len(m.list) \in Nat
    BY LenProperties DEF Settled, MapType
  <1> DEFINE list == RemoveAt(m.list, i)
             count == (m.count + AddrMod - 1) % AddrMod
  <1>2. count \in Addr
    BY <1>1, CountTyped
  <1>3. RemoveAtIndex(m, i) = [list |-> IF i = 0 THEN m.list ELSE list,
                               count |-> count, blind |-> m.blind]
    BY DEF RemoveAtIndex
  <1> HIDE DEF count
  <1>4. CASE i = 0
    BY <1>1, <1>2, <1>3, <1>4 DEF Settled, MapType
  <1>5. CASE i # 0
    <2>1. list \in Seq(RegionType) /\ Removed(list, m.list, i)
      BY <1>1, <1>5, RemoveAtProperties
    <2> HIDE DEF list
    <2>2. Len(list) = Len(m.list) - 1
      BY <2>1 DEF Removed
    <2>3. ASSUME ~m.blind
          PROVE  Topped(list)
      <3>1. Topped(m.list) /\ i \in 2..Len(m.list)
        BY <1>1, <1>5, <2>3 DEF Settled
      <3>2. list[1] = Sys
        <4>1. 1 \in 1..(Len(m.list) - 1) /\ 1 < i
          BY <1>1, <3>1
        <4> QED BY <2>1, <3>1, <4>1 DEF Removed, Topped
      <3>3. ASSUME NEW k \in 2..Len(list)
            PROVE  Placed(list[k])
        <4>1. k \in 1..(Len(m.list) - 1) /\ (IF k < i THEN k ELSE k + 1) \in 2..Len(m.list)
          BY <1>1, <2>2
        <4>2. list[k] = m.list[IF k < i THEN k ELSE k + 1]
          BY <2>1, <4>1 DEF Removed
        <4> QED BY <3>1, <4>1, <4>2 DEF Topped
      <3>4. Len(list) >= 1
        BY <1>1, <2>2, <3>1
      <3> QED BY <2>1, <3>2, <3>3, <3>4 DEF Topped
    <2>4. /\ RemoveAtIndex(m, i) \in MapType
          /\ RemoveAtIndex(m, i).list = list /\ RemoveAtIndex(m, i).blind = m.blind
      BY <1>1, <1>2, <1>3, <1>5, <2>1 DEF MapType
    <2> QED BY <2>2, <2>3, <2>4 DEF Settled
  <1> QED BY <1>4, <1>5

\* The region of an owner is not the control region.
LEMMA RemoveOwnerSettled ==
    ASSUME NEW m, Settled(m), NEW o \in Owner
    PROVE  Settled(RemoveMemoryRegion(m, o)) /\ RemoveMemoryRegion(m, o).blind = m.blind
  <1> DEFINE spot == SelectInSeq(m.list, LAMBDA r : r.kind = o)
             I == {i \in 1..Len(m.list) : m.list[i].kind = o}
  <1>1. m.list \in Seq(RegionType) /\ Len(m.list) \in Nat
    BY LenProperties DEF Settled, MapType
  <1>2. spot = IF I # {} THEN Min(I) ELSE 0
    BY DEF SelectInSeq
  <1>3. ~m.blind => 1 \notin I
    BY MapAssumption DEF Settled, Topped, Sys, Region, Owner
  <1>4. spot \in 0..Len(m.list) /\ (~m.blind => spot # 1)
    <2>1. I \in SUBSET Nat /\ \A i \in I : i \in 1..Len(m.list)
      OBVIOUS
    <2> HIDE DEF I
    <2>2. I # {} => Min(I) \in I
      BY <2>1, MinOfNat
    <2> HIDE DEF spot
    <2>3. CASE I = {}
      BY <1>1, <1>2, <2>3
    <2>4. CASE I # {}
      <3>1. spot \in I /\ spot \in 1..Len(m.list)
        BY <1>2, <2>1, <2>2, <2>4
      <3> QED BY <1>1, <1>3, <3>1
    <2> QED BY <2>3, <2>4
  <1> HIDE DEF spot
  <1>5. RemoveMemoryRegion(m, o) = RemoveAtIndex(m, spot)
    BY DEF RemoveMemoryRegion, spot
  <1> QED BY <1>4, <1>5, RemoveSettled

\* A region is cut into at most two, whatever lies where; the piece that is cut
\* out does not go around the end of the address space.
LEMMA CutSettled ==
    ASSUME NEW m, Settled(m),
           NEW start \in Addr, NEW size \in Sizes, NEW end, end = (start + size) % AddrMod
    PROVE  /\ Settled(RemoveRegionSegment(m, start, end).map)
           /\ ~RemoveRegionSegment(m, start, end).map.blind =>
                 ~m.blind /\ Whole(RemoveRegionSegment(m, start, end).segment)
  <1> DEFINE I  == {i \in 1..Len(m.list) : Inside(m.list[i], start) /\ m.list[i].start < end}
             spot == SelectInSeq(m.list, LAMBDA c : Inside(c, start) /\ c.start < end)
             r == m.list[spot]
             fails == \/ ~CanSplit(r)
                      \/ /\ r.end < end /\ spot < Len(m.list)
                         /\ m.list[spot + 1].start < end
             gone == RemoveAtIndex(m, spot)
             lower == IF r.start < start
                      THEN AddMemoryRegion(gone, Region(r.start, start, "ram"))
                      ELSE gone
             upper == IF end < r.end
                      THEN AddMemoryRegion(lower, Region(end, r.end, "ram"))
                      ELSE lower
             segment == Region(start, IF end < r.end THEN end ELSE r.end, "ram")
  <1>1. m.list \in Seq(RegionType) /\ Len(m.list) \in Nat
    BY LenProperties DEF Settled, MapType
  <1>2. RemoveRegionSegment(m, start, end) =
          IF spot = 0 THEN [ok |-> TRUE, map |-> m, segment |-> None]
          ELSE IF fails THEN [ok |-> FALSE, map |-> m, segment |-> None]
          ELSE [ok |-> TRUE, map |-> upper, segment |-> segment]
    BY DEF RemoveRegionSegment
  <1>3. spot = 0 \/ spot \in I
    <2>1. spot = IF I # {} THEN Min(I) ELSE 0
      BY DEF SelectInSeq
    <2>2. I \in SUBSET Nat
      OBVIOUS
    <2> HIDE DEF I, spot
    <2> QED BY <2>1, <2>2, MinOfNat
  <1>4. Whole(None)
    BY DEF Whole
  <1>5. CASE spot = 0 \/ fails
    <2> HIDE DEF spot, fails, upper, segment
    <2> QED BY <1>2, <1>4, <1>5
  <1>6. CASE spot # 0 /\ ~fails
    <2>1. spot \in 1..Len(m.list) /\ Inside(r, start) /\ r.start < end /\ CanSplit(r)
      BY <1>3, <1>6
    <2>2. ~m.blind => spot # 1
      BY <2>1 DEF CanSplit, Settled, Topped, Sys, Region
    <2>3. ~m.blind => spot \in 2..Len(m.list)
      BY <1>1, <2>1, <2>2
    <2> HIDE DEF spot
    <2>4. r \in RegionType /\ (~m.blind => Placed(r))
      BY <1>1, <2>1, <2>3 DEF Settled, Topped
    <2>5. /\ r.start \in 0..AddrMod /\ r.end \in 0..AddrMod /\ AddrMod \in Nat
          /\ r.start <= start /\ start < r.end /\ SysStart \in Nat
      BY <2>1, <2>4, MapAssumption DEF RegionType, Inside
    <2>6. ~m.blind => \A n \in Sizes : n \in Nat \ {0} /\ r.end + n <= AddrMod
      BY <2>4, SizesPositive DEF Placed, Fits
    <2>7. start \in 0..AddrMod /\ end \in 0..AddrMod
      <3>1. size \in Nat
        BY SizesPositive
      <3> QED BY <3>1, MapAssumption DEF Addr
    <2>8. ~m.blind => end = start + size
      <3>1. SUFFICES ASSUME ~m.blind
                     PROVE  end = start + size
        OBVIOUS
      <3>2. start + size \in Addr
        BY <2>5, <2>6, <3>1 DEF Addr
      <3> QED BY <3>2, CountModulo
    <2>9. Region(r.start, start, "ram") \in RegionType /\ Region(end, r.end, "ram") \in RegionType
      BY <2>5, <2>7, RamRegion
    <2>10. ~m.blind => /\ Fits(Region(r.start, start, "ram"))
                       /\ Fits(Region(end, r.end, "ram")) /\ Whole(segment)
      <3>1. SUFFICES ASSUME ~m.blind
                     PROVE  /\ Fits(Region(r.start, start, "ram"))
                            /\ Fits(Region(end, r.end, "ram")) /\ Whole(segment)
        OBVIOUS
      <3>2. /\ end = start + size /\ size \in Nat \ {0}
            /\ \A n \in Sizes : n \in Nat \ {0} /\ r.end + n <= AddrMod
        BY <2>6, <2>8, <3>1
      <3> QED BY <2>5, <2>7, <3>2 DEF Whole, Fits, Region
    <2>11. Settled(gone) /\ gone.blind = m.blind
      <3>1. spot \in 0..Len(m.list)
        BY <1>1, <2>1
      <3> QED BY <2>2, <3>1, RemoveSettled
    <2> HIDE DEF gone, r
    <2>12. Settled(lower) /\ (~lower.blind => ~m.blind)
      <3>1. CASE r.start < start
        <4>1. lower = AddMemoryRegion(gone, Region(r.start, start, "ram"))
          BY <3>1
        <4>2. /\ Settled(AddMemoryRegion(gone, Region(r.start, start, "ram")))
              /\ ~AddMemoryRegion(gone, Region(r.start, start, "ram")).blind => ~gone.blind
          BY <2>9, <2>10, <2>11, AddSettled
        <4> QED BY <2>11, <4>1, <4>2
      <3>2. CASE ~(r.start < start)
        BY <2>11, <3>2
      <3> QED BY <3>1, <3>2
    <2> HIDE DEF lower
    <2>13. Settled(upper) /\ (~upper.blind => ~m.blind)
      <3>1. CASE end < r.end
        <4>1. upper = AddMemoryRegion(lower, Region(end, r.end, "ram"))
          BY <3>1
        <4>2. /\ Settled(AddMemoryRegion(lower, Region(end, r.end, "ram")))
              /\ ~AddMemoryRegion(lower, Region(end, r.end, "ram")).blind => ~lower.blind
          BY <2>9, <2>10, <2>12, AddSettled
        <4> QED BY <2>12, <4>1, <4>2
      <3>2. CASE ~(end < r.end)
        BY <2>12, <3>2
      <3> QED BY <3>1, <3>2
    <2> HIDE DEF upper, segment, fails
    <2> QED BY <1>2, <1>6, <2>10, <2>13
  <1> QED BY <1>5, <1>6

\* What goes back is never merged with the control region: nothing that could
\* be the other side of the gap starts above it.
LEMMA ReaddSettled ==
    ASSUME NEW m, Settled(m), NEW s \in RegionType, ~m.blind => Whole(s)
    PROVE  /\ Settled(ReaddRegionSegment(m, s))
           /\ ~ReaddRegionSegment(m, s).blind => ~m.blind
  <1> DEFINE gaps == {i \in 2..Len(m.list) : /\ m.list[i - 1].end <= s.start
                                             /\ s.end <= m.list[i].start}
             spot == Min(gaps)
             before == m.list[spot - 1]
             after == m.list[spot]
             joinsBefore == before.end = s.start
             joinsAfter == after.start = s.end
             m1 == IF joinsAfter THEN RemoveAtIndex(m, spot) ELSE m
             m2 == IF joinsBefore THEN RemoveAtIndex(m1, spot - 1) ELSE m1
             start == IF joinsBefore THEN before.start ELSE s.start
             end == IF joinsAfter THEN after.end ELSE s.end
             joined == Region(start, end, "ram")
  <1>1. m.list \in Seq(RegionType) /\ Len(m.list) \in Nat
    BY LenProperties DEF Settled, MapType
  <1>2. ReaddRegionSegment(m, s) =
          IF s = None \/ gaps = {} THEN m ELSE AddMemoryRegion(m2, joined)
    BY DEF ReaddRegionSegment
  <1>3. gaps # {} => spot \in 2..Len(m.list) /\ before.end <= s.start /\ s.end <= after.start
    <2>1. gaps \in SUBSET Nat
      BY <1>1
    <2>2. gaps # {} => spot \in gaps
      <3> HIDE DEF gaps
      <3> QED BY <2>1, MinOfNat
    <2> QED BY <2>2
  <1> HIDE DEF gaps, spot
  <1>4. CASE s = None \/ gaps = {}
    <2>1. ReaddRegionSegment(m, s) = m
      BY <1>2, <1>4
    <2> QED BY <2>1
  <1>5. CASE ~(s = None \/ gaps = {})
    <2>1. spot \in 2..Len(m.list) /\ spot - 1 \in 1..Len(m.list)
      BY <1>1, <1>3, <1>5
    <2>2. before \in RegionType /\ after \in RegionType
      BY <1>1, <2>1
    <2>3. joined \in RegionType
      <3>1. start \in 0..AddrMod /\ end \in 0..AddrMod
        BY <2>2 DEF RegionType
      <3> HIDE DEF start, end
      <3> QED BY <3>1, RamRegion
    <2>4. ASSUME ~m.blind
          PROVE  spot - 1 # 1 /\ Fits(joined)
      <3>1. Fits(s) /\ s.start < s.end /\ Topped(m.list)
        BY <1>5, <2>4 DEF Whole, Settled
      <3>2. Placed(after) /\ after.start \in Nat /\ after.start < SysStart
        <4>1. Placed(after)
          BY <2>1, <3>1 DEF Topped
        <4>2. after.start \in Nat
          BY <2>2 DEF RegionType
        <4> QED BY <4>1, <4>2 DEF Placed
      <3>3. spot - 1 # 1
        <4>1. ASSUME spot - 1 = 1
              PROVE  FALSE
          <5>1. before = Sys
            BY <3>1, <4>1 DEF Topped
          <5>2. s.start \in Nat /\ s.end \in Nat
            BY DEF RegionType
          <5>3. before.end = SysEnd
            BY <5>1 DEF Sys, Region
          <5>4. SysEnd <= s.start /\ s.start < s.end /\ s.end <= after.start
            BY <1>3, <1>5, <3>1, <5>3
          <5> HIDE DEF before, after
          <5> QED BY <3>2, <5>2, <5>4, MapAssumption
        <4> QED BY <4>1
      <3>4. Fits(joined)
        BY <3>1, <3>2 DEF Fits, Placed, Region
      <3> QED BY <3>3, <3>4
    <2>5. Settled(m1) /\ m1.blind = m.blind /\ spot - 1 \in 0..Len(m1.list)
      <3>1. CASE joinsAfter
        <4>1. spot \in 0..Len(m.list) /\ spot # 1 /\ spot # 0
          BY <1>1, <2>1
        <4>2. Settled(m1) /\ m1.blind = m.blind /\ Len(m1.list) = Len(m.list) - 1
          BY <3>1, <4>1, RemoveSettled
        <4> QED BY <1>1, <2>1, <4>2
      <3>2. CASE ~joinsAfter
        BY <1>1, <2>1, <3>2
      <3> QED BY <3>1, <3>2
    <2> HIDE DEF m1
    <2>6. Settled(m2) /\ m2.blind = m.blind
      BY <2>4, <2>5, RemoveSettled
    <2> HIDE DEF m2, joined
    <2>7. /\ Settled(AddMemoryRegion(m2, joined))
          /\ ~AddMemoryRegion(m2, joined).blind => ~m2.blind
      BY <2>3, <2>4, <2>6, AddSettled
    <2> QED BY <1>2, <1>5, <2>6, <2>7
  <1> QED BY <1>4, <1>5

-----------------------------------------------------------------------------
(* The layout through the commands.                                        *)

NewestSecond ==
    latest # None /\ latest.start < SysStart =>
        Len(map.list) >= 2 /\ map.list[2] = latest

LayoutInv ==
    /\ Settled(map)
    /\ ~map.blind => (\A o \in Owner : Whole(slot[o].segment)) /\ NewestSecond

LEMMA InitLayout == Init => LayoutInv
  <1> SUFFICES ASSUME Init
               PROVE  LayoutInv
    OBVIOUS
  <1> DEFINE m == AddMemoryRegion(EmptyMap, Sys)
  <1>1. Sys \in RegionType /\ BIOS \in RegionType
    BY MapAssumption DEF Sys, BIOS, Region, RegionType, Kind
  <1>2. m = [list |-> <<Sys>>, count |-> 1, blind |-> FALSE]
    <2>1. Append(<<>>, Sys) = <<Sys>> /\ (FALSE \/ <<>> # <<>>) = FALSE
      OBVIOUS
    <2>2. m = [list |-> Append(<<>>, Sys), count |-> 1, blind |-> FALSE \/ <<>> # <<>>]
      BY DEF AddMemoryRegion, AppendRegion, EmptyMap
    <2> QED BY <2>1, <2>2
  <1> HIDE DEF m
  <1>3. 1 \in Addr
    BY MapAssumption DEF Addr
  <1>4. Settled(m)
    BY <1>1, <1>2, <1>3 DEF Settled, Topped, MapType
  <1>5. Fits(BIOS)
    <2>1. SysStart \in Ends
      BY DEF Ends
    <2> QED BY <2>1, MapAssumption, SpaceAssumption DEF Fits, BIOS, Region
  <1>6. map = AddMemoryRegion(m, BIOS) /\ latest = None
    BY DEF Init, m
  <1>7. Settled(map)
    BY <1>1, <1>4, <1>5, <1>6, AddSettled
  <1>8. \A o \in Owner : Whole(slot[o].segment)
    BY DEF Init, Whole
  <1> QED BY <1>6, <1>7, <1>8 DEF LayoutInv, NewestSecond

LEMMA SetRegionLayout ==
    ASSUME MapInv, LayoutInv, NEW r \in RAMRegions, SetRegion(r[1], r[2])
    PROVE  LayoutInv'
  <1> DEFINE new == Region(r[1], r[1] + r[2], "ram")
  <1>1. slot' = slot
    BY DEF SetRegion, NewMap
  <1>2. CASE map' = map /\ latest' = None
    BY <1>1, <1>2 DEF LayoutInv, NewestSecond
  <1>3. CASE map' = AddMemoryRegion(map, new) /\ latest' = new
    <2>1. r[1] \in Nat /\ r[2] \in Nat /\ r[1] + r[2] < AddrMod /\ AddrMod \in Nat
      BY MapAssumption
    <2>2. new \in RegionType
      BY <2>1, RamRegion
    <2>3. new.start < SysStart => Fits(new)
      <3>1. SUFFICES ASSUME r[1] < SysStart
                     PROVE  Fits(new)
        BY DEF Region
      <3>2. r[1] + r[2] \in Ends
        BY <3>1 DEF Ends
      <3> QED BY <3>2, SpaceAssumption DEF Fits, Region
    <2> HIDE DEF new
    <2>4. /\ Settled(map')
          /\ ~map'.blind => /\ ~map.blind
                            /\ new.start < SysStart => Len(map'.list) >= 2 /\ map'.list[2] = new
      BY <1>3, <2>2, <2>3, AddSettled DEF LayoutInv
    <2> QED BY <1>1, <1>3, <2>4 DEF LayoutInv, NewestSecond
  <1> QED BY <1>2, <1>3 DEF SetRegion, NewMap

LEMMA OccupyLayout ==
    ASSUME MapInv, LayoutInv, NEW o \in Owner, NEW m, Settled(m), ~m.blind => ~map.blind,
           NEW base \in Bases, NEW size \in Sizes, NEW pointer,
           Occupy(o, m, base, size, pointer)
    PROVE  LayoutInv'
  <1> DEFINE end == (base + size) % AddrMod
             cut == RemoveRegionSegment(m, base, end)
             new == Region(base, end, o)
  <1>1. slot \in [Owner -> SlotType]
    BY DEF MapInv, TypeOK, SlotType
  <1>2. base \in Addr /\ base \in Nat /\ size \in Nat /\ size > 0 /\ end \in Addr
    BY MapAssumption, SizesPositive DEF Addr
  <1>3. new \in RegionType
    BY <1>2, MapAssumption DEF Region, RegionType, Kind, Addr, Owner
  <1>4. CASE cut.ok
    <2>1. /\ map' = AddMemoryRegion(cut.map, new) /\ latest' = new
          /\ slot' = [slot EXCEPT ![o] = [base |-> base, pointer |-> "live",
                                          segment |-> cut.segment]]
      BY <1>4 DEF Occupy, NewMap
    <2>2. Settled(cut.map) /\ (~cut.map.blind => ~m.blind /\ Whole(cut.segment))
      <3> HIDE DEF end
      <3>1. end = (base + size) % AddrMod
        BY DEF end
      <3> QED BY <1>2, <3>1, CutSettled
    <2>3. new.start < SysStart => Fits(new)
      <3>1. SUFFICES ASSUME base < SysStart
                     PROVE  Fits(new)
        BY DEF Region
      <3>2. base + size \in Ends
        BY <3>1 DEF Ends
      <3>3. \A n \in Sizes : base + size + n <= AddrMod
        BY <3>2, SpaceAssumption
      <3>4. base + size \in Addr
        BY <1>2, <3>3, SizesPositive, MapAssumption DEF Addr
      <3>5. end = base + size
        BY <3>4, CountModulo
      <3>6. new.kind # "sys"
        BY MapAssumption DEF Region, Owner
      <3> QED BY <3>3, <3>5, <3>6 DEF Fits, Region
    <2> HIDE DEF cut, new
    <2>4. /\ Settled(map')
          /\ ~map'.blind => /\ ~cut.map.blind
                            /\ new.start < SysStart => Len(map'.list) >= 2 /\ map'.list[2] = new
      BY <1>3, <2>1, <2>2, <2>3, AddSettled
    <2>5. ASSUME ~map'.blind
          PROVE  (\A d \in Owner : Whole(slot'[d].segment)) /\ NewestSecond'
      <3>1. Whole(cut.segment) /\ \A d \in Owner : Whole(slot[d].segment)
        BY <2>2, <2>4, <2>5 DEF LayoutInv
      <3>2. \A d \in Owner : Whole(slot'[d].segment)
        BY <1>1, <2>1, <3>1 DEF SlotType
      <3> QED BY <2>1, <2>4, <2>5, <3>2 DEF NewestSecond
    <2> QED BY <2>4, <2>5 DEF LayoutInv
  <1>5. CASE ~cut.ok
    <2>1. /\ map' = m /\ latest' = None
          /\ slot' = [slot EXCEPT ![o].base = base, ![o].pointer = pointer]
      BY <1>5 DEF Occupy, NewMap
    <2>2. \A d \in Owner : slot'[d].segment = slot[d].segment
      BY <1>1, <2>1 DEF SlotType
    <2> QED BY <2>1, <2>2 DEF LayoutInv, NewestSecond
  <1> QED BY <1>4, <1>5

LEMMA ReleaseSettled ==
    ASSUME MapInv, LayoutInv, NEW o \in Owner
    PROVE  Settled(Release(o)) /\ (~Release(o).blind => ~map.blind)
  <1>1. slot[o].segment \in RegionType /\ (~map.blind => Whole(slot[o].segment))
    BY DEF MapInv, TypeOK, LayoutInv
  <1>2. /\ Settled(RemoveMemoryRegion(map, o))
        /\ RemoveMemoryRegion(map, o).blind = map.blind
    BY RemoveOwnerSettled DEF LayoutInv
  <1> QED BY <1>1, <1>2, ReaddSettled DEF Release

LEMMA SetDeviceInfoLayout ==
    ASSUME MapInv, LayoutInv, NEW d \in Device, NEW base \in Bases,
           SetDeviceInfo(d, base)
    PROVE  LayoutInv'
  <1> DEFINE old == slot[d].base # 0 /\ slot[d].pointer # "null"
             m   == IF old THEN Release(d) ELSE map
             pointer == IF old THEN "deleted" ELSE slot[d].pointer
  <1>1. d \in Owner /\ PortSize[d] \in Sizes
    BY SizesPositive DEF Owner
  <1>2. CASE old /\ slot[d].pointer = "deleted"
    <2>1. DeleteAgain
      BY <1>2 DEF SetDeviceInfo
    <2> QED BY <2>1 DEF DeleteAgain, LayoutInv, NewestSecond
  <1>3. CASE ~(old /\ slot[d].pointer = "deleted")
    <2>1. Settled(m) /\ (~m.blind => ~map.blind)
      BY <1>1, ReleaseSettled DEF LayoutInv
    <2>2. CASE base # 0
      <3>1. Occupy(d, m, base, PortSize[d], pointer)
        BY <1>3, <2>2 DEF SetDeviceInfo
      <3> HIDE DEF m, pointer
      <3> QED BY <1>1, <2>1, <3>1, OccupyLayout
    <2>3. CASE base = 0
      <3>1. /\ NewMap(m, None)
            /\ slot' = [slot EXCEPT ![d].base = 0, ![d].pointer = pointer]
        BY <1>3, <2>3 DEF SetDeviceInfo
      <3> HIDE DEF m, pointer
      <3>2. map' = m /\ latest' = None
        BY <3>1 DEF NewMap
      <3>3. slot \in [Owner -> SlotType]
        BY DEF MapInv, TypeOK, SlotType
      <3>4. \A o \in Owner : slot'[o].segment = slot[o].segment
        BY <3>1, <3>3 DEF SlotType
      <3> QED BY <2>1, <3>2, <3>4 DEF LayoutInv, NewestSecond
    <2> QED BY <2>2, <2>3
  <1> QED BY <1>2, <1>3

LEMMA SetModeLayout ==
    ASSUME MapInv, LayoutInv, NEW address \in Bases, NEW size \in FrameSizes,
           SetMode(address, size)
    PROVE  LayoutInv'
  <1> DEFINE old == slot[Frame].pointer # "null"
             m   == IF old THEN Release(Frame) ELSE map
             pointer == IF old THEN "deleted" ELSE "null"
  <1>1. Frame \in Owner /\ size \in Sizes
    BY SizesPositive DEF Owner
  <1>2. CASE slot[Frame].pointer = "deleted"
    <2>1. DeleteAgain
      BY <1>2 DEF SetMode
    <2> QED BY <2>1 DEF DeleteAgain, LayoutInv, NewestSecond
  <1>3. CASE slot[Frame].pointer # "deleted"
    <2>1. Settled(m) /\ (~m.blind => ~map.blind)
      BY <1>1, ReleaseSettled DEF LayoutInv
    <2>2. Occupy(Frame, m, address, size, pointer)
      BY <1>3 DEF SetMode
    <2> HIDE DEF m, pointer
    <2> QED BY <1>1, <2>1, <2>2, OccupyLayout
  <1> QED BY <1>2, <1>3

LEMMA StepLayout == MapInv /\ LayoutInv /\ [Next]_vars => LayoutInv'
  <1> SUFFICES ASSUME MapInv, LayoutInv, [Next]_vars
               PROVE  LayoutInv'
    OBVIOUS
  <1>1. CASE Next
    BY <1>1, SetRegionLayout, SetDeviceInfoLayout, SetModeLayout DEF Next
  <1>2. CASE UNCHANGED vars
    BY <1>2 DEF vars, LayoutInv, NewestSecond
  <1> QED BY <1>1, <1>2

\* The layout of the list of regions, for every map and all devices.
THEOREM LayoutInvariance == Spec => []LayoutInv
  <1>1. Init => MapInv /\ LayoutInv
    BY InitMapInv, InitLayout
  <1>2. MapInv /\ LayoutInv /\ [Next]_vars => (MapInv /\ LayoutInv)'
    BY StepMapInv, StepLayout
  <1> QED BY <1>1, <1>2, PTL DEF Spec

\* The first region that contains an address, if the one before does not.
LEMMA ServedBy ==
    ASSUME NEW list \in Seq(RegionType), NEW a, NEW i \in 1..Len(list), Inside(list[i], a),
           \A j \in 1..(i - 1) : ~Inside(list[j], a)
    PROVE  Serving(list, a) = i
  <1> DEFINE I == {j \in 1..Len(list) : Inside(list[j], a)}
  <1>1. Serving(list, a) = IF I # {} THEN Min(I) ELSE 0
    BY DEF Serving, SelectInSeq
  <1>2. Len(list) \in Nat
    BY LenProperties
  <1>3. i \in I /\ I \in SUBSET Nat /\ \A j \in I : i =< j
    <2>1. ASSUME NEW j \in I
          PROVE  i =< j
      <3>1. j \in 1..Len(list) /\ j \notin 1..(i - 1)
        OBVIOUS
      <3> QED BY <1>2, <3>1
    <2> QED BY <1>2, <2>1
  <1> HIDE DEF I
  <1>4. Min(I) \in I /\ \A x \in I : Min(I) =< x
    <2>1. \E x \in I : \A y \in I : x =< y
      BY <1>3
    <2> QED BY <2>1 DEF Min
  <1>5. Min(I) = i
    <2>1. Min(I) \in Nat /\ i \in Nat /\ Min(I) =< i /\ i =< Min(I)
      BY <1>3, <1>4
    <2> QED BY <2>1
  <1>6. I # {}
    BY <1>3
  <1> QED BY <1>1, <1>5, <1>6

\* Whatever the guest maps, the system control region serves its addresses: no
\* command of the memory control system, of the I/O bus or of the video device
\* hides it, cuts it or merges it with a segment that returns, as long as no region
\* was appended to a list whose m_count had fallen to 0.
THEOREM ControlCorrect == Spec => []ControlServes
  <1>1. LayoutInv => ControlServes
    <2> SUFFICES ASSUME LayoutInv, ~map.blind, NEW a \in SysStart..(SysEnd - 1)
                 PROVE  Serving(map.list, a) # 0 /\ map.list[Serving(map.list, a)] = Sys
      BY DEF ControlServes
    <2>1. map.list \in Seq(RegionType) /\ 1 \in 1..Len(map.list) /\ map.list[1] = Sys
      BY LenProperties DEF LayoutInv, Settled, Topped
    <2>2. Inside(map.list[1], a)
      <3>1. SysStart <= a /\ a < SysEnd
        BY MapAssumption
      <3> QED BY <2>1, <3>1 DEF Inside, Sys, Region
    <2>3. Serving(map.list, a) = 1
      BY <2>1, <2>2, ServedBy
    <2> QED BY <2>1, <2>3
  <1> QED BY <1>1, LayoutInvariance, PTL

\* A region that SET_REGION, SET_DEVICE_INFO or SET_MODE has just added is the
\* one that serves its addresses, over whatever else they were given to and however
\* wrong m_count is, as long as no region was appended to a list whose m_count had
\* fallen to 0; AddMemoryRegion then puts it behind the older ones.
THEOREM NewestCorrect == Spec => []NewestServes
  <1>1. MapInv /\ LayoutInv => NewestServes
    <2> SUFFICES ASSUME MapInv, LayoutInv, ~map.blind,
                        NEW a \in latest.start..(latest.end - 1), a < SysStart
                 PROVE  /\ Serving(map.list, a) # 0
                        /\ map.list[Serving(map.list, a)] = latest
      BY DEF NewestServes, AcceptedServes
    <2>1. latest.start \in Nat /\ latest.end \in Nat /\ a \in Nat
          /\ latest.start <= a /\ a < latest.end /\ SysStart \in Nat
      BY MapAssumption DEF MapInv, TypeOK, RegionType
    <2>2. latest # None /\ latest.start < SysStart
      BY <2>1 DEF None, Region
    <2>3. map.list \in Seq(RegionType) /\ 2 \in 1..Len(map.list)
          /\ map.list[1] = Sys /\ map.list[2] = latest
      BY <2>2, LenProperties DEF LayoutInv, Settled, Topped, NewestSecond
    <2>4. Inside(map.list[2], a) /\ ~Inside(map.list[1], a)
      BY <2>1, <2>3, MapAssumption DEF Inside, Sys, Region
    <2>5. Serving(map.list, a) = 2
      <3>1. \A j \in 1..(2 - 1) : j = 1
        OBVIOUS
      <3> QED BY <2>3, <2>4, <3>1, ServedBy
    <2> QED BY <2>3, <2>5
  <1> QED BY <1>1, MapInvariance, LayoutInvariance, PTL
-----------------------------------------------------------------------------
(* The way of an access through the list.                                  *)

Here(list, a, hits) == {i \in (hits + 1)..Len(list) : Inside(list[i], a)}
Room(list, a, hits) == list[Min(Here(list, a, hits))].end - a

\* The function that ValidateRead defines recursively solves F = Walk(list, F).
Walk(list, F) ==
    [spot \in Nat \X Nat \X Nat |->
        LET room == Room(list, spot[1], spot[3])
        IN  /\ Here(list, spot[1], spot[3]) # {}
            /\ spot[2] <= room \/ F[<<spot[1] + room, spot[2] - room, spot[3] + 1>>]]

\* The region found holds all bytes up to the place where the way goes on.
LEMMA RoomProperties ==
    ASSUME NEW list \in Seq(RegionType), NEW a \in Nat, NEW hits \in Nat,
           Here(list, a, hits) # {}
    PROVE  /\ Room(list, a, hits) \in Nat \ {0}
           /\ \E i \in 1..Len(list) :
                 \A k \in 0..(Room(list, a, hits) - 1) : Inside(list[i], a + k)
  <1> DEFINE i == Min(Here(list, a, hits))
  <1>1. Len(list) \in Nat
    BY LenProperties
  <1>2. Here(list, a, hits) \in SUBSET Nat
    BY <1>1 DEF Here
  <1>3. i \in Here(list, a, hits)
    BY <1>2, MinOfNat
  <1>4. i \in 1..Len(list) /\ Inside(list[i], a)
    BY <1>1, <1>3 DEF Here
  <1>5. list[i] \in RegionType
    BY <1>4, ElementOfSeq
  <1>7. Room(list, a, hits) = list[i].end - a
    BY DEF Room
  <1> HIDE DEF i
  <1>6. list[i].start \in Nat /\ list[i].end \in Nat
        /\ list[i].start <= a /\ a < list[i].end
    <2>1. PICK region \in RegionType : region = list[i]
      BY <1>5
    <2>2. region.start \in Nat /\ region.end \in Nat
      BY MapAssumption DEF RegionType
    <2>3. region.start <= a /\ a < region.end
      BY <1>4, <2>1 DEF Inside
    <2> QED BY <2>1, <2>2, <2>3
  <1>8. Room(list, a, hits) \in Nat \ {0}
    BY <1>6, <1>7
  <1>9. ASSUME NEW k \in 0..(Room(list, a, hits) - 1)
        PROVE  Inside(list[i], a + k)
    BY <1>6, <1>7 DEF Inside
  <1> QED BY <1>4, <1>8, <1>9

\* There is such a function: it is true of the places from which a set of
\* places leads on until nothing is left.
LEMMA WalkExists ==
    ASSUME NEW list \in Seq(RegionType)
    PROVE  \E F : F = Walk(list, F)
  <1> DEFINE D == Nat \X Nat \X Nat
             further(y) == <<y[1] + Room(list, y[1], y[3]),
                             y[2] - Room(list, y[1], y[3]), y[3] + 1>>
             Leads(S) == \A y \in S :
                /\ Here(list, y[1], y[3]) # {}
                /\ y[2] <= Room(list, y[1], y[3]) \/ further(y) \in S
             Reached(y) == \E S \in SUBSET D : y \in S /\ Leads(S)
             F == [spot \in D |-> Reached(spot)]
  <1>1. ASSUME NEW a \in Nat, NEW left \in Nat, NEW hits \in Nat
        PROVE  Reached(<<a, left, hits>>) =
                 (/\ Here(list, a, hits) # {}
                  /\ \/ left <= Room(list, a, hits)
                     \/ F[<<a + Room(list, a, hits), left - Room(list, a, hits), hits + 1>>])
    <2> DEFINE y == <<a, left, hits>>
               z == <<a + Room(list, a, hits), left - Room(list, a, hits), hits + 1>>
    <2>1. y \in D /\ y[1] = a /\ y[2] = left /\ y[3] = hits /\ further(y) = z
      OBVIOUS
    <2>2. ASSUME Here(list, a, hits) # {}, ~(left <= Room(list, a, hits))
          PROVE  z \in D /\ F[z] = Reached(z)
      <3>1. Room(list, a, hits) \in Nat
        BY <2>2, RoomProperties
      <3>2. /\ a + Room(list, a, hits) \in Nat
            /\ left - Room(list, a, hits) \in Nat
            /\ hits + 1 \in Nat
        BY <2>2, <3>1
      <3> HIDE DEF Leads
      <3> QED BY <3>2
    <2> HIDE DEF F, further, y, z, D
    <2>3. ASSUME Reached(y)
          PROVE  /\ Here(list, a, hits) # {}
                 /\ left <= Room(list, a, hits) \/ F[z]
      <3>1. PICK S \in SUBSET D : y \in S /\ Leads(S)
        BY <2>3
      <3>2. /\ Here(list, a, hits) # {}
            /\ left <= Room(list, a, hits) \/ z \in S
        BY <2>1, <3>1
      <3> QED BY <2>2, <3>1, <3>2
    <2>4. ASSUME Here(list, a, hits) # {},
                 left <= Room(list, a, hits) \/ F[z]
          PROVE  Reached(y)
      <3>1. CASE left <= Room(list, a, hits)
        <4>1. {y} \in SUBSET D /\ y \in {y} /\ Leads({y})
          BY <2>1, <2>4, <3>1
        <4> QED BY <4>1
      <3>2. CASE ~(left <= Room(list, a, hits))
        <4>1. z \in D /\ Reached(z)
          BY <2>2, <2>4, <3>2
        <4>2. PICK S \in SUBSET D : z \in S /\ Leads(S)
          BY <4>1
        <4>3. S \cup {y} \in SUBSET D /\ y \in S \cup {y} /\ Leads(S \cup {y})
          BY <2>1, <2>4, <4>2
        <4> QED BY <4>3
      <3> QED BY <3>1, <3>2
    <2>5. Reached(y) \in BOOLEAN
      OBVIOUS
    <2> HIDE DEF Reached
    <2>6. F[z] = F[<<a + Room(list, a, hits), left - Room(list, a, hits), hits + 1>>]
      BY DEF z
    <2> QED BY <2>3, <2>4, <2>5, <2>6 DEF y
  <1> HIDE DEF Reached
  <1> DEFINE leads(spot) ==
               LET room == Room(list, spot[1], spot[3])
               IN  /\ Here(list, spot[1], spot[3]) # {}
                   /\ spot[2] <= room \/ F[<<spot[1] + room, spot[2] - room, spot[3] + 1>>]
  <1>2. ASSUME NEW spot \in D
        PROVE  Reached(spot) = leads(spot)
    <2>1. spot[1] \in Nat /\ spot[2] \in Nat /\ spot[3] \in Nat /\ spot = <<spot[1], spot[2], spot[3]>>
      OBVIOUS
    <2> HIDE DEF F
    <2>2. Reached(<<spot[1], spot[2], spot[3]>>) = leads(spot)
      BY <1>1, <2>1
    <2> QED BY <2>1, <2>2
  <1>3. Walk(list, F) = [spot \in D |-> leads(spot)]
    BY Zenon DEF Walk
  <1> HIDE DEF leads
  <1>4. F = Walk(list, F)
    BY <1>2, <1>3
  <1> QED BY <1>4

\* It is the one that decides in ValidateRead.
LEMMA ValidateReadWalks ==
    ASSUME NEW list, NEW a, NEW n, \E F : F = Walk(list, F)
    PROVE  \E F : F = Walk(list, F) /\ ValidateRead(list, a, n) = F[<<a, n, 0>>]
  <1> DEFINE Step[spot \in Nat \X Nat \X Nat] ==
          LET here == {i \in (spot[3] + 1)..Len(list) : Inside(list[i], spot[1])}
              room == list[Min(here)].end - spot[1]
          IN  here # {} /\ (spot[2] <= room \/ Step[<<spot[1] + room, spot[2] - room, spot[3] + 1>>])
  <1>1. ValidateRead(list, a, n) = Step[<<a, n, 0>>]
    BY DEF ValidateRead
  <1>2. Step = CHOOSE F : F = Walk(list, F)
    BY DEF Walk, Here, Room
  <1> HIDE DEF Step
  <1>3. Step = Walk(list, Step)
    BY <1>2
  <1> QED BY <1>1, <1>3

\* So what is validated is mapped: by the room of the regions on the way, for
\* the shortest way that were not.
LEMMA WalkMapped ==
    ASSUME NEW list \in Seq(RegionType), NEW F, F = Walk(list, F)
    PROVE  \A left, a, hits \in Nat : F[<<a, left, hits>>] =>
              \A k \in 0..(left - 1) : \E i \in 1..Len(list) : Inside(list[i], a + k)
  <1> DEFINE Reaches(a, left) ==
               \A k \in 0..(left - 1) : \E i \in 1..Len(list) : Inside(list[i], a + k)
             Bad == {n \in Nat : \E a, hits \in Nat : F[<<a, n, hits>>] /\ ~Reaches(a, n)}
  <1>1. ASSUME NEW left \in Nat, NEW a \in Nat, NEW hits \in Nat, F[<<a, left, hits>>],
               \A n \in Nat : n < left => n \notin Bad
        PROVE  Reaches(a, left)
    <2> DEFINE room == Room(list, a, hits)
    <2>1. Here(list, a, hits) # {}
          /\ (left <= room \/ F[<<a + room, left - room, hits + 1>>])
      <3>1. F[<<a, left, hits>>] = Walk(list, F)[<<a, left, hits>>]
        BY Zenon
      <3> QED BY <1>1, <3>1 DEF Walk
    <2>2. room \in Nat \ {0}
          /\ \E i \in 1..Len(list) : \A k \in 0..(room - 1) : Inside(list[i], a + k)
      BY <2>1, RoomProperties
    <2> HIDE DEF room
    <2>3. ASSUME ~(left <= room)
          PROVE  Reaches(a + room, left - room)
      <3>1. left - room \in Nat /\ left - room < left /\ a + room \in Nat /\ hits + 1 \in Nat
        BY <2>2, <2>3
      <3>2. left - room \notin Bad
        BY <1>1, <3>1
      <3> QED BY <2>1, <2>3, <3>1, <3>2
    <2> SUFFICES ASSUME NEW k \in 0..(left - 1)
                 PROVE  \E i \in 1..Len(list) : Inside(list[i], a + k)
      OBVIOUS
    <2>4. CASE k < room
      <3>1. k \in 0..(room - 1)
        BY <2>2, <2>4
      <3> QED BY <2>2, <3>1
    <2>5. CASE ~(k < room)
      <3>1. ~(left <= room) /\ k - room \in 0..((left - room) - 1)
            /\ (a + room) + (k - room) = a + k
        BY <2>2, <2>5
      <3> QED BY <2>3, <3>1
    <2> QED BY <2>4, <2>5
  <1> HIDE DEF Reaches
  <1>2. Bad = {}
    <2> SUFFICES ASSUME Bad # {}
                 PROVE  FALSE
      OBVIOUS
    <2>1. Bad \in SUBSET Nat
      OBVIOUS
    <2>2. PICK n \in Bad : \A y \in Bad : n <= y
      <3> HIDE DEF Bad
      <3> QED BY <2>1, MinOfNat
    <2>3. PICK a \in Nat, hits \in Nat : F[<<a, n, hits>>] /\ ~Reaches(a, n)
      BY <2>2
    <2>4. n \in Nat /\ \A m \in Nat : m < n => m \notin Bad
      <3> HIDE DEF Bad
      <3> QED BY <2>1, <2>2
    <2> QED BY <1>1, <2>3, <2>4
  <1>3. ASSUME NEW left \in Nat, NEW a \in Nat, NEW hits \in Nat, F[<<a, left, hits>>]
        PROVE  Reaches(a, left)
    BY <1>2, <1>3
  <1> QED BY <1>3 DEF Reaches

LEMMA ServingSome ==
    ASSUME NEW list \in Seq(RegionType), NEW a,
           \E i \in 1..Len(list) : Inside(list[i], a)
    PROVE  Serving(list, a) # 0
  <1> DEFINE I == {j \in 1..Len(list) : Inside(list[j], a)}
  <1>1. Serving(list, a) = IF I # {} THEN Min(I) ELSE 0
    BY DEF Serving, SelectInSeq
  <1>2. I # {} /\ I \in SUBSET Nat /\ 0 \notin I
    BY LenProperties
  <1> HIDE DEF I
  <1> QED BY <1>1, <1>2, MinOfNat

\* An access that was validated never meets an unmapped byte on its way,
\* whatever the list of regions, and whatever the place and length of it.
THEOREM ValidatedCorrect == Spec => []ValidatedIsMapped
  <1>1. MapInv => ValidatedIsMapped
    <2> SUFFICES ASSUME MapInv, NEW a \in Addr, NEW n \in 1..4,
                        ValidateRead(map.list, a, n), NEW k \in 0..(n - 1)
                 PROVE  Serving(map.list, a + k) # 0
      BY DEF ValidatedIsMapped
    <2>1. map.list \in Seq(RegionType) /\ a \in Nat /\ n \in Nat
      BY MapAssumption DEF MapInv, TypeOK, Addr
    <2>2. \E F : F = Walk(map.list, F) /\ ValidateRead(map.list, a, n) = F[<<a, n, 0>>]
      BY <2>1, WalkExists, ValidateReadWalks
    <2>3. \E i \in 1..Len(map.list) : Inside(map.list[i], a + k)
      BY <2>1, <2>2, WalkMapped
    <2> QED BY <2>1, <2>3, ServingSome
  <1> QED BY <1>1, MapInvariance, PTL

-----------------------------------------------------------------------------
(* VirtualMemory                                                           *)

\* The entry in hand has passed the tests of the level it was read at, and a
\* walk never leaves the levels there are.
WalkInv ==
    /\ mmu.levels \in 3..5
    /\ level \in Nat
    /\ pc = "walk" => /\ level < mmu.levels
                      /\ level > 0 => Allows(table, job.mode)

RootInv == mmu \in [root : Nat, shift : {0, 2, 4}, levels : 3..5] /\ RootInUse

-----------------------------------------------------------------------------
LEMMA InitWalk ==
    ASSUME WalkInit
    PROVE  WalkInv /\ RootInv /\ cr3 \in Nat
  BY DEF WalkInit, WalkInv, RootInv, RootInUse

\* The control registers: a write that switches paging takes CR3 over, and so
\* does one under paging.
LEMMA RootStep ==
    ASSUME RootInv, cr3 \in Nat, [WalkNext]_walkVars
    PROVE  RootInv' /\ cr3' \in Nat
<1>1. ASSUME NEW c \in Control, WriteCR0(c)
      PROVE  RootInv' /\ cr3' \in Nat
  <2>1. c.shift \in {0, 2, 4} /\ c.levels \in 3..5 /\ c.paging \in BOOLEAN
    BY VirtualAssumption
  <2> QED  BY <1>1, <2>1 DEF WriteCR0, RootInv, RootInUse
<1>2. ASSUME NEW r \in Root, WriteCR3(r)
      PROVE  RootInv' /\ cr3' \in Nat
  <2>1. r \in Nat
    BY VirtualAssumption
  <2> QED  BY <1>2, <2>1 DEF WriteCR3, RootInv, RootInUse
<1>3. CASE UNCHANGED regs
  BY <1>3 DEF regs, RootInv, RootInUse
<1>4. ChangeUser \/ (\E u \in DOMAIN memory : Rewrite(u)) => UNCHANGED regs
  BY DEF ChangeUser, Rewrite
<1>5. (\E a \in Address, n \in Length, m \in Mode : Load(a, n, m) \/ Access(a, n, m))
      => UNCHANGED regs
  BY DEF Load, Access
<1>6. TranslateAddress => UNCHANGED regs
  BY DEF TranslateAddress, LargePage, Unmapped, Deny, Descend, LastLevel, Reads,
         Fetch, Walks
<1>7. UNCHANGED walkVars => UNCHANGED regs
  BY DEF walkVars
<1> QED
  BY <1>1, <1>2, <1>3, <1>4, <1>5, <1>6, <1>7 DEF WalkNext, Guest

\* The walk: nothing that Allows depends on changes while it lasts.
LEMMA WalkStep ==
    ASSUME WalkInv, RootInv, RootInv', [WalkNext]_walkVars
    PROVE  WalkInv'
<1>0. mmu'.levels \in 3..5
  BY DEF RootInv
<1>1. ASSUME pc' = "idle", level' = level
      PROVE  WalkInv'
  BY <1>0, <1>1 DEF WalkInv
<1>2. ASSUME level' = 0
      PROVE  WalkInv'
  BY <1>0, <1>2 DEF WalkInv
<1>3. CASE Guest
  <2>1. ASSUME NEW c \in Control, WriteCR0(c)
        PROVE  WalkInv'
    BY <1>1, <2>1 DEF WriteCR0, Operates, Unchecked, walk
  <2>2. ASSUME NEW r \in Root, WriteCR3(r)
        PROVE  WalkInv'
    BY <1>1, <2>2 DEF WriteCR3, Operates, Unchecked, walk
  <2>3. CASE ChangeUser
    BY <1>1, <2>3 DEF ChangeUser, Operates, Unchecked, walk
  <2>4. ASSUME NEW u \in DOMAIN memory, Rewrite(u)
        PROVE  WalkInv'
    BY <1>1, <2>4 DEF Rewrite, Operates, Unchecked, walk
  <2>5. ASSUME NEW a \in Address, NEW n \in Length, NEW m \in Mode,
               Load(a, n, m) \/ Access(a, n, m)
        PROVE  WalkInv'
    <3>1. level' = 0
      BY <2>5 DEF Load, Access, Translate
    <3> QED  BY <3>1, <1>2
  <2> QED  BY <1>3, <2>1, <2>2, <2>3, <2>4, <2>5 DEF Guest
<1>4. ASSUME NEW p, Return(p)
      PROVE  WalkInv'
  BY <1>1, <1>2, <1>4 DEF Return, End, Translate
<1>5. CASE LargePage
  BY <1>4, <1>5 DEF LargePage
<1>6. CASE Unmapped
  BY <1>1, <1>6 DEF Unmapped, End
<1>7. CASE Deny
  BY <1>1, <1>7 DEF Deny, End
<1>8. CASE LastLevel
  BY <1>4, <1>8 DEF LastLevel
<1>9. CASE Descend
  <2>1. UNCHANGED <<regs, user, job, pc>> /\ Allows(table', job.mode)
    BY <1>9 DEF Descend, Fetch, Reads, Walks
  <2>2. Allows(table, job.mode)'
    BY <2>1 DEF Allows, regs
  <2> QED  BY <1>0, <1>9, <2>1, <2>2 DEF Descend, WalkInv, regs
<1>10. CASE UNCHANGED walkVars
  BY <1>10 DEF walkVars, regs, walk, WalkInv, Allows
<1> QED
  BY <1>3, <1>5, <1>6, <1>7, <1>8, <1>9, <1>10 DEF WalkNext, TranslateAddress

-----------------------------------------------------------------------------
\* The invariant of the walk and of the registers that choose its tables.
THEOREM WalkInvariance == WalkSpec => [](WalkInv /\ RootInv)
<1> DEFINE I == WalkInv /\ RootInv /\ cr3 \in Nat
<1>1. WalkInit => I
  BY InitWalk
<1>2. I /\ [WalkNext]_walkVars => I'
  BY RootStep, WalkStep
<1>3. I => WalkInv /\ RootInv
  OBVIOUS
<1> QED  BY <1>1, <1>2, <1>3, PTL DEF WalkSpec

\* The tables in use are those CR3 names (SyncRegisters).
THEOREM RootCorrect == WalkSpec => []RootInUse
<1>1. WalkInv /\ RootInv => RootInUse
  BY DEF RootInv
<1> QED  BY <1>1, WalkInvariance, PTL

\* No address is translated through an entry that denies the access
\* (TranslateAddress, its early return for a large page included).
THEOREM AllowedCorrect == WalkSpec => OnlyAllowed
<1>1. WalkInv /\ [WalkNext]_walkVars
      => [LargePage \/ LastLevel \/ Descend => Allows(table', job.mode)]_walkVars
  <2>1. LastLevel \/ Descend => Allows(table', job.mode)
    BY DEF LastLevel, Descend
  <2>2. WalkInv /\ LargePage => Allows(table', job.mode)
    <3>1. LargePage => table' = table /\ pc = "walk" /\ level > 0
      BY DEF LargePage, Walks
    <3> QED  BY <3>1 DEF WalkInv
  <2> QED  BY <2>1, <2>2
<1> QED  BY <1>1, WalkInvariance, PTL DEF WalkSpec, OnlyAllowed

-----------------------------------------------------------------------------
(* Arithmetic.                                                             *)

LEMMA DivMod ==
    ASSUME NEW x \in Nat, NEW p \in Nat \ {0}
    PROVE  x = p * (x \div p) + (x % p) /\ x % p \in 0..(p - 1) /\ x \div p \in Nat
  OBVIOUS

LEMMA DivModOf ==
    ASSUME NEW q \in Nat, NEW r \in Nat, NEW p \in Nat \ {0}, r < p
    PROVE  (p * q + r) \div p = q /\ (p * q + r) % p = r
  OBVIOUS

LEMMA DivGrows ==
    ASSUME NEW x \in Nat, NEW y \in Nat, NEW p \in Nat \ {0}, x <= y
    PROVE  x \div p <= y \div p
  <1>1. PICK q \in Nat, r \in 0..(p - 1) : q = x \div p /\ x = p * q + r
    BY DivMod
  <1>2. PICK v \in Nat, w \in 0..(p - 1) : v = y \div p /\ y = p * v + w
    BY DivMod
  <1>3. q <= v
    <2> SUFFICES ASSUME v + 1 <= q
                 PROVE  FALSE
      OBVIOUS
    <2>1. p * (v + 1) <= p * q
      OBVIOUS
    <2>2. p * (v + 1) = p * v + p
      OBVIOUS
    <2> QED BY <1>1, <1>2, <2>1, <2>2
  <1> QED BY <1>1, <1>2, <1>3

LEMMA ModOfProduct ==
    ASSUME NEW a \in Nat, NEW p \in Nat \ {0}, NEW k \in Nat \ {0}
    PROVE  a % (p * k) = ((a \div p) % k) * p + (a % p)
  <1>1. PICK q \in Nat, r \in 0..(p - 1) : q = a \div p /\ r = a % p /\ a = p * q + r
    BY DivMod
  <1>2. PICK v \in Nat, w \in 0..(k - 1) : w = q % k /\ q = k * v + w
    BY DivMod
  <1>3. a = (p * k) * v + (p * w + r)
    <2>1. a = p * (k * v + w) + r
      BY <1>1, <1>2
    <2>2. p * (k * v + w) = p * (k * v) + p * w
      OBVIOUS
    <2>3. p * (k * v) = (p * k) * v
      OBVIOUS
    <2>4. p * (k * v) \in Nat /\ p * w \in Nat /\ (p * k) * v \in Nat
      OBVIOUS
    <2> QED BY <2>1, <2>2, <2>3, <2>4
  <1>4. p * w + r \in Nat /\ p * k \in Nat \ {0} /\ p * w + r < p * k
    <2>1. w + 1 <= k
      OBVIOUS
    <2>2. p * (w + 1) <= p * k
      BY <2>1
    <2>3. p * (w + 1) = p * w + p
      OBVIOUS
    <2>4. p * w \in Nat /\ p * k \in Nat
      OBVIOUS
    <2> QED BY <2>2, <2>3, <2>4
  <1>5. a % (p * k) = p * w + r
    <2>1. PICK pk \in Nat \ {0}, x \in Nat : pk = p * k /\ x = p * w + r /\ x < pk
      BY <1>4
    <2>2. a = pk * v + x
      BY <1>3, <2>1
    <2> QED BY <2>1, <2>2, DivModOf
  <1> QED BY <1>1, <1>2, <1>5

-----------------------------------------------------------------------------
(* The slots of a walk, for tables t = mmu and any memory.                 *)

Units(t) == BasePage * 2^t.shift
IndexIn(t, a, i) == ((a \div Units(t)) \div 2^(Bits * (t.levels - i - 1))) % 2^Bits
SlotsOf(t, mem, a, F) ==
    [i \in 0..(t.levels - 1) |->
        (IF i = 0 THEN t.root
         ELSE IF F[i - 1] \in DOMAIN mem THEN mem[F[i - 1]].frame * BasePage
         ELSE 0) + IndexIn(t, a, i)]
SlotsIn(t, mem, a) == CHOOSE F : F = SlotsOf(t, mem, a, F)

GrantIn(p, u, m) == {e \in Entry : e.present /\ m \in e.grants /\ (e.user \/ ~u \/ ~p)}

PassesIn(t, mem, G, a, i) ==
    LET u == SlotsIn(t, mem, a)[i]
    IN  /\ u \in Mapped /\ u \in DOMAIN mem
        /\ mem[u] \in G
        /\ ~mem[u].lowest /\ i < t.levels - 1

DecidesIn(t, mem, G, a, i) ==
    ~PassesIn(t, mem, G, a, i) /\ \A j \in 0..(i - 1) : PassesIn(t, mem, G, a, j)

ResultIn(t, mem, G, a, i) ==
    LET u == SlotsIn(t, mem, a)[i]
    IN  IF u \notin Mapped
        THEN [kind |-> "unmapped", at |-> u, level |-> i]
        ELSE IF u \notin DOMAIN mem
        THEN [kind |-> "unread", at |-> u, level |-> i]
        ELSE IF mem[u] \notin G
        THEN [kind |-> "violation", at |-> a, level |-> i]
        ELSE LET number == mem[u].frame \div 2^t.shift
             IN  [kind |-> "physical", level |-> i, number |-> number,
                  at |-> number * Units(t) + (a % (Units(t) * 2^(Bits * (t.levels - 1 - i))))]

ReferenceIn(t, mem, G, a) ==
    ResultIn(t, mem, G, a, CHOOSE i \in 0..(t.levels - 1) : DecidesIn(t, mem, G, a, i))

Answer(a) == ReferenceIn(mmu, memory, GrantIn(protected, user, job.mode), a)

LEMMA SlotsAre ==
    ASSUME NEW a
    PROVE  Slots(a) = SlotsIn(mmu, memory, a)
  BY DEF Slots, SlotsIn, SlotsOf, IndexIn, Units, Index, PageOf, PageUnits

LEMMA ReferenceIs ==
    ASSUME NEW a
    PROVE  Reference(a, job.mode) = Answer(a)
  <1>1. PICK F : F = Slots(a) /\ F = SlotsIn(mmu, memory, a)
    BY SlotsAre
  <1>2. PICK G : G = Granting(job.mode) /\ G = GrantIn(protected, user, job.mode)
    BY DEF Granting, GrantIn
  <1>3. PICK n : n = PageUnits /\ n = Units(mmu)
    BY DEF PageUnits, Units
  <1>4. Reference(a, job.mode) = ReferenceIn(mmu, memory, G, a)
    BY <1>1, <1>2, <1>3, SMTT(30) DEF Reference, ReferenceIn, ResultIn, DecidesIn, PassesIn
  <1> QED BY <1>2, <1>4 DEF Answer

LEMMA UnitsPositive ==
    ASSUME NEW t, t.shift \in {0, 2, 4}
    PROVE  Units(t) \in Nat \ {0} /\ 2^t.shift \in Nat \ {0}
  <1>1. 2^0 = 1 /\ 2^2 = 4 /\ 2^4 = 16
    OBVIOUS
  <1>2. 2^t.shift \in {1, 4, 16}
    BY <1>1
  <1>3. PICK p \in {1, 4, 16} : p = 2^t.shift
    BY <1>2
  <1>4. BasePage * p \in Nat \ {0} /\ p \in Nat \ {0}
    BY VirtualAssumption
  <1> QED BY <1>3, <1>4 DEF Units

\* What the recursive function of Slots is.
LEMMA SlotsProperties ==
    ASSUME NEW t, NEW mem, NEW a, t.levels \in 3..5
    PROVE  /\ SlotsIn(t, mem, a)[0] = t.root + IndexIn(t, a, 0)
           /\ \A i \in 1..(t.levels - 1) : SlotsIn(t, mem, a)[i] =
                 (IF SlotsIn(t, mem, a)[i - 1] \in DOMAIN mem
                  THEN mem[SlotsIn(t, mem, a)[i - 1]].frame * BasePage ELSE 0)
                 + IndexIn(t, a, i)
  <1> DEFINE n == t.levels - 1
             below(u) == IF u \in DOMAIN mem THEN mem[u].frame * BasePage ELSE 0
             s0 == t.root + IndexIn(t, a, 0)
             s1 == below(s0) + IndexIn(t, a, 1)
             s2 == below(s1) + IndexIn(t, a, 2)
             s3 == below(s2) + IndexIn(t, a, 3)
             s4 == below(s3) + IndexIn(t, a, 4)
             F == [i \in 0..n |-> IF i = 0 THEN s0 ELSE IF i = 1 THEN s1
                                  ELSE IF i = 2 THEN s2 ELSE IF i = 3 THEN s3 ELSE s4]
  <1> HIDE DEF s0, s1, s2, s3, s4
  <1>1. ASSUME NEW i \in 0..n
        PROVE  F[i] = (IF i = 0 THEN t.root ELSE below(F[i - 1])) + IndexIn(t, a, i)
    <2>1. i \in {0, 1, 2, 3, 4} /\ (i # 0 => i - 1 \in 0..n)
      OBVIOUS
    <2> HIDE DEF below
    <2>2. CASE i = 0
      BY <2>2 DEF s0
    <2>3. CASE i = 1
      BY <2>1, <2>3 DEF s1
    <2>4. CASE i = 2
      BY <2>1, <2>4 DEF s2
    <2>5. CASE i = 3
      BY <2>1, <2>5 DEF s3
    <2>6. CASE i = 4
      BY <2>1, <2>6 DEF s4
    <2> QED BY <2>1, <2>2, <2>3, <2>4, <2>5, <2>6
  <1>2. F = [i \in 0..n |-> F[i]]
    OBVIOUS
  <1> HIDE DEF F
  <1>3. F = SlotsOf(t, mem, a, F)
    BY <1>1, <1>2 DEF SlotsOf
  <1> DEFINE S == SlotsIn(t, mem, a)
  <1>4. S = SlotsOf(t, mem, a, S)
    BY <1>3 DEF SlotsIn
  <1> HIDE DEF S
  <1>5. \A i \in 0..n : S[i] = (IF i = 0 THEN t.root ELSE below(S[i - 1])) + IndexIn(t, a, i)
    BY <1>4 DEF SlotsOf
  <1>6. 0 \in 0..n /\ \A i \in 1..n : i \in 0..n /\ i # 0
    OBVIOUS
  <1> QED BY <1>5, <1>6 DEF S

\* Addresses of one page have the same slots.
LEMMA SlotsOfPage ==
    ASSUME NEW t, NEW mem, NEW a, NEW b, a \div Units(t) = b \div Units(t)
    PROVE  SlotsIn(t, mem, a) = SlotsIn(t, mem, b)
  BY DEF SlotsIn, SlotsOf, IndexIn

Extends(new, mem) ==
    DOMAIN mem \subseteq DOMAIN new /\ \A u \in DOMAIN mem : new[u] = mem[u]

\* What has been read stays where it was.
LEMMA SlotsGrow ==
    ASSUME NEW t, NEW mem, NEW new, NEW a, t.levels \in 3..5, Extends(new, mem),
           NEW i \in 0..(t.levels - 1),
           \A j \in 0..(i - 1) : SlotsIn(t, mem, a)[j] \in DOMAIN mem
    PROVE  \A j \in 0..i : SlotsIn(t, new, a)[j] = SlotsIn(t, mem, a)[j]
  <1> DEFINE S == SlotsIn(t, mem, a)
             N == SlotsIn(t, new, a)
  <1>1. N[0] = S[0]
    BY SlotsProperties
  <1>2. ASSUME NEW j \in 0..(i - 1), N[j] = S[j]
        PROVE  N[j + 1] = S[j + 1]
    <2>1. j + 1 \in 1..(t.levels - 1) /\ (j + 1) - 1 = j
      OBVIOUS
    <2>2. S[j] \in DOMAIN mem /\ S[j] \in DOMAIN new /\ new[S[j]] = mem[S[j]]
      BY DEF Extends
    <2>3. S[j + 1] = mem[S[j]].frame * BasePage + IndexIn(t, a, j + 1)
      BY <2>1, <2>2, SlotsProperties
    <2>4. N[j + 1] = new[N[j]].frame * BasePage + IndexIn(t, a, j + 1)
      BY <1>2, <2>1, <2>2, SlotsProperties
    <2> QED BY <1>2, <2>2, <2>3, <2>4
  <1> HIDE DEF S, N
  <1>3. ASSUME NEW j \in 0..i
        PROVE  N[j] = S[j]
    <2>1. j \in {0, 1, 2, 3, 4}
      OBVIOUS
    <2>2. i >= 1 => N[1] = S[1]
      <3>1. i >= 1 => 0 \in 0..(i - 1) /\ 0 + 1 = 1
        OBVIOUS
      <3> QED BY <1>1, <1>2, <3>1
    <2>3. i >= 2 => N[2] = S[2]
      <3>1. i >= 2 => 1 \in 0..(i - 1) /\ 1 + 1 = 2 /\ i >= 1
        OBVIOUS
      <3> QED BY <1>2, <2>2, <3>1
    <2>4. i >= 3 => N[3] = S[3]
      <3>1. i >= 3 => 2 \in 0..(i - 1) /\ 2 + 1 = 3 /\ i >= 2
        OBVIOUS
      <3> QED BY <1>2, <2>3, <3>1
    <2>5. i >= 4 => N[4] = S[4]
      <3>1. i >= 4 => 3 \in 0..(i - 1) /\ 3 + 1 = 4 /\ i >= 3
        OBVIOUS
      <3> QED BY <1>2, <2>4, <3>1
    <2> QED BY <1>1, <2>1, <2>2, <2>3, <2>4, <2>5
  <1> QED BY <1>3 DEF S, N

-----------------------------------------------------------------------------
(* The level that decides.                                                 *)

\* There is one at most.
LEMMA DecidesOnce ==
    ASSUME NEW t, NEW mem, NEW G, NEW a, t.levels \in 3..5,
           NEW i \in 0..(t.levels - 1), DecidesIn(t, mem, G, a, i)
    PROVE  ReferenceIn(t, mem, G, a) = ResultIn(t, mem, G, a, i)
  <1> DEFINE D(k) == DecidesIn(t, mem, G, a, k)
             c    == CHOOSE k \in 0..(t.levels - 1) : D(k)
  <1>1. c \in 0..(t.levels - 1) /\ D(c)
    OBVIOUS
  <1>2. ASSUME NEW k \in 0..(t.levels - 1), D(k)
        PROVE  k = i
    <2>1. k < i => k \in 0..(i - 1)
      OBVIOUS
    <2>2. i < k => i \in 0..(k - 1)
      OBVIOUS
    <2> QED BY <1>2, <2>1, <2>2 DEF DecidesIn
  <1> HIDE DEF D
  <1>3. c = i
    BY <1>1, <1>2
  <1> QED BY <1>3 DEF ReferenceIn, D

\* Level i decides, and its entry is a page that may be used.
PageIn(t, mem, G, a, i) ==
    LET u == SlotsIn(t, mem, a)[i]
    IN  /\ i \in 0..(t.levels - 1)
        /\ DecidesIn(t, mem, G, a, i)
        /\ u \in Mapped /\ u \in DOMAIN mem /\ mem[u] \in G

HasPage(t, mem, G, a) == \E i \in 0..(t.levels - 1) : PageIn(t, mem, G, a, i)

LEMMA PageResult ==
    ASSUME NEW t, NEW mem, NEW G, NEW a, t.levels \in 3..5, NEW i, PageIn(t, mem, G, a, i)
    PROVE  ReferenceIn(t, mem, G, a) =
              [kind |-> "physical", level |-> i,
               number |-> mem[SlotsIn(t, mem, a)[i]].frame \div 2^t.shift,
               at |-> (mem[SlotsIn(t, mem, a)[i]].frame \div 2^t.shift) * Units(t)
                         + (a % (Units(t) * 2^(Bits * (t.levels - 1 - i))))]
  <1>1. ReferenceIn(t, mem, G, a) = ResultIn(t, mem, G, a, i)
    BY DecidesOnce DEF PageIn
  <1> QED BY <1>1 DEF ResultIn, PageIn

LEMMA PageIsPhysical ==
    ASSUME NEW t, NEW mem, NEW G, NEW a, t.levels \in 3..5, HasPage(t, mem, G, a)
    PROVE  ReferenceIn(t, mem, G, a).kind = "physical"
  <1>1. PICK i \in 0..(t.levels - 1) : PageIn(t, mem, G, a, i)
    BY DEF HasPage
  <1> QED BY <1>1, PageResult

\* The addresses of a page share it.
LEMMA PageOfPage ==
    ASSUME NEW t, NEW mem, NEW G, NEW a, NEW b, a \div Units(t) = b \div Units(t), NEW i,
           PageIn(t, mem, G, a, i)
    PROVE  PageIn(t, mem, G, b, i)
  <1>1. SlotsIn(t, mem, a) = SlotsIn(t, mem, b)
    BY SlotsOfPage
  <1> QED BY <1>1 DEF PageIn, DecidesIn, PassesIn

\* Reading more entries takes no page away.
LEMMA PageStays ==
    ASSUME NEW t, NEW mem, NEW new, NEW G, NEW a, t.levels \in 3..5, Extends(new, mem), NEW i,
           PageIn(t, mem, G, a, i)
    PROVE  PageIn(t, new, G, a, i)
  <1> DEFINE S == SlotsIn(t, mem, a)
             N == SlotsIn(t, new, a)
  <1>1. i \in 0..(t.levels - 1)
    BY DEF PageIn
  <1>2. \A j \in 0..(i - 1) : S[j] \in DOMAIN mem
    BY DEF PageIn, DecidesIn, PassesIn
  <1>3. \A j \in 0..i : N[j] = S[j]
    BY <1>1, <1>2, SlotsGrow
  <1>4. \A j \in 0..i : S[j] \in DOMAIN mem
    BY <1>1, <1>2 DEF PageIn
  <1>5. \A j \in 0..i : N[j] \in DOMAIN mem /\ N[j] \in DOMAIN new /\ new[N[j]] = mem[S[j]]
    BY <1>3, <1>4 DEF Extends
  <1>6. i \in 0..i /\ \A j \in 0..(i - 1) : j \in 0..i
    BY <1>1
  <1>7. \A j \in 0..i : PassesIn(t, new, G, a, j) <=> PassesIn(t, mem, G, a, j)
    BY <1>3, <1>4, <1>5 DEF PassesIn
  <1>8. DecidesIn(t, new, G, a, i)
    BY <1>6, <1>7 DEF PageIn, DecidesIn
  <1> QED BY <1>1, <1>3, <1>5, <1>6, <1>8 DEF PageIn

LEMMA PagesStay ==
    ASSUME NEW t, NEW mem, NEW new, NEW G, NEW a, t.levels \in 3..5, Extends(new, mem),
           HasPage(t, mem, G, a)
    PROVE  HasPage(t, new, G, a)
  <1>1. PICK i \in 0..(t.levels - 1) : PageIn(t, mem, G, a, i)
    BY DEF HasPage
  <1> QED BY <1>1, PageStays DEF HasPage

-----------------------------------------------------------------------------
(* The walk at level l, with the entry e in hand: all levels above have let *)
(* it pass, but the last of them may have been a large page.                *)

PathIn(t, mem, G, a, l, e) ==
    LET slots == SlotsIn(t, mem, a)
    IN  /\ l \in 0..(t.levels - 1)
        /\ \A j \in 0..(l - 1) : slots[j] \in Mapped /\ slots[j] \in DOMAIN mem /\ mem[slots[j]] \in G
        /\ \A j \in 0..(l - 2) : ~mem[slots[j]].lowest
        /\ l > 0 => e = mem[slots[l - 1]]

SlotIn(t, a, l, e) == (IF l = 0 THEN t.root ELSE e.frame * BasePage) + IndexIn(t, a, l)

LEMMA PathSlot ==
    ASSUME NEW t, NEW mem, NEW G, NEW a, t.levels \in 3..5, NEW l, NEW e,
           PathIn(t, mem, G, a, l, e)
    PROVE  SlotIn(t, a, l, e) = SlotsIn(t, mem, a)[l]
  <1> DEFINE S == SlotsIn(t, mem, a)
  <1>1. l \in 0..(t.levels - 1)
    BY DEF PathIn
  <1>2. CASE l = 0
    BY <1>2, SlotsProperties DEF SlotIn
  <1>3. CASE l # 0
    <2>1. l \in 1..(t.levels - 1) /\ l - 1 \in 0..(l - 1) /\ l > 0
      BY <1>1, <1>3
    <2>2. S[l - 1] \in DOMAIN mem /\ e = mem[S[l - 1]]
      BY <2>1 DEF PathIn
    <2>3. S[l] = (IF S[l - 1] \in DOMAIN mem THEN mem[S[l - 1]].frame * BasePage ELSE 0)
                 + IndexIn(t, a, l)
      BY <2>1, SlotsProperties
    <2> QED BY <1>3, <2>2, <2>3 DEF SlotIn
  <1> QED BY <1>2, <1>3

LEMMA PathPasses ==
    ASSUME NEW t, NEW mem, NEW G, NEW a, t.levels \in 3..5, NEW l, NEW e,
           PathIn(t, mem, G, a, l, e), ~(l > 0 /\ e.lowest)
    PROVE  \A j \in 0..(l - 1) : PassesIn(t, mem, G, a, j)
  <1> DEFINE S == SlotsIn(t, mem, a)
  <1>1. l \in 0..(t.levels - 1)
    BY DEF PathIn
  <1>2. ASSUME NEW j \in 0..(l - 1)
        PROVE  PassesIn(t, mem, G, a, j)
    <2>1. l > 0 /\ j < t.levels - 1 /\ (j = l - 1 \/ j \in 0..(l - 2))
      BY <1>1
    <2>2. ~mem[S[j]].lowest
      <3>1. CASE j = l - 1
        <4>1. e = mem[S[l - 1]] /\ ~e.lowest
          BY <2>1 DEF PathIn
        <4> QED BY <3>1, <4>1
      <3>2. CASE j \in 0..(l - 2)
        BY <3>2 DEF PathIn
      <3> QED BY <2>1, <3>1, <3>2
    <2>3. S[j] \in Mapped /\ S[j] \in DOMAIN mem /\ mem[S[j]] \in G
      BY DEF PathIn
    <2> QED BY <2>1, <2>2, <2>3 DEF PassesIn
  <1> QED BY <1>2

\* A large page: the level above decides.
LEMMA PathPage ==
    ASSUME NEW t, NEW mem, NEW G, NEW a, t.levels \in 3..5, NEW l, NEW e,
           PathIn(t, mem, G, a, l, e), l > 0, e.lowest
    PROVE  PageIn(t, mem, G, a, l - 1) /\ e = mem[SlotsIn(t, mem, a)[l - 1]]
  <1> DEFINE S == SlotsIn(t, mem, a)
  <1>1. l \in 0..(t.levels - 1) /\ l - 1 \in 0..(t.levels - 1) /\ l - 1 \in 0..(l - 1)
    BY DEF PathIn
  <1>2. e = mem[S[l - 1]] /\ S[l - 1] \in Mapped /\ S[l - 1] \in DOMAIN mem /\ mem[S[l - 1]] \in G
    BY <1>1 DEF PathIn
  <1>3. ~PassesIn(t, mem, G, a, l - 1)
    BY <1>2 DEF PassesIn
  <1>4. ASSUME NEW j \in 0..((l - 1) - 1)
        PROVE  PassesIn(t, mem, G, a, j)
    <2>1. j \in 0..(l - 1) /\ j \in 0..(l - 2) /\ j < t.levels - 1
      BY <1>1
    <2> QED BY <2>1 DEF PassesIn, PathIn
  <1> QED BY <1>1, <1>2, <1>3, <1>4 DEF PageIn, DecidesIn

LEMMA PathUnmapped ==
    ASSUME NEW t, NEW mem, NEW G, NEW a, t.levels \in 3..5, NEW l, NEW e,
           PathIn(t, mem, G, a, l, e), ~(l > 0 /\ e.lowest), SlotIn(t, a, l, e) \notin Mapped
    PROVE  ReferenceIn(t, mem, G, a) = [kind |-> "unmapped", at |-> SlotIn(t, a, l, e), level |-> l]
  <1>0. l \in 0..(t.levels - 1)
    BY DEF PathIn
  <1>1. SlotIn(t, a, l, e) = SlotsIn(t, mem, a)[l]
    BY PathSlot
  <1>2. \A j \in 0..(l - 1) : PassesIn(t, mem, G, a, j)
    BY PathPasses
  <1>3. ~PassesIn(t, mem, G, a, l)
    BY <1>1 DEF PassesIn
  <1>4. DecidesIn(t, mem, G, a, l)
    BY <1>2, <1>3 DEF DecidesIn
  <1>5. ReferenceIn(t, mem, G, a) = ResultIn(t, mem, G, a, l)
    BY <1>0, <1>4, DecidesOnce
  <1> QED BY <1>1, <1>5 DEF ResultIn

\* An entry is read.
WithEntry(mem, s, f) == [u \in DOMAIN mem \cup {s} |-> IF u = s THEN f ELSE mem[u]]

LEMMA EntryExtends ==
    ASSUME NEW mem, NEW s, NEW f, s \in DOMAIN mem => f = mem[s]
    PROVE  /\ Extends(WithEntry(mem, s, f), mem)
           /\ s \in DOMAIN WithEntry(mem, s, f) /\ WithEntry(mem, s, f)[s] = f
  BY DEF WithEntry, Extends

\* All levels above l pass, and f is the entry of l.
ReadIn(t, mem, G, a, l, f) ==
    LET slots == SlotsIn(t, mem, a)
    IN  /\ l \in 0..(t.levels - 1)
        /\ \A j \in 0..(l - 1) : PassesIn(t, mem, G, a, j)
        /\ slots[l] \in Mapped /\ slots[l] \in DOMAIN mem /\ mem[slots[l]] = f

LEMMA PathReads ==
    ASSUME NEW t, NEW mem, NEW G, NEW a, t.levels \in 3..5, NEW l, NEW e,
           PathIn(t, mem, G, a, l, e), ~(l > 0 /\ e.lowest), SlotIn(t, a, l, e) \in Mapped,
           NEW new, NEW f, Extends(new, mem), SlotIn(t, a, l, e) \in DOMAIN new,
           new[SlotIn(t, a, l, e)] = f
    PROVE  ReadIn(t, new, G, a, l, f)
  <1> DEFINE S == SlotsIn(t, mem, a)
             N == SlotsIn(t, new, a)
  <1>1. l \in 0..(t.levels - 1) /\ l \in 0..l /\ \A j \in 0..(l - 1) : j \in 0..l
    BY DEF PathIn
  <1>2. \A j \in 0..(l - 1) : S[j] \in DOMAIN mem
    BY DEF PathIn
  <1>3. \A j \in 0..l : N[j] = S[j]
    BY <1>1, <1>2, SlotsGrow
  <1>4. S[l] = SlotIn(t, a, l, e)
    BY PathSlot
  <1>5. \A j \in 0..(l - 1) : PassesIn(t, mem, G, a, j)
    BY PathPasses
  <1>6. \A j \in 0..(l - 1) : S[j] \in DOMAIN new /\ new[S[j]] = mem[S[j]]
    BY <1>2 DEF Extends
  <1>7. \A j \in 0..(l - 1) : PassesIn(t, new, G, a, j)
    BY <1>1, <1>3, <1>5, <1>6 DEF PassesIn
  <1> QED BY <1>1, <1>3, <1>4, <1>7 DEF ReadIn

LEMMA PathDenied ==
    ASSUME NEW t, NEW mem, NEW G, NEW a, t.levels \in 3..5, NEW l, NEW e,
           PathIn(t, mem, G, a, l, e), ~(l > 0 /\ e.lowest), SlotIn(t, a, l, e) \in Mapped,
           NEW new, NEW f, Extends(new, mem), SlotIn(t, a, l, e) \in DOMAIN new,
           new[SlotIn(t, a, l, e)] = f, f \notin G
    PROVE  ReferenceIn(t, new, G, a) = [kind |-> "violation", at |-> a, level |-> l]
  <1> DEFINE N == SlotsIn(t, new, a)
  <1>0. ReadIn(t, new, G, a, l, f)
    BY PathReads
  <1>1. /\ l \in 0..(t.levels - 1)
        /\ \A j \in 0..(l - 1) : PassesIn(t, new, G, a, j)
        /\ N[l] \in Mapped /\ N[l] \in DOMAIN new /\ new[N[l]] = f
    BY <1>0 DEF ReadIn
  <1>2. DecidesIn(t, new, G, a, l)
    BY <1>1 DEF DecidesIn, PassesIn
  <1>3. ReferenceIn(t, new, G, a) = ResultIn(t, new, G, a, l)
    BY <1>1, <1>2, DecidesOnce
  <1> QED BY <1>1, <1>3 DEF ResultIn

LEMMA PathDescends ==
    ASSUME NEW t, NEW mem, NEW G, NEW a, t.levels \in 3..5, NEW l, NEW e,
           PathIn(t, mem, G, a, l, e), ~(l > 0 /\ e.lowest), SlotIn(t, a, l, e) \in Mapped,
           NEW new, NEW f, Extends(new, mem), SlotIn(t, a, l, e) \in DOMAIN new,
           new[SlotIn(t, a, l, e)] = f, f \in G, l < t.levels - 1
    PROVE  PathIn(t, new, G, a, l + 1, f)
  <1> DEFINE N == SlotsIn(t, new, a)
  <1>0. ReadIn(t, new, G, a, l, f)
    BY PathReads
  <1>1. /\ l \in 0..(t.levels - 1)
        /\ \A j \in 0..(l - 1) : PassesIn(t, new, G, a, j)
        /\ N[l] \in Mapped /\ N[l] \in DOMAIN new /\ new[N[l]] = f
    BY <1>0 DEF ReadIn
  <1>2. /\ l + 1 \in 0..(t.levels - 1) /\ (l + 1) - 1 = l
        /\ \A j \in 0..((l + 1) - 1) : j = l \/ j \in 0..(l - 1)
        /\ \A j \in 0..((l + 1) - 2) : j \in 0..(l - 1)
    BY <1>1
  <1> QED BY <1>1, <1>2 DEF PathIn, PassesIn

LEMMA PathEnds ==
    ASSUME NEW t, NEW mem, NEW G, NEW a, t.levels \in 3..5, NEW l, NEW e,
           PathIn(t, mem, G, a, l, e), ~(l > 0 /\ e.lowest), SlotIn(t, a, l, e) \in Mapped,
           NEW new, NEW f, Extends(new, mem), SlotIn(t, a, l, e) \in DOMAIN new,
           new[SlotIn(t, a, l, e)] = f, f \in G, l = t.levels - 1
    PROVE  PageIn(t, new, G, a, l) /\ f = new[SlotsIn(t, new, a)[l]]
  <1> DEFINE N == SlotsIn(t, new, a)
  <1>0. ReadIn(t, new, G, a, l, f)
    BY PathReads
  <1>1. /\ l \in 0..(t.levels - 1)
        /\ \A j \in 0..(l - 1) : PassesIn(t, new, G, a, j)
        /\ N[l] \in Mapped /\ N[l] \in DOMAIN new /\ new[N[l]] = f
    BY <1>0 DEF ReadIn
  <1>2. DecidesIn(t, new, G, a, l)
    BY <1>1 DEF DecidesIn, PassesIn
  <1> QED BY <1>1, <1>2 DEF PageIn

-----------------------------------------------------------------------------
(* The addresses of a page.                                                *)

\* Tables that a write to CR0 can choose.
Configured(t) ==
    \E c \in Control : t.shift = c.shift /\ t.levels = c.levels

PhysicalIn(t, e, from, a) ==
    BitOr(e.frame \div 2^t.shift, from) * Units(t) + (a % Units(t))

AgreesIn(t, r, p) ==
    /\ r.kind = "physical"
    /\ (\/ r.level = t.levels - 1
        \/ t.levels = 2 * r.level + 1 /\ r.number % 2^(Bits * r.level) = 0) => r.at = p

LEMMA ConfiguredTables ==
    ASSUME NEW t, Configured(t)
    PROVE  t.shift \in {0, 2, 4} /\ t.levels \in 3..5
  BY VirtualAssumption DEF Configured

LEMMA SamePage ==
    ASSUME NEW a \in Nat, NEW k \in Nat, NEW p \in Nat \ {0}, (a + k) \div p = a \div p
    PROVE  (a + k) % p = (a % p) + k
  <1>1. PICK q \in Nat, r \in 0..(p - 1) : q = a \div p /\ r = a % p /\ a = p * q + r
    BY DivMod
  <1>2. a + k \in Nat
    OBVIOUS
  <1>3. PICK v \in Nat, w \in 0..(p - 1) :
             v = (a + k) \div p /\ w = (a + k) % p /\ a + k = p * v + w
    BY <1>2, DivMod
  <1> QED BY <1>1, <1>3

LEMMA LastAddress ==
    ASSUME NEW t, Configured(t), NEW e \in Entry, NEW a \in Nat, NEW k \in Nat,
           (a + k) \div Units(t) = a \div Units(t)
    PROVE  (e.frame \div 2^t.shift) * Units(t) + ((a + k) % (Units(t) * 2^(Bits * 0)))
           = PhysicalIn(t, e, 0, a) + k
  <1>1. PICK c \in Control : t.shift = c.shift
    BY DEF Configured
  <1>2. BitOr(e.frame \div 2^t.shift, 0) = e.frame \div 2^t.shift
    BY <1>1, OrAssumption
  <1>3. PICK U \in Nat \ {0} : U = Units(t)
    BY ConfiguredTables, UnitsPositive
  <1>4. 2^(Bits * 0) = 1
    <2>1. Bits * 0 = 0
      BY VirtualAssumption
    <2>2. 2^0 = 1
      OBVIOUS
    <2> QED BY <2>1, <2>2
  <1>5. Units(t) * 2^(Bits * 0) = Units(t)
    BY <1>3, <1>4
  <1>6. e.frame \in Nat /\ 2^t.shift \in Nat \ {0}
    BY VirtualAssumption, ConfiguredTables, UnitsPositive
  <1>7. PICK f \in Nat : f = e.frame \div 2^t.shift
    BY <1>6, DivMod
  <1>8. (a + k) % U = (a % U) + k /\ a % U \in Nat
    BY <1>3, SamePage
  <1>9. f * U \in Nat
    BY <1>3, <1>7
  <1> QED BY <1>2, <1>3, <1>5, <1>7, <1>8, <1>9 DEF PhysicalIn

LEMMA LargeAddress ==
    ASSUME NEW t, Configured(t), NEW i \in 1..2, NEW e \in Entry,
           (e.frame \div 2^t.shift) % 2^(Bits * i) = 0, NEW a \in Nat, NEW k \in Nat,
           (a + k) \div Units(t) = a \div Units(t)
    PROVE  (e.frame \div 2^t.shift) * Units(t) + ((a + k) % (Units(t) * 2^(Bits * i)))
           = PhysicalIn(t, e, (a \div Units(t)) % 2^(Bits * i), a) + k
  <1>1. PICK c \in Control : t.shift = c.shift
    BY DEF Configured
  <1>3. \A low \in 0..(2^(Bits * i) - 1) :
           BitOr(e.frame \div 2^t.shift, low) = (e.frame \div 2^t.shift) + low
    BY <1>1, OrAssumption
  <1>4. PICK U \in Nat \ {0} : U = Units(t)
    BY ConfiguredTables, UnitsPositive
  <1>5. PICK K \in Nat \ {0} : K = 2^(Bits * i)
    <2>1. Bits * i \in 0..(2 * Bits)
      <3>1. i = 1 \/ i = 2
        OBVIOUS
      <3> QED BY <3>1, VirtualAssumption
    <2> QED BY <2>1, PowerAssumption
  <1>6. e.frame \in Nat /\ 2^t.shift \in Nat \ {0}
    BY VirtualAssumption, ConfiguredTables, UnitsPositive
  <1>7. PICK f \in Nat : f = e.frame \div 2^t.shift
    BY <1>6, DivMod
  <1>8. (a + k) % U = (a % U) + k /\ a % U \in Nat
    <2>1. (a + k) \div U = a \div U
      BY <1>4
    <2>2. (a + k) % U = (a % U) + k
      BY <2>1, SamePage
    <2>3. a % U \in Nat
      OBVIOUS
    <2> QED BY <2>2, <2>3
  <1>9. PICK q \in Nat : q = a \div U /\ q = (a + k) \div U
    BY <1>4, DivMod
  <1>10. PICK low \in 0..(K - 1) : low = q % K
    BY DivMod
  <1>11. (a + k) % (U * K) = low * U + ((a % U) + k)
    <2>1. a + k \in Nat
      OBVIOUS
    <2>2. (a + k) % (U * K) = (((a + k) \div U) % K) * U + ((a + k) % U)
      BY <2>1, ModOfProduct
    <2> QED BY <1>8, <1>9, <1>10, <2>2
  <1>12. BitOr(f, low) = f + low
    BY <1>3, <1>5, <1>7
  <1>13. PhysicalIn(t, e, (a \div Units(t)) % 2^(Bits * i), a) = (f + low) * U + (a % U)
    BY <1>4, <1>5, <1>7, <1>9, <1>10, <1>12 DEF PhysicalIn
  <1>14. (f + low) * U = f * U + low * U /\ f * U \in Nat /\ low * U \in Nat
    OBVIOUS
  <1>15. (e.frame \div 2^t.shift) * Units(t) + ((a + k) % (Units(t) * 2^(Bits * i)))
         = f * U + (low * U + ((a % U) + k))
    BY <1>4, <1>5, <1>7, <1>11
  <1>16. PICK m \in Nat : m = a % U
    BY <1>8
  <1>17. f * U + (low * U + (m + k)) = ((f + low) * U + m) + k
    BY <1>14
  <1> QED BY <1>13, <1>15, <1>16, <1>17

\* What the walk returns for a is right for the rest of its page.
LEMMA PageAddress ==
    ASSUME NEW t, Configured(t), NEW mem, NEW G, G \subseteq Entry,
           NEW a \in Nat, NEW k \in Nat, (a + k) \div Units(t) = a \div Units(t),
           NEW i, PageIn(t, mem, G, a, i), NEW e, e = mem[SlotsIn(t, mem, a)[i]], NEW p,
           \/ i = t.levels - 1 /\ p = PhysicalIn(t, e, 0, a)
           \/ i < t.levels - 1 /\ p = PhysicalIn(t, e, (a \div Units(t)) % 2^(Bits * i), a)
    PROVE  AgreesIn(t, ReferenceIn(t, mem, G, a + k), p + k)
  <1> DEFINE r == ReferenceIn(t, mem, G, a + k)
             S == SlotsIn(t, mem, a + k)
  <1>1. t.levels \in 3..5 /\ i \in 0..(t.levels - 1) /\ e \in Entry
    BY ConfiguredTables DEF PageIn
  <1>2. PageIn(t, mem, G, a + k, i)
    BY PageOfPage
  <1>3. SlotsIn(t, mem, a) = S
    BY SlotsOfPage
  <1>4. r = [kind |-> "physical", level |-> i,
             number |-> mem[S[i]].frame \div 2^t.shift,
             at |-> (mem[S[i]].frame \div 2^t.shift) * Units(t)
                       + ((a + k) % (Units(t) * 2^(Bits * (t.levels - 1 - i))))]
    BY <1>1, <1>2, PageResult
  <1>5. r.kind = "physical" /\ r.level = i
        /\ r.number = e.frame \div 2^t.shift
        /\ r.at = (e.frame \div 2^t.shift) * Units(t)
                    + ((a + k) % (Units(t) * 2^(Bits * (t.levels - 1 - i))))
    BY <1>3, <1>4
  <1>6. CASE i = t.levels - 1 /\ p = PhysicalIn(t, e, 0, a)
    <2>1. t.levels - 1 - i = 0
      BY <1>1, <1>6
    <2>2. r.at = p + k
      BY <1>1, <1>5, <1>6, <2>1, LastAddress
    <2> QED BY <1>5, <2>2 DEF AgreesIn
  <1>7. CASE i < t.levels - 1
             /\ p = PhysicalIn(t, e, (a \div Units(t)) % 2^(Bits * i), a)
    <2>1. CASE t.levels = 2 * i + 1 /\ r.number % 2^(Bits * i) = 0
      <3>1. i \in 1..2 /\ t.levels - 1 - i = i
        BY <1>1, <2>1
      <3>2. r.at = p + k
        BY <1>1, <1>5, <1>7, <2>1, <3>1, LargeAddress
      <3> QED BY <1>5, <3>2 DEF AgreesIn
    <2>2. CASE ~(t.levels = 2 * i + 1 /\ r.number % 2^(Bits * i) = 0)
      <3>1. i # t.levels - 1
        BY <1>1, <1>7
      <3> QED BY <1>5, <2>2, <3>1 DEF AgreesIn
    <2> QED BY <2>1, <2>2
  <1> QED BY <1>6, <1>7

-----------------------------------------------------------------------------
(* The pages of a buffer.                                                  *)

FirstPage(t, j) == j.at \div Units(t)
LastPage(t, j) == (j.at + j.length - 1) \div Units(t)
PagesIn(t, j) == {k * Units(t) : k \in FirstPage(t, j)..LastPage(t, j)}

\* The end of the buffer does not wrap around when it is aligned.
EndsBelow(t, j) == j.at + j.length + Units(t) <= AddressMod

IsBuffer(j) == j.at \in Nat /\ j.length \in Nat \ {0}

LEMMA PageBounds ==
    ASSUME NEW t, t.shift \in {0, 2, 4}, NEW j, IsBuffer(j)
    PROVE  FirstPage(t, j) \in Nat /\ LastPage(t, j) \in Nat /\ FirstPage(t, j) <= LastPage(t, j)
  <1>1. PICK U \in Nat \ {0} : U = Units(t)
    BY UnitsPositive
  <1>2. PICK a \in Nat, n \in Nat \ {0} : a = j.at /\ n = j.length
    BY DEF IsBuffer
  <1>3. PICK e \in Nat : e = a + n - 1 /\ a <= e
    OBVIOUS
  <1>4. a \div U \in Nat /\ e \div U \in Nat /\ a \div U <= e \div U
    BY <1>3, DivGrows, DivMod
  <1> QED BY <1>1, <1>2, <1>3, <1>4 DEF FirstPage, LastPage

LEMMA AlignDownIs ==
    ASSUME NEW t, t = mmu, t.shift \in {0, 2, 4}, NEW a \in Nat
    PROVE  AlignDown(a) = (a \div Units(t)) * Units(t) /\ AlignDown(a) \in Nat
           /\ AlignDown(a) \div Units(t) = a \div Units(t) /\ AlignDown(a) <= a
  <1>1. PICK U \in Nat \ {0} : U = Units(t)
    BY UnitsPositive
  <1>2. PICK q \in Nat, r \in 0..(U - 1) : q = a \div U /\ r = a % U /\ a = U * q + r
    BY DivMod
  <1>3. q * U \in Nat /\ U * q = q * U
    OBVIOUS
  <1>4. AlignDown(a) = q * U
    <2>1. AlignDown(a) = a - r
      BY <1>1, <1>2 DEF AlignDown, PageUnits, Units
    <2>2. a - r = U * q
      BY <1>2, <1>3
    <2> QED BY <1>3, <2>1, <2>2
  <1>5. (U * q + 0) \div U = q
    BY DivModOf
  <1>6. (q * U) \div U = q
    BY <1>3, <1>5
  <1>7. q * U <= a
    BY <1>2, <1>3
  <1> QED BY <1>1, <1>2, <1>3, <1>4, <1>6, <1>7

\* The loop of the Validate functions covers the pages of the buffer.
LEMMA CheckedAre ==
    ASSUME NEW t, t = mmu, t.shift \in {0, 2, 4}, NEW j, IsBuffer(j), EndsBelow(t, j)
    PROVE  CheckedPages(j.at, j.length) = PagesIn(t, j)
  <1>1. PICK U \in Nat \ {0} : U = Units(t) /\ U = PageUnits
    BY UnitsPositive DEF Units, PageUnits
  <1>2. PICK a \in Nat, n \in Nat \ {0} : a = j.at /\ n = j.length
    BY DEF IsBuffer
  <1>3. a + n + U <= AddressMod /\ AddressMod \in Nat
    BY <1>1, <1>2, VirtualAssumption DEF EndsBelow
  <1>4. PICK x \in Nat : x = a + n /\ x < AddressMod
    BY <1>3
  <1>5. x % AddressMod = x
    BY <1>3, <1>4
  <1>6. PICK y \in Nat : y = x + U - 1 /\ y < AddressMod
    BY <1>3, <1>4
  <1>7. y % AddressMod = y
    BY <1>3, <1>6
  <1>8. AlignUp((a + n) % AddressMod) = AlignDown(y)
    BY <1>1, <1>4, <1>5, <1>6, <1>7 DEF AlignUp
  <1>9. AlignDown(y) \div U = y \div U
    BY <1>1, AlignDownIs
  <1>10. PICK e \in Nat : e = a + n - 1 /\ y = e + U
    BY <1>4, <1>6
  <1>11. y \div U = (e \div U) + 1 /\ e \div U \in Nat
    <2>1. PICK v \in Nat, w \in 0..(U - 1) : v = e \div U /\ e = U * v + w
      BY DivMod
    <2>2. U * (v + 1) = U * v + U /\ U * v \in Nat
      OBVIOUS
    <2>3. y = U * (v + 1) + w
      BY <1>10, <2>1, <2>2
    <2>4. (U * (v + 1) + w) \div U = v + 1
      BY DivModOf
    <2> QED BY <2>1, <2>3, <2>4
  <1>12. PageOf(AlignUp((a + n) % AddressMod)) - 1 = e \div U
    BY <1>1, <1>8, <1>9, <1>11 DEF PageOf
  <1>13. PageOf(a) = FirstPage(t, j) /\ e \div U = LastPage(t, j)
    BY <1>1, <1>2, <1>10 DEF PageOf, FirstPage, LastPage
  <1> QED BY <1>1, <1>2, <1>12, <1>13 DEF CheckedPages, PagesIn

LEMMA TouchedAre ==
    ASSUME NEW t, t = mmu, t.shift \in {0, 2, 4}, IsBuffer(job)
    PROVE  Touched = PagesIn(t, job)
  <1>1. PICK U \in Nat \ {0} : U = Units(t)
    BY UnitsPositive
  <1>2. PICK a \in Nat, n \in Nat \ {0} : a = job.at /\ n = job.length
    BY DEF IsBuffer
  <1>3. PICK e \in Nat : e = a + n - 1
    OBVIOUS
  <1>4. FirstPage(t, job) = a \div U /\ LastPage(t, job) = e \div U
        /\ a \div U \in Nat /\ e \div U \in Nat
    BY <1>1, <1>2, <1>3, DivMod DEF FirstPage, LastPage
  <1>5. ASSUME NEW k \in 0..(n - 1)
        PROVE  AlignDown(a + k) \in PagesIn(t, job)
    <2>1. PICK x \in Nat : x = a + k /\ a <= x /\ x <= e
      BY <1>3
    <2>2. AlignDown(x) = (x \div U) * U
      BY <1>1, AlignDownIs
    <2>3. x \div U \in Nat /\ a \div U <= x \div U /\ x \div U <= e \div U
      BY <2>1, DivGrows, DivMod
    <2>4. x \div U \in FirstPage(t, job)..LastPage(t, job)
      BY <1>4, <2>3
    <2> QED BY <1>1, <2>1, <2>2, <2>4 DEF PagesIn
  <1>6. ASSUME NEW q \in FirstPage(t, job)..LastPage(t, job)
        PROVE  \E k \in 0..(n - 1) : AlignDown(a + k) = q * U
    <2>1. q \in Nat /\ a \div U <= q /\ q <= e \div U
      BY <1>4
    <2>2. PICK qa \in Nat, ra \in 0..(U - 1) : qa = a \div U /\ a = U * qa + ra
      <3>1. a = U * (a \div U) + (a % U) /\ a % U \in 0..(U - 1) /\ a \div U \in Nat
        BY DivMod
      <3> QED BY <3>1
    <2>3. PICK qe \in Nat, re \in 0..(U - 1) : qe = e \div U /\ e = U * qe + re
      <3>1. e = U * (e \div U) + (e % U) /\ e % U \in 0..(U - 1) /\ e \div U \in Nat
        BY DivMod
      <3> QED BY <3>1
    <2>4. PICK z \in Nat : z = U * q /\ z = q * U
      BY <2>1
    <2>5. z <= e
      <3>1. U * q <= U * qe
        BY <2>1, <2>3
      <3>2. U * qe \in Nat
        OBVIOUS
      <3> QED BY <2>3, <2>4, <3>1, <3>2
    <2>6. CASE a <= z
      <3>1. z - a \in 0..(n - 1) /\ a + (z - a) = z
        BY <1>3, <2>5, <2>6
      <3>2. (U * q + 0) \div U = q
        BY <2>1, DivModOf
      <3>3. AlignDown(z) = (z \div U) * U
        BY <1>1, AlignDownIs
      <3>4. U * q + 0 = z
        BY <2>4
      <3>5. AlignDown(z) = q * U
        BY <3>2, <3>3, <3>4
      <3> QED BY <3>1, <3>5
    <2>7. CASE z < a
      <3>1. q = qa
        <4> SUFFICES ASSUME qa + 1 <= q
                     PROVE  FALSE
          BY <2>1, <2>2
        <4>1. U * (qa + 1) <= U * q
          BY <2>1
        <4>2. U * (qa + 1) = U * qa + U /\ U * qa \in Nat
          OBVIOUS
        <4> QED BY <2>2, <2>4, <2>7, <4>1, <4>2
      <3>2. CASE qa = q
        <4>1. AlignDown(a) = (a \div U) * U
          BY <1>1, AlignDownIs
        <4>2. 0 \in 0..(n - 1) /\ a + 0 = a
          OBVIOUS
        <4> QED BY <2>2, <3>2, <4>1, <4>2
      <3> QED BY <3>1, <3>2
    <2> QED BY <2>4, <2>6, <2>7
  <1>7. Touched = {AlignDown(a + k) : k \in 0..(n - 1)}
    BY <1>2 DEF Touched
  <1>8. PagesIn(t, job) = {q * U : q \in FirstPage(t, job)..LastPage(t, job)}
    BY <1>1 DEF PagesIn
  <1>9. PagesIn(t, job) \subseteq Touched
    BY <1>6, <1>7, <1>8
  <1>10. Touched \subseteq PagesIn(t, job)
    BY <1>5, <1>7
  <1> QED BY <1>9, <1>10

-----------------------------------------------------------------------------
(* What a walk has shown so far, and what its end says.                    *)

\* Before the access the pages of the buffer are translated one by one; those
\* already translated may be used.
CheckedIn(t, mem, G, j, s, a) ==
    /\ ~s => a = j.at
    /\ ~j.checked => ~s
    /\ j.checked /\ EndsBelow(t, j) =>
          IF s THEN \E q \in FirstPage(t, j)..LastPage(t, j) :
                       /\ a = q * Units(t)
                       /\ \A k \in FirstPage(t, j)..(q - 1) : HasPage(t, mem, G, k * Units(t))
               ELSE \A k \in FirstPage(t, j)..LastPage(t, j) : HasPage(t, mem, G, k * Units(t))

AccessedIn(t, mem, G, j, o) ==
    ~j.checked =>
        IF o.kind = "physical"
        THEN \A k \in 0..(j.length - 1) :
                (j.at + k) \div Units(t) = j.at \div Units(t) =>
                    AgreesIn(t, ReferenceIn(t, mem, G, j.at + k), o.at + k)
        ELSE o = [kind |-> ReferenceIn(t, mem, G, j.at).kind,
                  at   |-> ReferenceIn(t, mem, G, j.at).at]

Denying(t, mem, G, j) == {p \in PagesIn(t, j) : ReferenceIn(t, mem, G, p).kind # "physical"}
FirstDenying(t, mem, G, j) ==
    CHOOSE p \in Denying(t, mem, G, j) : \A q \in Denying(t, mem, G, j) : p <= q

ValidatedIn(t, mem, G, j, o) ==
    j.checked /\ EndsBelow(t, j) =>
        LET r == ReferenceIn(t, mem, G, FirstDenying(t, mem, G, j))
        IN  IF Denying(t, mem, G, j) = {} THEN o.kind = "physical"
            ELSE IF r.kind = "violation" THEN o.kind = "refused"
            ELSE o = [kind |-> "unmapped", at |-> r.at]

LEMMA CheckedStays ==
    ASSUME NEW t, t.levels \in 3..5, NEW mem, NEW new, Extends(new, mem), NEW G, NEW j, NEW s,
           NEW a, CheckedIn(t, mem, G, j, s, a)
    PROVE  CheckedIn(t, new, G, j, s, a)
  <1>1. \A p : HasPage(t, mem, G, p) => HasPage(t, new, G, p)
    BY PagesStay
  <1> QED BY <1>1 DEF CheckedIn

\* The walk ends with an exception, or the check with a refusal.
LEMMA WalkDenied ==
    ASSUME NEW t, t.levels \in 3..5, t.shift \in {0, 2, 4}, NEW mem, NEW G, NEW j, IsBuffer(j),
           NEW s, NEW a, CheckedIn(t, mem, G, j, s, a),
           NEW r, r = ReferenceIn(t, mem, G, a), r.kind \in {"unmapped", "violation"}, NEW o,
           o = IF r.kind = "violation" /\ s THEN [kind |-> "refused", at |-> 0]
               ELSE [kind |-> r.kind, at |-> r.at]
    PROVE  AccessedIn(t, mem, G, j, o) /\ ValidatedIn(t, mem, G, j, o)
  <1>1. AccessedIn(t, mem, G, j, o)
    BY DEF AccessedIn, CheckedIn
  <1>2. ASSUME j.checked, EndsBelow(t, j)
        PROVE  LET x == ReferenceIn(t, mem, G, FirstDenying(t, mem, G, j))
               IN  IF Denying(t, mem, G, j) = {} THEN o.kind = "physical"
                   ELSE IF x.kind = "violation" THEN o.kind = "refused"
                   ELSE o = [kind |-> "unmapped", at |-> x.at]
    <2>1. PICK U \in Nat \ {0} : U = Units(t)
      BY UnitsPositive
    <2>2. PICK f \in Nat, l \in Nat : f = FirstPage(t, j) /\ l = LastPage(t, j) /\ f <= l
      BY PageBounds
    <2>3. s
      <3> SUFFICES ASSUME ~s
                   PROVE  FALSE
        OBVIOUS
      <3>1. a = j.at /\ HasPage(t, mem, G, f * U)
        BY <1>2, <2>1, <2>2 DEF CheckedIn
      <3>2. j.at \in Nat /\ f = j.at \div U
        BY <2>1, <2>2 DEF FirstPage, IsBuffer
      <3>3. (U * f + 0) \div U = f /\ U * f + 0 = f * U
        BY DivModOf
      <3>4. (f * U) \div Units(t) = a \div Units(t)
        BY <2>1, <3>1, <3>2, <3>3
      <3>5. HasPage(t, mem, G, a)
        BY <3>1, <3>4, PageOfPage DEF HasPage
      <3> QED BY <3>5, PageIsPhysical
    <2>4. PICK q \in f..l : a = q * U /\ \A k \in f..(q - 1) : HasPage(t, mem, G, k * U)
      BY <1>2, <2>1, <2>2, <2>3 DEF CheckedIn
    <2> DEFINE D == Denying(t, mem, G, j)
    <2>5. a \in D
      BY <2>1, <2>2, <2>4 DEF Denying, PagesIn
    <2>6. ASSUME NEW p \in D
          PROVE  a <= p /\ p \in Nat
      <3>1. PICK k \in f..l : p = k * U /\ ReferenceIn(t, mem, G, p).kind # "physical"
        BY <2>1, <2>2 DEF Denying, PagesIn
      <3>2. ~(k \in f..(q - 1))
        BY <2>4, <3>1, PageIsPhysical
      <3>3. q <= k /\ q \in Nat /\ k \in Nat
        BY <3>2
      <3>4. q * U <= k * U /\ k * U \in Nat
        BY <3>3
      <3> QED BY <2>4, <3>1, <3>4
    <2> HIDE DEF D
    <2>7. \A p \in D : (\A x \in D : p <= x) <=> p = a
      BY <2>5, <2>6
    <2>8. (CHOOSE p \in D : \A x \in D : p <= x) = a
      BY <2>5, <2>7
    <2>9. FirstDenying(t, mem, G, j) = a
      BY <2>8 DEF FirstDenying, D
    <2> QED BY <2>3, <2>5, <2>9 DEF D
  <1> QED BY <1>1, <1>2 DEF ValidatedIn

\* The access itself is translated.
LEMMA WalkEnds ==
    ASSUME NEW t, Configured(t), NEW mem, NEW G, G \subseteq Entry,
           NEW j, IsBuffer(j), NEW a, CheckedIn(t, mem, G, j, FALSE, a),
           NEW i, PageIn(t, mem, G, a, i), NEW e, e = mem[SlotsIn(t, mem, a)[i]], NEW p,
           \/ i = t.levels - 1 /\ p = PhysicalIn(t, e, 0, a)
           \/ i < t.levels - 1 /\ p = PhysicalIn(t, e, (a \div Units(t)) % 2^(Bits * i), a),
           NEW o, o = [kind |-> "physical", at |-> p]
    PROVE  AccessedIn(t, mem, G, j, o) /\ ValidatedIn(t, mem, G, j, o)
  <1>1. a = j.at /\ a \in Nat /\ t.levels \in 3..5
    BY ConfiguredTables DEF CheckedIn, IsBuffer
  <1>2. ASSUME NEW k \in 0..(j.length - 1), (a + k) \div Units(t) = a \div Units(t)
        PROVE  AgreesIn(t, ReferenceIn(t, mem, G, a + k), p + k)
    <2>1. k \in Nat
      BY DEF IsBuffer
    <2> QED BY <1>1, <1>2, <2>1, PageAddress
  <1>3. AccessedIn(t, mem, G, j, o)
    BY <1>1, <1>2 DEF AccessedIn
  <1>4. ASSUME j.checked, EndsBelow(t, j)
        PROVE  Denying(t, mem, G, j) = {}
    <2>1. \A k \in FirstPage(t, j)..LastPage(t, j) :
             ReferenceIn(t, mem, G, k * Units(t)).kind = "physical"
      BY <1>1, <1>4, PageIsPhysical DEF CheckedIn
    <2> QED BY <2>1 DEF Denying, PagesIn
  <1> QED BY <1>3, <1>4 DEF ValidatedIn

\* A page has been checked: the next one follows, or the access.
LEMMA WalkContinues ==
    ASSUME NEW t, t.levels \in 3..5, t.shift \in {0, 2, 4}, NEW mem, NEW G, NEW j, IsBuffer(j),
           NEW a, CheckedIn(t, mem, G, j, TRUE, a), HasPage(t, mem, G, a), NEW more \in BOOLEAN,
           EndsBelow(t, j) => (more <=> a + Units(t) \in PagesIn(t, j))
    PROVE  IF more THEN CheckedIn(t, mem, G, j, TRUE, a + Units(t))
                   ELSE CheckedIn(t, mem, G, j, FALSE, j.at)
  <1>1. j.checked
    BY DEF CheckedIn
  <1>2. CASE ~EndsBelow(t, j)
    BY <1>1, <1>2 DEF CheckedIn
  <1>3. CASE EndsBelow(t, j)
    <2>1. PICK U \in Nat \ {0} : U = Units(t)
      BY UnitsPositive
    <2>2. PICK f \in Nat, l \in Nat : f = FirstPage(t, j) /\ l = LastPage(t, j) /\ f <= l
      BY PageBounds
    <2>3. PICK q \in f..l : a = q * U /\ \A k \in f..(q - 1) : HasPage(t, mem, G, k * U)
      BY <1>1, <1>3, <2>1, <2>2 DEF CheckedIn
    <2>4. \A k \in f..q : HasPage(t, mem, G, k * U)
      <3>1. \A k \in f..q : k = q \/ k \in f..(q - 1)
        OBVIOUS
      <3> QED BY <2>3, <3>1
    <2>5. a + U = (q + 1) * U
      <3>1. q \in Nat
        OBVIOUS
      <3>2. (q + 1) * U = q * U + U
        BY <3>1
      <3> QED BY <2>3, <3>2
    <2>6. more <=> q + 1 \in f..l
      <3>1. PagesIn(t, j) = {k * U : k \in f..l}
        BY <2>1, <2>2 DEF PagesIn
      <3>2. ASSUME NEW k \in f..l, (q + 1) * U = k * U
            PROVE  k = q + 1
        <4>1. PICK x \in Nat : x = q + 1
          OBVIOUS
        <4>2. k \in Nat /\ (U * k + 0) \div U = k /\ (U * x + 0) \div U = x
          BY DivModOf
        <4>3. U * k + 0 = k * U /\ U * x + 0 = x * U
          BY <4>2
        <4> QED BY <3>2, <4>1, <4>2, <4>3
      <3> QED BY <1>3, <2>1, <2>5, <3>1, <3>2
    <2>7. CASE more
      <3>1. q + 1 \in f..l /\ (q + 1) - 1 = q
        BY <2>6, <2>7
      <3> QED BY <1>1, <2>1, <2>2, <2>4, <2>5, <2>7, <3>1 DEF CheckedIn
    <2>8. CASE ~more
      <3>1. q = l
        BY <2>6, <2>8
      <3> QED BY <1>1, <2>1, <2>2, <2>4, <2>8, <3>1 DEF CheckedIn
    <2> QED BY <2>7, <2>8
  <1> QED BY <1>2, <1>3

-----------------------------------------------------------------------------
(* The invariant of the walk over the tables.                              *)

Granted == GrantIn(protected, user, job.mode)

TypedInv ==
    /\ \A u \in DOMAIN memory : memory[u] \in Entry
    /\ IsBuffer(job) /\ at \in Nat
    /\ mmu.shift \in {0, 2, 4} /\ mmu.levels \in 3..5
    /\ paging => Configured(mmu)
    /\ pc = "walk" => paging /\ outcome = NoOutcome

\* The levels above have let the walk pass.
PathInv == pc = "walk" => PathIn(mmu, memory, Granted, at, level, table)

\* The pages before this one may be used.
CheckInv == pc = "walk" => CheckedIn(mmu, memory, Granted, job, safe, at)

\* The last access ended as the tables, which have not changed since, say.
EndInv ==
    outcome.kind # "none" =>
        /\ pc = "idle"
        /\ AccessedIn(mmu, memory, Granted, job, outcome)
        /\ ValidatedIn(mmu, memory, Granted, job, outcome)

TablesInv == TypedInv /\ PathInv /\ CheckInv /\ EndInv

LEMMA InitTables ==
    ASSUME WalkInit
    PROVE  TablesInv
  <1>1. TypedInv
    BY DEF WalkInit, TypedInv, IsBuffer
  <1>2. pc = "idle" /\ outcome = NoOutcome
    BY DEF WalkInit
  <1> QED BY <1>1, <1>2 DEF TablesInv, PathInv, CheckInv, EndInv, NoOutcome

\* The guest changes something: no access is under way, and none has ended.
LEMMA Quiet ==
    ASSUME TypedInv', pc' = "idle", outcome' = NoOutcome
    PROVE  TablesInv'
  BY DEF TablesInv, PathInv, CheckInv, EndInv, NoOutcome

LEMMA WriteCR0Step ==
    ASSUME TablesInv, RootInv, NEW c \in Control, WriteCR0(c)
    PROVE  TablesInv'
  <1>1. UNCHANGED <<memory, job, at, pc>> /\ pc = "idle" /\ outcome' = NoOutcome
    BY DEF WriteCR0, Operates, Unchecked, walk
  <1>2. c.paging \in BOOLEAN /\ c.shift \in {0, 2, 4} /\ c.levels \in 3..5
    BY VirtualAssumption
  <1>3. CASE mmu' = mmu /\ (paging' => paging)
    <2>1. TypedInv'
      BY <1>1, <1>3 DEF TablesInv, TypedInv
    <2> QED BY <1>1, <2>1, Quiet
  <1>4. CASE mmu' = [root |-> cr3, shift |-> c.shift, levels |-> c.levels]
    <2>1. mmu'.shift = c.shift /\ mmu'.levels = c.levels
      BY <1>4
    <2>2. Configured(mmu')
      BY <1>4, <2>1 DEF Configured
    <2>3. TypedInv'
      BY <1>1, <1>2, <2>1, <2>2 DEF TablesInv, TypedInv
    <2> QED BY <1>1, <2>3, Quiet
  <1>5. CASE mmu' = [mmu EXCEPT !.root = cr3] /\ paging
    <2>1. mmu'.shift = mmu.shift /\ mmu'.levels = mmu.levels
      BY <1>5 DEF RootInv
    <2>2. Configured(mmu')
      BY <1>5, <2>1 DEF Configured, TablesInv, TypedInv
    <2>3. TypedInv'
      BY <1>1, <2>1, <2>2 DEF TablesInv, TypedInv
    <2> QED BY <1>1, <2>3, Quiet
  <1>6. \/ mmu' = mmu /\ (paging' => paging)
        \/ mmu' = [root |-> cr3, shift |-> c.shift, levels |-> c.levels]
        \/ mmu' = [mmu EXCEPT !.root = cr3] /\ paging
    BY <1>2 DEF WriteCR0
  <1> QED BY <1>3, <1>4, <1>5, <1>6

LEMMA GuestStep ==
    ASSUME TablesInv, RootInv, Guest
    PROVE  TablesInv'
  <1>1. ASSUME NEW c \in Control, WriteCR0(c)
        PROVE  TablesInv'
    BY <1>1, WriteCR0Step
  <1>2. ASSUME NEW r \in Root, WriteCR3(r)
        PROVE  TablesInv'
    <2>1. UNCHANGED <<memory, job, at, pc, paging>> /\ pc = "idle" /\ outcome' = NoOutcome
      BY <1>2 DEF WriteCR3, Operates, Unchecked, walk
    <2>2. mmu'.shift = mmu.shift /\ mmu'.levels = mmu.levels
      BY <1>2 DEF WriteCR3, RootInv
    <2>3. TypedInv'
      BY <2>1, <2>2 DEF TablesInv, TypedInv, Configured
    <2> QED BY <2>1, <2>3, Quiet
  <1>3. CASE ChangeUser
    <2>1. UNCHANGED <<memory, job, at, pc, paging, mmu>> /\ pc = "idle" /\ outcome' = NoOutcome
      BY <1>3 DEF ChangeUser, Operates, Unchecked, walk, regs
    <2>2. TypedInv'
      BY <2>1 DEF TablesInv, TypedInv
    <2> QED BY <2>1, <2>2, Quiet
  <1>4. ASSUME NEW u \in DOMAIN memory, Rewrite(u)
        PROVE  TablesInv'
    <2>1. UNCHANGED <<job, at, pc, paging, mmu>> /\ pc = "idle" /\ outcome' = NoOutcome
      BY <1>4 DEF Rewrite, Operates, Unchecked, walk, regs
    <2>2. memory' = [v \in DOMAIN memory \ {u} |-> memory[v]]
      BY <1>4 DEF Rewrite, Restrict
    <2>3. TypedInv'
      BY <2>1, <2>2 DEF TablesInv, TypedInv
    <2> QED BY <2>1, <2>3, Quiet
  <1>5. ASSUME NEW a \in Address, NEW n \in Length, NEW m \in Mode,
               Load(a, n, m) \/ Access(a, n, m)
        PROVE  TablesInv'
    <2>1. a \in Nat /\ n \in Nat \ {0}
      BY VirtualAssumption
    <2>2. /\ UNCHANGED <<memory, mmu, paging>> /\ paging
          /\ pc' = "walk" /\ outcome' = NoOutcome /\ level' = 0
          /\ job'.at = a /\ job'.length = n
      BY <1>5 DEF Load, Access, Translate, regs
    <2>3. IsBuffer(job')
      BY <2>1, <2>2 DEF IsBuffer
    <2>4. AlignDown(a) = (a \div Units(mmu)) * Units(mmu) /\ AlignDown(a) \in Nat
      BY <2>1, AlignDownIs DEF TablesInv, TypedInv
    <2>5. at' \in Nat
      BY <1>5, <2>1, <2>4 DEF Load, Access, Translate
    <2>6. TypedInv'
      BY <2>2, <2>3, <2>5 DEF TablesInv, TypedInv
    <2>7. PathInv'
      <3>1. mmu'.levels \in 3..5
        BY <2>6 DEF TypedInv
      <3> QED BY <2>2, <3>1 DEF PathInv, PathIn
    <2>8. CheckedIn(mmu', memory', Granted', job', safe', at')
      <3>1. CASE Access(a, n, m)
        BY <3>1 DEF Access, Translate, CheckedIn
      <3>2. CASE Load(a, n, m)
        <4>1. job'.checked
          BY <3>2 DEF Load
        <4>2. safe' => at' = AlignDown(a)
          BY <3>2 DEF Load, Translate
        <4>3. ~safe' => at' = a /\ CheckedPages(a, n) = {}
          BY <3>2 DEF Load, Translate
        <4>4. ASSUME EndsBelow(mmu', job')
              PROVE  safe' /\ \E q \in FirstPage(mmu', job')..LastPage(mmu', job') :
                       /\ at' = q * Units(mmu')
                       /\ \A k \in FirstPage(mmu', job')..(q - 1) :
                              HasPage(mmu', memory', Granted', k * Units(mmu'))
          <5>1. PICK f \in Nat, l \in Nat :
                    f = FirstPage(mmu', job') /\ l = LastPage(mmu', job') /\ f <= l
            BY <2>3, <2>6, PageBounds DEF TypedInv
          <5>2. f \in f..l /\ f..(f - 1) = {}
            BY <5>1
          <5>3. CheckedPages(a, n) = PagesIn(mmu', job')
            <6>1. mmu' = mmu /\ mmu'.shift \in {0, 2, 4}
              BY <2>2, <2>6 DEF TypedInv
            <6>2. CheckedPages(job'.at, job'.length) = PagesIn(mmu', job')
              BY <2>3, <4>4, <6>1, CheckedAre
            <6> QED BY <2>2, <6>2
          <5>4. CheckedPages(a, n) # {}
            BY <5>1, <5>2, <5>3 DEF PagesIn
          <5>5. safe'
            BY <4>3, <5>4
          <5>6. at' = f * Units(mmu')
            BY <2>2, <2>4, <4>2, <5>1, <5>5 DEF FirstPage
          <5> QED BY <5>1, <5>2, <5>5, <5>6
        <4> QED BY <2>2, <4>1, <4>3, <4>4 DEF CheckedIn
      <3> QED BY <1>5, <3>1, <3>2
    <2> QED BY <2>2, <2>6, <2>7, <2>8 DEF TablesInv, CheckInv, EndInv, NoOutcome
  <1> QED BY <1>1, <1>2, <1>3, <1>4, <1>5 DEF Guest

LEMMA GrantedIs ==
    /\ Granted \subseteq Entry
    /\ \A e \in Entry : Allows(e, job.mode) <=> e \in Granted
  BY DEF Granted, GrantIn, Allows

\* TranslateAddress returns: the buffer is checked on, or the access ends.
LEMMA ReturnStep ==
    ASSUME TablesInv, pc = "walk", UNCHANGED <<regs, user>>, Extends(memory', memory),
           \A u \in DOMAIN memory' : memory'[u] \in Entry,
           NEW i, PageIn(mmu, memory', Granted, at, i),
           NEW e, e = memory'[SlotsIn(mmu, memory', at)[i]], NEW p,
           \/ i = mmu.levels - 1 /\ p = PhysicalIn(mmu, e, 0, at)
           \/ i < mmu.levels - 1
              /\ p = PhysicalIn(mmu, e, (at \div Units(mmu)) % 2^(Bits * i), at),
           Return(p)
    PROVE  TablesInv'
  <1>1. /\ mmu.shift \in {0, 2, 4} /\ mmu.levels \in 3..5 /\ Configured(mmu)
        /\ IsBuffer(job) /\ at \in Nat /\ outcome = NoOutcome /\ paging
    BY DEF TablesInv, TypedInv
  <1>2. UNCHANGED <<mmu, paging, protected, user, job>>
    BY DEF Return, End, regs
  <1>3. Granted' = Granted
    BY <1>2 DEF Granted
  <1>4. CheckedIn(mmu, memory', Granted, job, safe, at)
    <2>1. CheckedIn(mmu, memory, Granted, job, safe, at)
      BY DEF TablesInv, CheckInv
    <2> QED BY <1>1, <2>1, CheckedStays
  <1>5. CASE ~safe
    <2>1. outcome' = [kind |-> "physical", at |-> p] /\ pc' = "idle" /\ at' = at
      BY <1>5 DEF Return, End
    <2>2. CheckedIn(mmu, memory', Granted, job, FALSE, at)
      BY <1>4, <1>5 DEF CheckedIn
    <2>3. AccessedIn(mmu, memory', Granted, job, outcome')
          /\ ValidatedIn(mmu, memory', Granted, job, outcome')
      BY <1>1, <2>1, <2>2, GrantedIs, WalkEnds
    <2>4. EndInv'
      BY <1>2, <1>3, <2>1, <2>3 DEF EndInv
    <2>5. TypedInv'
      BY <1>1, <1>2, <2>1 DEF TypedInv
    <2> QED BY <2>1, <2>4, <2>5 DEF TablesInv, PathInv, CheckInv
  <1>6. CASE safe
    <2> DEFINE more == at + PageUnits \in CheckedPages(job.at, job.length)
    <2>1. /\ pc' = "walk" /\ outcome' = NoOutcome /\ level' = 0
          /\ more => at' = at + PageUnits /\ safe'
          /\ ~more => at' = job.at /\ ~safe'
      BY <1>1, <1>6 DEF Return, Translate
    <2>2. PageUnits = Units(mmu) /\ Units(mmu) \in Nat
      BY <1>1, UnitsPositive DEF PageUnits, Units
    <2>3. EndsBelow(mmu, job) => CheckedPages(job.at, job.length) = PagesIn(mmu, job)
      BY <1>1, CheckedAre
    <2>4. EndsBelow(mmu, job) => (more <=> at + Units(mmu) \in PagesIn(mmu, job))
      BY <2>2, <2>3
    <2>5. CheckedIn(mmu, memory', Granted, job, TRUE, at)
      BY <1>4, <1>6 DEF CheckedIn
    <2>6. HasPage(mmu, memory', Granted, at)
      BY DEF HasPage, PageIn
    <2>7. more \in BOOLEAN
      OBVIOUS
    <2> HIDE DEF more
    <2>8. IF more THEN CheckedIn(mmu, memory', Granted, job, TRUE, at + Units(mmu))
                  ELSE CheckedIn(mmu, memory', Granted, job, FALSE, job.at)
      BY <1>1, <2>4, <2>5, <2>6, <2>7, WalkContinues
    <2>9. CheckedIn(mmu, memory', Granted, job, safe', at')
      BY <2>1, <2>2, <2>8 DEF CheckedIn
    <2>10. at' \in Nat
      BY <1>1, <2>1, <2>2 DEF IsBuffer
    <2>11. TypedInv'
      BY <1>1, <1>2, <2>1, <2>10 DEF TypedInv
    <2>12. PathIn(mmu, memory', Granted, at', level', table')
      BY <1>1, <2>1 DEF PathIn
    <2> QED BY <1>2, <1>3, <2>1, <2>9, <2>11, <2>12
            DEF TablesInv, PathInv, CheckInv, EndInv, NoOutcome
  <1> QED BY <1>5, <1>6

\* TranslateAddress ends with an exception, or with a refusal.
LEMMA EndStep ==
    ASSUME TablesInv, pc = "walk", UNCHANGED <<regs, user>>, Extends(memory', memory),
           \A u \in DOMAIN memory' : memory'[u] \in Entry,
           NEW r, r = ReferenceIn(mmu, memory', Granted, at), r.kind \in {"unmapped", "violation"},
           NEW k, NEW u, End(k, u),
           IF r.kind = "violation" /\ safe THEN k = "refused" /\ u = 0
                                           ELSE k = r.kind /\ u = r.at
    PROVE  TablesInv'
  <1>1. /\ mmu.shift \in {0, 2, 4} /\ mmu.levels \in 3..5 /\ IsBuffer(job)
    BY DEF TablesInv, TypedInv
  <1>2. UNCHANGED <<mmu, paging, protected, user, job, at>> /\ pc' = "idle"
    BY DEF End, regs
  <1>3. Granted' = Granted
    BY <1>2 DEF Granted
  <1>4. CheckedIn(mmu, memory', Granted, job, safe, at)
    <2>1. CheckedIn(mmu, memory, Granted, job, safe, at)
      BY DEF TablesInv, CheckInv
    <2> QED BY <1>1, <2>1, CheckedStays
  <1>5. outcome' = IF r.kind = "violation" /\ safe THEN [kind |-> "refused", at |-> 0]
                   ELSE [kind |-> r.kind, at |-> r.at]
    BY DEF End
  <1>6. AccessedIn(mmu, memory', Granted, job, outcome')
        /\ ValidatedIn(mmu, memory', Granted, job, outcome')
    BY <1>1, <1>4, <1>5, WalkDenied
  <1>7. TypedInv'
    BY <1>1, <1>2 DEF TypedInv, TablesInv
  <1> QED BY <1>2, <1>3, <1>6, <1>7 DEF TablesInv, PathInv, CheckInv, EndInv

LEMMA TranslateStep ==
    ASSUME TablesInv, TranslateAddress
    PROVE  TablesInv'
  <1>1. /\ pc = "walk" /\ UNCHANGED <<regs, user>> /\ mmu' = mmu
        /\ mmu.shift \in {0, 2, 4} /\ mmu.levels \in 3..5
        /\ PathIn(mmu, memory, Granted, at, level, table)
    BY DEF TablesInv, TypedInv, PathInv, TranslateAddress, LargePage, Unmapped, Deny,
       Descend, LastLevel, Fetch, Reads, Walks, regs
  <1>2. SlotIn(mmu, at, level, table) = Slot
    BY DEF SlotIn, Slot, Index, IndexIn, PageOf, PageUnits, Units
  <1>3. \A e, f : Physical(e, f, at) = PhysicalIn(mmu, e, f, at)
    BY DEF Physical, PhysicalIn, PageUnits, Units
  <1>4. CASE LargePage
    <2>1. level > 0 /\ table.lowest /\ memory' = memory
          /\ Return(Physical(table, PageOf(at) % 2^(Bits * (level - 1)), at))
      BY <1>4 DEF LargePage
    <2>2. PageIn(mmu, memory, Granted, at, level - 1)
          /\ table = memory[SlotsIn(mmu, memory, at)[level - 1]]
      BY <1>1, <2>1, PathPage
    <2>3. level - 1 < mmu.levels - 1
      BY <1>1 DEF PathIn
    <2>4. Extends(memory', memory) /\ \A u \in DOMAIN memory' : memory'[u] \in Entry
      BY <2>1 DEF Extends, TablesInv, TypedInv
    <2>5. PICK i : i = level - 1
      OBVIOUS
    <2>6. PICK p : p = PhysicalIn(mmu, table, (at \div Units(mmu)) % 2^(Bits * i), at)
      OBVIOUS
    <2>7. Return(p)
      BY <1>3, <2>1, <2>5, <2>6 DEF PageOf, PageUnits, Units
    <2> QED BY <1>1, <2>1, <2>2, <2>3, <2>4, <2>5, <2>6, <2>7, ReturnStep
  <1>5. CASE Unmapped
    <2>1. ~(level > 0 /\ table.lowest) /\ Slot \notin Mapped /\ memory' = memory
          /\ End("unmapped", Slot)
      BY <1>5 DEF Unmapped, Reads
    <2>2. PICK r : r = ReferenceIn(mmu, memory, Granted, at)
      OBVIOUS
    <2>3. r = [kind |-> "unmapped", at |-> Slot, level |-> level]
      BY <1>1, <1>2, <2>1, <2>2, PathUnmapped
    <2>4. Extends(memory', memory) /\ \A u \in DOMAIN memory' : memory'[u] \in Entry
      BY <2>1 DEF Extends, TablesInv, TypedInv
    <2>5. r.kind = "unmapped" /\ r.at = Slot
      BY <2>3
    <2> QED BY <1>1, <2>1, <2>2, <2>4, <2>5, EndStep
  <1>6. ASSUME Fetch
        PROVE  /\ ~(level > 0 /\ table.lowest) /\ Slot \in Mapped /\ table' \in Entry
               /\ Extends(memory', memory) /\ Slot \in DOMAIN memory' /\ memory'[Slot] = table'
               /\ \A u \in DOMAIN memory' : memory'[u] \in Entry
    <2>1. PICK f \in Entry : /\ Slot \in DOMAIN memory => f = memory[Slot]
                             /\ memory' = WithEntry(memory, Slot, f) /\ table' = f
      BY <1>6 DEF Fetch, WithEntry
    <2>2. Extends(memory', memory) /\ Slot \in DOMAIN memory' /\ memory'[Slot] = table'
      BY <2>1, EntryExtends
    <2>3. \A u \in DOMAIN memory' : memory'[u] \in Entry
      BY <2>1 DEF WithEntry, TablesInv, TypedInv
    <2> QED BY <1>6, <2>1, <2>2, <2>3 DEF Fetch, Reads
  <1>7. CASE Deny
    <2>0. Fetch
      BY <1>7 DEF Deny
    <2>1. table' \notin Granted /\ End(IF safe THEN "refused" ELSE "violation", IF safe THEN 0 ELSE at)
      BY <1>6, <1>7, <2>0, GrantedIs DEF Deny
    <2>2. PICK r : r = ReferenceIn(mmu, memory', Granted, at)
      OBVIOUS
    <2>3. r = [kind |-> "violation", at |-> at, level |-> level]
      BY <1>1, <1>2, <1>6, <2>0, <2>1, <2>2, PathDenied
    <2>4. r.kind = "violation" /\ r.at = at
      BY <2>3
    <2>5. PICK k, u : k = (IF safe THEN "refused" ELSE "violation") /\ u = (IF safe THEN 0 ELSE at)
      OBVIOUS
    <2>6. End(k, u)
      BY <2>1, <2>5
    <2> QED BY <1>1, <1>6, <2>0, <2>2, <2>4, <2>5, <2>6, EndStep
  <1>8. CASE Descend
    <2>0. Fetch
      BY <1>8 DEF Descend
    <2>1. /\ table' \in Granted /\ level < mmu.levels - 1 /\ level' = level + 1
          /\ UNCHANGED <<job, safe, at, pc, outcome>>
      BY <1>6, <1>8, <2>0, GrantedIs DEF Descend
    <2>2. PathIn(mmu, memory', Granted, at, level + 1, table')
      BY <1>1, <1>2, <1>6, <2>0, <2>1, PathDescends
    <2>3. Granted' = Granted /\ UNCHANGED <<mmu, paging>>
      BY <1>1, <2>1 DEF Granted, regs
    <2>4. CheckedIn(mmu, memory', Granted, job, safe, at)
      <3>1. CheckedIn(mmu, memory, Granted, job, safe, at)
        BY <1>1 DEF TablesInv, CheckInv
      <3> QED BY <1>1, <1>6, <2>0, <3>1, CheckedStays
    <2>5. TypedInv'
      BY <1>6, <2>0, <2>1, <2>3 DEF TablesInv, TypedInv
    <2>6. outcome' = NoOutcome
      BY <1>1, <2>1 DEF TablesInv, TypedInv
    <2> QED BY <2>1, <2>2, <2>3, <2>4, <2>5, <2>6
            DEF TablesInv, PathInv, CheckInv, EndInv, NoOutcome
  <1>9. CASE LastLevel
    <2>0. Fetch
      BY <1>9 DEF LastLevel
    <2>1. table' \in Granted /\ level = mmu.levels - 1 /\ Return(Physical(table', 0, at))
      BY <1>6, <1>9, <2>0, GrantedIs DEF LastLevel
    <2>2. PageIn(mmu, memory', Granted, at, level)
          /\ table' = memory'[SlotsIn(mmu, memory', at)[level]]
      BY <1>1, <1>2, <1>6, <2>0, <2>1, PathEnds
    <2>3. PICK p : p = PhysicalIn(mmu, table', 0, at)
      OBVIOUS
    <2>4. Return(p)
      BY <1>3, <2>1, <2>3
    <2>5. PICK e : e = table'
      OBVIOUS
    <2> QED BY <1>1, <1>6, <2>0, <2>1, <2>2, <2>3, <2>4, <2>5, ReturnStep
  <1> QED BY <1>4, <1>5, <1>7, <1>8, <1>9 DEF TranslateAddress

LEMMA TablesStep ==
    ASSUME TablesInv, RootInv, [WalkNext]_walkVars
    PROVE  TablesInv'
  <1>1. CASE UNCHANGED walkVars
    BY <1>1 DEF walkVars, regs, walk, TablesInv, TypedInv, PathInv, CheckInv, EndInv, Granted
  <1> QED BY <1>1, GuestStep, TranslateStep DEF WalkNext

-----------------------------------------------------------------------------
\* The invariant of the walk over the tables, whatever they hold.
THEOREM TablesInvariance == WalkSpec => [](TablesInv /\ RootInv)
<1> DEFINE I == TablesInv /\ RootInv /\ cr3 \in Nat
<1>1. WalkInit => I
  BY InitTables, InitWalk
<1>2. I /\ [WalkNext]_walkVars => I'
  BY RootStep, TablesStep
<1>3. I => TablesInv /\ RootInv
  OBVIOUS
<1> QED  BY <1>1, <1>2, <1>3, PTL DEF WalkSpec

\* An access that is not checked first is done where the tables say, or ends
\* with the exception of the first level that denies it (TranslateAddress).
THEOREM AccessCorrect == WalkSpec => []AccessAsTabled
<1>1. TablesInv => AccessAsTabled
  <2> SUFFICES ASSUME TablesInv, Final, ~job.checked
               PROVE  AccessAsTabled
    BY DEF AccessAsTabled
  <2>1. AccessedIn(mmu, memory, Granted, job, outcome)
    BY DEF TablesInv, EndInv, Final
  <2>2. \A a : Reference(a, job.mode) = ReferenceIn(mmu, memory, Granted, a)
    BY ReferenceIs DEF Answer, Granted
  <2>3. CASE outcome.kind = "physical"
    <3>1. ASSUME NEW k \in 0..(job.length - 1), PageOf(job.at + k) = PageOf(job.at)
          PROVE  Agrees(Reference(job.at + k, job.mode), outcome.at + k)
      <4>1. AgreesIn(mmu, ReferenceIn(mmu, memory, Granted, job.at + k), outcome.at + k)
        BY <2>1, <2>3, <3>1 DEF AccessedIn, PageOf, PageUnits, Units
      <4> QED BY <2>2, <4>1 DEF Agrees, AgreesIn, Exact
    <3> QED BY <2>3, <3>1 DEF AccessAsTabled
  <2>4. CASE outcome.kind # "physical"
    BY <2>1, <2>2, <2>4 DEF AccessAsTabled, AccessedIn
  <2> QED BY <2>3, <2>4
<1> QED  BY <1>1, TablesInvariance, PTL

\* An access that was validated is refused exactly when the tables deny a page
\* of the buffer (ValidateRead, ValidateWrite, ValidateExecute).
THEOREM ValidatesCorrect == WalkSpec => []ValidatesAsTabled
<1>1. TablesInv => ValidatesAsTabled
  <2> SUFFICES ASSUME TablesInv, Final, job.checked, job.at + job.length + PageUnits <= AddressMod
               PROVE  ValidatesAsTabled
    BY DEF ValidatesAsTabled
  <2>1. ValidatedIn(mmu, memory, Granted, job, outcome) /\ EndsBelow(mmu, job)
    BY DEF TablesInv, EndInv, Final, EndsBelow, PageUnits, Units
  <2>2. \A a : Reference(a, job.mode) = ReferenceIn(mmu, memory, Granted, a)
    BY ReferenceIs DEF Answer, Granted
  <2>3. Touched = PagesIn(mmu, job)
    BY TouchedAre DEF TablesInv, TypedInv
  <2>4. {p \in Touched : Reference(p, job.mode).kind # "physical"}
        = Denying(mmu, memory, Granted, job)
    BY <2>2, <2>3 DEF Denying
  <2> QED BY <2>1, <2>2, <2>4 DEF ValidatesAsTabled, ValidatedIn, FirstDenying
<1> QED  BY <1>1, TablesInvariance, PTL
=============================================================================
