----------------------------- MODULE MemoryMap -----------------------------
(***************************************************************************)
(* The physical address map: the list of memory regions of the MMU and the *)
(* commands by which the guest changes it: the memory control system gives *)
(* RAM a place, the I/O bus moves a device, the video device moves its     *)
(* frame buffer                                                            *)
(* (src/Emulator/src/MMU/MMU.cpp:33-73, 229-268, 279-407,                  *)
(*  MemoryControlSystem.cpp:65-88, src/Emulator/src/IO/IOBus.cpp:148-181,  *)
(*  src/Emulator/src/IO/Devices/Video/VideoDevice.cpp:222-262).            *)
(*                                                                         *)
(* The list keeps the order and the count the code gives it: a region is   *)
(* searched from the head, so the first of two that overlap serves an      *)
(* address.  What the regions hold is abstracted; a region the code cuts   *)
(* or merges is a new, empty StandardMemoryRegion, kind "ram".             *)
(*                                                                         *)
(* A definition marked "Mutant" is a faulty variant of the one after it.   *)
(***************************************************************************)
EXTENDS Naturals, Sequences, SequencesExt

CONSTANTS
    AddrMod,     \* addresses are 64-bit in the code: arithmetic is modulo it
    Page,        \* 4096
    SysStart, SysEnd, BIOSStart, \* the two regions the emulator starts with
    RAMSize,     \* m_RAMSize
    Device,      \* devices that take an I/O region
    PortSize,    \* PortSize[d]: size of that region
    Frame,       \* the video device's frame buffer
    FrameSizes,  \* sizes of its modes
    RAMRegions,  \* the <<base, size>> the guest asks for
    Bases,       \* the addresses it gives to devices and frame buffer
    MaxRegions,  \* bound on the length of the list
    MaxDrift     \* bound on how far the count falls behind the list

ASSUME MapAssumption ==
    /\ {AddrMod, Page, SysStart, SysEnd, BIOSStart, RAMSize,
        MaxRegions, MaxDrift} \subseteq Nat
    /\ 0 < BIOSStart /\ BIOSStart < SysStart /\ SysStart < SysEnd /\ SysEnd < AddrMod
    /\ PortSize \in [Device -> Nat \ {0}]
    /\ FrameSizes \subseteq Nat \ {0}
    /\ Frame \notin Device /\ {"sys", "bios", "ram"} \cap (Device \cup {Frame}) = {}
    /\ Bases \subseteq 0..(AddrMod - 1) /\ RAMRegions \subseteq Nat \X Nat
    \* a size that wraps the address around cannot be allocated: Crash
    /\ \A r \in RAMRegions : r[1] + r[2] < AddrMod

Sizes == FrameSizes \cup {PortSize[d] : d \in Device}

\* Where regions that begin below the control region may end.
Ends ==
    {SysStart}
    \cup {r[1] + r[2] : r \in {q \in RAMRegions : q[1] < SysStart}}
    \cup {a + n : a \in {b \in Bases : b < SysStart}, n \in Sizes}

\* Addresses have 64 bits, the control region ends at 2^32 and the host has to
\* allocate what is mapped: a device that is placed behind RAM or behind another
\* device does not reach the end of the address space.
ASSUME SpaceAssumption == \A end \in Ends, n \in Sizes : end + n <= AddrMod

Addr  == 0..(AddrMod - 1)
Owner == Device \cup {Frame}
Kind  == {"sys", "bios", "ram"} \cup Owner

VARIABLES
    map,       \* m_regions: its list, and m_count, which its users trust;
               \* `blind` is history: a region was appended behind older ones
    used,      \* m_currentUsedRAM
    slot,      \* per owner: base address, region pointer, replaced segment
    undefined, \* a region was deleted twice: what follows is undefined
    latest,    \* history: the region the last command added, if it succeeded
    refused    \* history: owners whose last command reported an error

vars == <<map, used, slot, undefined, latest, refused>>

Region(start, end, kind) == [start |-> start, end |-> end, kind |-> kind]

Sys  == Region(SysStart, SysEnd, "sys")
BIOS == Region(BIOSStart, SysStart, "bios")
None == Region(0, 0, "ram")

\* MemoryRegion::canSplit.
CanSplit(r) == r.kind \in {"bios", "ram"}

Inside(r, a) == r.start <= a /\ a < r.end

\* The region that serves an address: the first one that contains it.
Serving(list, a) == SelectInSeq(list, LAMBDA r : Inside(r, a))

-----------------------------------------------------------------------------
(* The operations of MMU, on m = [list, count, blind].                     *)

\* A map whose count is 0 is taken to be empty: the region becomes its last.
AppendRegion(m, r) ==
    [list |-> Append(m.list, r), count |-> 1, blind |-> m.blind \/ m.list # <<>>]

\* Mutant: before the region found, so that the list is sorted.
InsertBefore(m, r) ==
    LET larger == SelectInSeq(m.list, LAMBDA c : r.start < c.start)
    IN  IF m.count = 0 THEN AppendRegion(m, r)
        ELSE IF larger = 0 THEN m
        ELSE [list  |-> InsertAt(m.list, larger, r), count |-> (m.count + 1) % AddrMod,
              blind |-> m.blind]

\* Behind the first region that starts at a larger address; if there is none
\* the region is dropped.
AddMemoryRegion(m, r) ==
    LET larger == SelectInSeq(m.list, LAMBDA c : r.start < c.start)
    IN  IF m.count = 0 THEN AppendRegion(m, r)
        ELSE IF larger = 0 THEN m
        ELSE [list  |-> InsertAt(m.list, larger + 1, r), count |-> (m.count + 1) % AddrMod,
              blind |-> m.blind]

\* SimpleLinkedList::remove counts down even if nothing was removed.
RemoveAtIndex(m, i) ==
    [list  |-> IF i = 0 THEN m.list ELSE RemoveAt(m.list, i),
     count |-> (m.count + AddrMod - 1) % AddrMod, blind |-> m.blind]

RemoveMemoryRegion(m, o) ==
    RemoveAtIndex(m, SelectInSeq(m.list, LAMBDA r : r.kind = o))

\* The region that holds `start` is cut; a failure changes nothing.
RemoveRegionSegment(m, start, end) ==
    LET at == SelectInSeq(m.list, LAMBDA r : Inside(r, start) /\ r.start < end)
        r  == m.list[at]
        overruns == r.end < end /\ at < Len(m.list) /\ m.list[at + 1].start < end
        gone  == RemoveAtIndex(m, at)
        lower == IF r.start < start
                 THEN AddMemoryRegion(gone, Region(r.start, start, "ram")) ELSE gone
        upper == IF end < r.end
                 THEN AddMemoryRegion(lower, Region(end, r.end, "ram")) ELSE lower
    IN  IF at = 0
        THEN [ok |-> TRUE, map |-> m, segment |-> None]
        ELSE IF ~CanSplit(r) \/ overruns
        THEN [ok |-> FALSE, map |-> m, segment |-> None]
        ELSE [ok |-> TRUE, map |-> upper,
              segment |-> Region(start, IF end < r.end THEN end ELSE r.end, "ram")]

\* The segment goes back into the first gap between neighbours of the list,
\* merged with those it touches, whatever they are; its result is ignored.
ReaddRegionSegment(m, segment) ==
    LET gaps == {i \in 2..Len(m.list) : /\ m.list[i - 1].end <= segment.start
                                        /\ segment.end <= m.list[i].start}
        at     == Min(gaps)
        before == m.list[at - 1]
        after  == m.list[at]
        joinsBefore == before.end = segment.start
        joinsAfter  == after.start = segment.end
        m1 == IF joinsAfter THEN RemoveAtIndex(m, at) ELSE m
        m2 == IF joinsBefore THEN RemoveAtIndex(m1, at - 1) ELSE m1
    IN  IF segment = None \/ gaps = {} THEN m
        ELSE AddMemoryRegion(m2,
               Region(IF joinsBefore THEN before.start ELSE segment.start,
                      IF joinsAfter THEN after.end ELSE segment.end, "ram"))

\* Whether [address, address + size) meets a region, as the code decides it.
HasRegion(list, address, size) ==
    LET last == address + size
        Meets(r) == \/ r.start <= address /\ last <= r.end
                    \/ r.start < last /\ last < r.end
                    \/ r.start < address /\ address < r.end
        stop == SelectInSeq(list, LAMBDA r : Meets(r) \/ last < r.start)
    IN  stop # 0 /\ Meets(list[stop])

\* Mutant: the last byte of a region is taken to be its end.
ValidatePastEnd(list, address, size) ==
    LET Step[at \in Nat \X Nat \X Nat] ==
          LET here == {i \in (at[3] + 1)..Len(list) : Inside(list[i], at[1])}
              room == list[Min(here)].end + 1 - at[1]
          IN  here # {} /\ (at[2] <= room \/ Step[<<at[1] + room, at[2] - room, at[3] + 1>>])
    IN  Step[<<address, size, 0>>]

\* ValidateRead, and the way of ReadBuffer and WriteBuffer: from the region of
\* one byte on to the next, searched from the place of the list whose index is
\* the number of regions found so far.  `at` is the address reached, the bytes
\* left and that number.
ValidateRead(list, address, size) ==
    LET Step[at \in Nat \X Nat \X Nat] ==
          LET here == {i \in (at[3] + 1)..Len(list) : Inside(list[i], at[1])}
              room == list[Min(here)].end - at[1]
          IN  here # {} /\ (at[2] <= room \/ Step[<<at[1] + room, at[2] - room, at[3] + 1>>])
    IN  Step[<<address, size, 0>>]

-----------------------------------------------------------------------------
(* The commands.                                                           *)

EmptyMap == [list |-> <<>>, count |-> 0, blind |-> FALSE]

Init ==
    /\ map = AddMemoryRegion(AddMemoryRegion(EmptyMap, Sys), BIOS)
    /\ used = 0
    /\ slot = [o \in Owner |-> [base |-> 0, pointer |-> "null", segment |-> None]]
    /\ undefined = FALSE
    /\ latest = None /\ refused = {}

\* The list after a command, and the region it added.
NewMap(m, new) ==
    /\ map' = m
    /\ latest' = new

\* Mutant: the RAM given away is not compared with the RAM there is.
SetRegionUnlimited(base, size) ==
    LET new == Region(base, base + size, "ram")
    IN  /\ ~undefined
        /\ base % Page = 0 /\ size % Page = 0
        /\ NewMap(AddMemoryRegion(map, new), new) /\ used' = used + size
        /\ UNCHANGED <<slot, undefined, refused>>

\* MemoryControlSystem: SET_REGION.
SetRegion(base, size) ==
    /\ ~undefined
    /\ IF \/ base % Page # 0 \/ size % Page # 0 \/ size = 0
          \/ used + size > RAMSize \/ HasRegion(map.list, base, size)
       THEN NewMap(map, None) /\ UNCHANGED used
       ELSE LET new == Region(base, base + size, "ram")
            IN  NewMap(AddMemoryRegion(map, new), new) /\ used' = used + size
    /\ UNCHANGED <<slot, undefined, refused>>

\* Mutant: the region is deleted, and stays in the list.
ReleaseInPlace(o) == ReaddRegionSegment(map, slot[o].segment)

\* A device or the frame buffer gives up its region: it is removed from the
\* list and deleted, and the segment it replaced returns.
Release(o) == ReaddRegionSegment(RemoveMemoryRegion(map, o), slot[o].segment)

\* Mutant: the owner learns of its first region only.
OccupyOnce(o, m, base, size, pointer) ==
    LET end == (base + size) % AddrMod
        cut == RemoveRegionSegment(m, base, end)
        new == Region(base, end, o)
    IN  /\ NewMap(IF cut.ok THEN AddMemoryRegion(cut.map, new) ELSE m, None)
        /\ slot' = [slot EXCEPT ![o].base = base, ![o].pointer =
                        IF cut.ok /\ pointer = "null" THEN "live" ELSE pointer]
        /\ refused' = IF cut.ok THEN refused \ {o} ELSE refused \cup {o}

\* It takes a new one.  After an error its pointer is left as it was.
Occupy(o, m, base, size, pointer) ==
    LET end == (base + size) % AddrMod
        cut == RemoveRegionSegment(m, base, end)
        new == Region(base, end, o)
    IN  IF cut.ok
        THEN /\ NewMap(AddMemoryRegion(cut.map, new), new)
             /\ slot' = [slot EXCEPT ![o] = [base |-> base, pointer |-> "live",
                                             segment |-> cut.segment]]
             /\ refused' = refused \ {o}
        ELSE /\ NewMap(m, None)
             /\ slot' = [slot EXCEPT ![o].base = base, ![o].pointer = pointer]
             /\ refused' = refused \cup {o}

\* Deleting a region that is deleted already.
DeleteAgain ==
    /\ undefined' = TRUE
    /\ UNCHANGED <<map, used, slot, latest, refused>>

\* IOBus: SET_DEVICE_INFO.
SetDeviceInfo(d, base) ==
    LET old == slot[d].base # 0 /\ slot[d].pointer # "null"
        m   == IF old THEN Release(d) ELSE map
        pointer == IF old THEN "deleted" ELSE slot[d].pointer
    IN  /\ ~undefined
        /\ IF old /\ slot[d].pointer = "deleted"
           THEN DeleteAgain
           ELSE /\ UNCHANGED <<used, undefined>>
                /\ IF base = 0
                   THEN /\ NewMap(m, None)
                        /\ slot' = [slot EXCEPT ![d].base = 0, ![d].pointer = pointer]
                        /\ refused' = refused \ {d}
                   ELSE Occupy(d, m, base, PortSize[d], pointer)

\* VideoDevice: SET_MODE.
SetMode(address, size) ==
    LET old == slot[Frame].pointer # "null"
        m   == IF old THEN Release(Frame) ELSE map
    IN  /\ ~undefined
        /\ IF slot[Frame].pointer = "deleted"
           THEN DeleteAgain
           ELSE /\ UNCHANGED <<used, undefined>>
                /\ Occupy(Frame, m, address, size, IF old THEN "deleted" ELSE "null")

\* The bounds.
Bounded ==
    /\ Len(map'.list) <= MaxRegions
    /\ (map'.count + MaxDrift) % AddrMod >= Len(map'.list)

Next ==
    \/ \E r \in RAMRegions : SetRegion(r[1], r[2]) /\ Bounded
    \/ \E d \in Device, a \in Bases : SetDeviceInfo(d, a) /\ Bounded
    \/ \E a \in Bases, n \in FrameSizes : SetMode(a, n) /\ Bounded

Spec == Init /\ [][Next]_vars

-----------------------------------------------------------------------------
(* Properties.                                                             *)

RegionType == [start : 0..AddrMod, end : 0..AddrMod, kind : Kind]

TypeOK ==
    /\ map \in [list : Seq(RegionType), count : Addr, blind : BOOLEAN]
    /\ used \in 0..RAMSize
    /\ slot \in [Owner -> [base : Addr, pointer : {"null", "live", "deleted"},
                           segment : RegionType]]
    /\ undefined \in BOOLEAN
    /\ latest \in RegionType /\ refused \subseteq Owner

\* Whatever the guest maps, the control registers stay where they are: the
\* system control region is neither hidden, nor cut, nor merged.  This holds
\* until a count of 0 makes the code take a list with regions for an empty one.
ControlServes ==
    ~map.blind =>
    \A a \in SysStart..(SysEnd - 1) :
        LET i == Serving(map.list, a) IN i # 0 /\ map.list[i] = Sys

\* A mapping that was accepted is in force: all its addresses below the
\* control region are served by it.  The code does not keep it once the count
\* has fallen behind the list down to 0 (see README, findings).
AcceptedServes ==
    \A a \in latest.start..(latest.end - 1) : a < SysStart =>
        LET i == Serving(map.list, a) IN i # 0 /\ map.list[i] = latest

\* What it keeps: a mapping that was accepted is in force as long as no region
\* was appended, behind the older ones, to a list whose count said that it is
\* empty.  The count may be wrong, as long as it is not 0 when a region is added.
NewestServes == ~map.blind => AcceptedServes

\* The list holds no deleted region, and no two regions of one device.
ListedAreLive ==
    \A i, j \in 1..Len(map.list) : map.list[i].kind \in Owner =>
        /\ slot[map.list[i].kind].pointer = "live"
        /\ map.list[i].kind = map.list[j].kind => i = j

\* A region is deleted twice only after a command that reported an error.
DeletedTwiceAfterError ==
    [][undefined' /\ ~undefined => \E o \in refused : slot[o].pointer = "deleted"]_vars

\* An access that was validated never meets an unmapped byte on its way.
ValidatedIsMapped ==
    \A a \in Addr, n \in 1..4 :
        ValidateRead(map.list, a, n) =>
            \A k \in 0..(n - 1) : Serving(map.list, a + k) # 0

\* docs/design.md:757 "The region must not overlap with any other memory
\* regions, including the BIOS region and the System Control region."  The
\* code does not keep it (see README, findings).
RegionsDisjoint ==
    \A i, j \in 1..Len(map.list) : i # j =>
        \/ map.list[i].end <= map.list[j].start
        \/ map.list[j].end <= map.list[i].start
=============================================================================
