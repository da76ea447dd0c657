-------------------------- MODULE ExecutionProofs --------------------------
(***************************************************************************)
(* Two parts of the emulator that share no state, proved side by side.     *)
(*                                                                         *)
(* EventLoop: the hand-over between execution threads is safe, for every   *)
(* set of threads, every choice of events and every bound on the queue.    *)
(* The argument: a jump or a change of MMU is queued at most once, because *)
(* the thread that queued it waits, and the emulator thread ends a thread  *)
(* only while it handles a storage transfer, under the lock of g_events.   *)
(*                                                                         *)
(* DecodeCache: for every program, every size of the line and of the       *)
(* slots, what ExecutionLoop executes is the instruction at IP, and no     *)
(* instruction is kept in two of the slots FindIPInInsCache compares.      *)
(***************************************************************************)
EXTENDS EventLoop, DecodeCache, TLAPS, NaturalsInduction, WellFoundedInduction

-----------------------------------------------------------------------------
(* EventLoop                                                               *)


\* Handling the interrupt of a transfer, with g_events locked.
Killing == Holding \ {"loop", "fault"}

\* A thread other than the current one has at most its wake-up left to do.
DetachedInv ==
    /\ tpc[current] # "none"
    /\ \A t \in Thread \ {current} : tpc[t] \in {"none", "notify"}

\* The event being handled is a transfer; a thread ends only on request.
KillingInv ==
    /\ empc \in Killing => queue # <<>> /\ Head(queue) = "StorageTransfer"
    /\ terminate = 1 => empc \in {"spin", "join", "restore"}
    /\ tpc[current] = "term" => empc \in {"spin", "join"}
    /\ tpc[current] = "done" => empc \in Killing \ {"stop"}
    /\ empc \in {"restore", "deliver", "relock"} => tpc[current] = "done"

IsPending(q, i) == i \in 1..Len(q) /\ q[i] # "StorageTransfer"

PendingInv ==
    /\ tpc[current] \in Waiting <=> \E i \in Nat : IsPending(queue, i)
    /\ \A i, j \in Nat : IsPending(queue, i) /\ IsPending(queue, j) => i = j

EInv == TypeOK /\ DetachedInv /\ KillingInv /\ PendingInv

-----------------------------------------------------------------------------
(* The queue.                                                              *)

\* An insertion adds its event behind the others.
LEMMA AppendPending ==
    ASSUME NEW q \in Seq(EventType), NEW k \in EventType, NEW i \in Nat
    PROVE  IsPending(Append(q, k), i) <=>
             \/ IsPending(q, i)
             \/ i = Len(q) + 1 /\ k # "StorageTransfer"
  BY DEF IsPending

\* A removal shifts the events behind the head.
LEMMA TailPending ==
    ASSUME NEW q \in Seq(EventType), q # <<>>, NEW i \in Nat
    PROVE  /\ Tail(q) \in Seq(EventType)
           /\ IsPending(Tail(q), i) <=> i # 0 /\ IsPending(q, i + 1)
  BY DEF IsPending

\* The head is pending unless it is a transfer.
LEMMA HeadPending ==
    ASSUME NEW q \in Seq(EventType), q # <<>>
    PROVE  IsPending(q, 1) <=> Head(q) # "StorageTransfer"
  BY DEF IsPending

-----------------------------------------------------------------------------

LEMMA InitEInv == Init => EInv
  BY DEF Init, EInv, TypeOK, DetachedInv, KillingInv, PendingInv, IsPending,
     ThreadPC, Active, Waiting, EmulatorPC, Holding, Killing, EventType

\* A step of an execution thread.
LEMMA ThreadEInv ==
    ASSUME EInv, NEW t \in Thread, ExecutionStep(t)
    PROVE  EInv'
  <1> USE DEF EInv, TypeOK, DetachedInv, KillingInv, ThreadPC, Active,
              Waiting, EmulatorPC, Holding, Killing, Go, words
  <1>1. CASE LoopHead(t)
    BY <1>1 DEF LoopHead, PendingInv
  <1>2. CASE Terminate(t)
    BY <1>2 DEF Terminate, PendingInv
  <1>3. CASE BeginInstruction(t)
    BY <1>3 DEF BeginInstruction, PendingInv
  <1>4. CASE Execute(t)
    BY <1>4 DEF Execute, PendingInv
  <1>5. CASE Insert(t)
    <2>1. PICK kind \in Kinds :
            /\ queue' = Append(queue, kind)
            /\ Go(t, "raise", IF kind = "StorageTransfer" THEN "notifyOn"
                                                          ELSE "notify")
      BY <1>5 DEF Insert
    <2>2. t = current /\ kind \in EventType
      BY <2>1, EventLoopAssumption
    <2>3. \A i \in Nat : ~IsPending(queue, i)
      BY <2>1, <2>2 DEF PendingInv
    <2>4. PendingInv'
      <3>1. \A i \in Nat : IsPending(queue', i) <=>
              i = Len(queue) + 1 /\ kind # "StorageTransfer"
        BY <2>1, <2>2, <2>3, AppendPending
      <3>2. Len(queue) + 1 \in Nat /\ current' = current
        BY <1>5 DEF Insert
      <3> QED
        BY <2>1, <2>2, <3>1, <3>2 DEF PendingInv
    <2>5. queue' \in Seq(EventType)
      BY <2>1, <2>2
    <2> QED
      BY <1>5, <2>1, <2>2, <2>4, <2>5 DEF Insert
  <1>6. CASE Notify(t)
    BY <1>6 DEF Notify, PendingInv
  <1> QED
    BY <1>1, <1>2, <1>3, <1>4, <1>5, <1>6 DEF ExecutionStep

\* A new thread replaces one that executes no more guest instructions.
LEMMA NewThreadDetached ==
    ASSUME EInv, NewThread, tpc[current] \in Waiting \cup {"done"}
    PROVE  /\ tpc' \in [Thread -> ThreadPC] /\ current' \in Thread
           /\ DetachedInv' /\ tpc'[current'] = "head"
  BY DEF NewThread, EInv, TypeOK, DetachedInv, ThreadPC, Active, Waiting

\* A step of the emulator thread.
LEMMA EmulatorEInv ==
    ASSUME EInv, WaitForOperation
    PROVE  EInv'
  <1> USE DEF EInv, TypeOK, KillingInv, ThreadPC, Active, Waiting,
              EmulatorPC, Holding, Killing, Emulator, words
  <1>1. CASE Wake \/ LockEvents \/ UnlockEvents
    BY <1>1 DEF Wake, LockEvents, UnlockEvents, DetachedInv, PendingInv
  <1>2. CASE HandOver
    <2>1. queue # <<>> /\ IsPending(queue, 1)
      BY <1>2, HeadPending DEF HandOver, MoreEvents
    <2>2. tpc[current] \in Waiting
      BY <2>1 DEF PendingInv
    <2>3. \A i \in Nat : ~IsPending(queue', i)
      BY <1>2, <2>1, TailPending DEF HandOver, RemoveHead, PendingInv
    <2>4. /\ tpc' \in [Thread -> ThreadPC] /\ current' \in Thread
          /\ DetachedInv' /\ tpc'[current'] = "head"
      BY <1>2, <2>2, NewThreadDetached DEF HandOver
    <2>5. /\ queue' \in Seq(EventType) /\ index' \in Nat
          /\ UNCHANGED <<eventWait, words, empc>> /\ empc = "loop"
      BY <1>2, <2>1, TailPending DEF HandOver, MoreEvents, RemoveHead
    <2> QED
      BY <2>3, <2>4, <2>5 DEF PendingInv
  <1>3. CASE Transfer
    <2>1. queue # <<>> /\ ~IsPending(queue, 1) /\ empc = "loop"
      BY <1>3, HeadPending DEF Transfer, MoreEvents
    <2>2. \A i \in Nat : IsPending(queue', i) <=> i # 0 /\ IsPending(queue, i + 1)
      BY <1>3, <2>1, TailPending DEF Transfer, RemoveHead
    <2>3. \A i \in Nat : IsPending(queue, i) => \E j \in Nat : IsPending(queue', j) /\ i = j + 1
      <3>1. ASSUME NEW i \in Nat, IsPending(queue, i)
            PROVE  i - 1 \in Nat /\ i - 1 # 0
        BY <2>1, <3>1 DEF IsPending
      <3> QED
        BY <2>2, <3>1
    <2>4. UNCHANGED <<tpc, current>>
      BY <1>3 DEF Transfer
    <2>5. PendingInv'
      BY <2>2, <2>3, <2>4 DEF PendingInv
    <2>6. queue' \in Seq(EventType)
      BY <1>3, <2>1, TailPending DEF Transfer, RemoveHead
    <2> QED
      BY <1>3, <2>1, <2>5, <2>6 DEF Transfer, RemoveHead, DetachedInv
  <1>4. CASE HandOverFaults \/ TransferInterrupts \/ RequestStop
    BY <1>4 DEF HandOverFaults, TransferInterrupts, MoreEvents, RequestStop, DetachedInv, PendingInv
  <1>5. CASE SpinWhileRunning \/ JoinExecution \/ RestoreTerminate \/ DeliverFails
    BY <1>5 DEF SpinWhileRunning, JoinExecution, RestoreTerminate,
       DeliverFails, DetachedInv, PendingInv
  <1>6. CASE Deliver
    <2>1. tpc[current] = "done" /\ queue # <<>>
      BY <1>6 DEF Deliver
    <2>2. \A i \in Nat : ~IsPending(queue, i)
      BY <2>1 DEF PendingInv
    <2>3. \A i \in Nat : ~IsPending(queue', i)
      BY <1>6, <2>1, <2>2, TailPending DEF Deliver, RemoveHead
    <2>4. /\ tpc' \in [Thread -> ThreadPC] /\ current' \in Thread
          /\ DetachedInv' /\ tpc'[current'] = "head"
      BY <1>6, <2>1, NewThreadDetached DEF Deliver
    <2>5. /\ queue' \in Seq(EventType) /\ index' \in Nat
          /\ UNCHANGED <<eventWait, words>> /\ empc' = "loop"
      BY <1>6, <2>1, TailPending DEF Deliver, RemoveHead
    <2>6. terminate = 0
      BY <1>6 DEF Deliver
    <2> QED
      BY <2>3, <2>4, <2>5, <2>6 DEF PendingInv
  <1> QED
    BY <1>1, <1>2, <1>3, <1>4, <1>5, <1>6 DEF WaitForOperation

-----------------------------------------------------------------------------
(* The theorems.                                                           *)

\* EInv holds in every reachable state.
THEOREM EventInvariance == Spec => []EInv
  <1>1. EInv /\ [Next]_vars => EInv'
    <2> SUFFICES ASSUME EInv, [Next]_vars PROVE EInv'
      OBVIOUS
    <2>1. CASE WaitForOperation
      BY <2>1, EmulatorEInv
    <2>2. ASSUME NEW t \in Thread, ExecutionStep(t) PROVE EInv'
      BY <2>2, ThreadEInv
    <2>3. CASE UNCHANGED vars
      BY <2>3 DEF vars, words, EInv, TypeOK, DetachedInv, KillingInv, PendingInv
    <2> QED
      BY <2>1, <2>2, <2>3 DEF Next
  <1> QED
    BY InitEInv, <1>1, PTL DEF Spec

\* Never two threads that execute guest instructions.
THEOREM OneActiveCorrect == Spec => []OneActive
  <1>1. EInv => OneActive
    BY DEF EInv, DetachedInv, OneActive, Active
  <1> QED
    BY <1>1, EventInvariance, PTL

\* A jump or a change of MMU is neither lost nor doubled.
THEOREM HandOverCorrect == Spec => []HandOverPending
  <1>1. EInv => HandOverPending
    <2> SUFFICES ASSUME EInv PROVE HandOverPending
      OBVIOUS
    <2> DEFINE pending == {i \in 1..Len(queue) : queue[i] # "StorageTransfer"}
    <2>1. \A i : i \in pending <=> i \in Nat /\ IsPending(queue, i)
      BY DEF EInv, TypeOK, IsPending
    <2> QED
      BY <2>1 DEF EInv, PendingInv, HandOverPending
  <1> QED
    BY <1>1, EventInvariance, PTL

\* The handler of a device interrupt starts on a stopped machine.
THEOREM InterruptCorrect == Spec => []StoppedForInterrupt
  <1>1. EInv => StoppedForInterrupt
    BY DEF EInv, TypeOK, DetachedInv, KillingInv, StoppedForInterrupt, Active
  <1> QED
    BY <1>1, EventInvariance, PTL

\* A thread is replaced only when it executes no more guest instructions.
THEOREM ReplacementCorrect == Spec => ReplacedWhenStopped
  <1> DEFINE Replaced == current' # current => tpc[current] \in Waiting \cup {"done"}
  <1>1. EInv /\ [Next]_vars => [Replaced]_vars
    <2> SUFFICES ASSUME EInv, Next, current' # current
                 PROVE  tpc[current] \in Waiting \cup {"done"}
      OBVIOUS
    <2>1. HandOver \/ Deliver
      BY DEF Next, ExecutionStep, LoopHead, Terminate, BeginInstruction,
         Execute, Insert, Notify, WaitForOperation, Wake, LockEvents,
         UnlockEvents, HandOverFaults, Transfer, TransferInterrupts, RequestStop,
         SpinWhileRunning, JoinExecution, RestoreTerminate, DeliverFails
    <2>2. CASE HandOver
      <3>1. IsPending(queue, 1)
        BY <2>2, HeadPending DEF EInv, TypeOK, HandOver, MoreEvents
      <3> QED
        BY <3>1 DEF EInv, PendingInv
    <2>3. CASE Deliver
      BY <2>3 DEF EInv, KillingInv, Deliver, Emulator
    <2> QED
      BY <2>1, <2>2, <2>3
  <1> QED
    BY <1>1, EventInvariance, PTL DEF Spec, ReplacedWhenStopped

-----------------------------------------------------------------------------
(* DecodeCache                                                             *)


\* Nothing has been decoded from a place that may be wrong.
Sound == doubt \notin {"strayed", "stale"}

\* What the line holds.
LineRight ==
    /\ doubt # "stale" => mmu = Physical
    /\ ~torn /\ mmu = Physical => \A k \in Cell : data[k] = base + k
    /\ torn /\ doubt # "stale" => pc \in {"jump", "stuck"}

\* What the slots hold.
SlotsRight == \A i \in Index : slot[i].used => slot[i].from = slot[i].ip

\* Where the line is when the next byte is read from it.
LineFollows ==
    /\ doubt = "loose" => pc = "head"
    /\ pc = "head" /\ missed /\ doubt # "loose" => base + offset = ip
    /\ pc = "opcode" => base + offset = ip
    /\ pc = "operands" => base + offset = ip + 1
    /\ pc = "execute" /\ missed => base + offset = next

InHand == pc \in {"operands", "execute"} => inHand = ip

\* While an instruction is being decoded it is in no compared slot.
NotYetKept ==
    pc \in {"seek", "opcode", "operands"} =>
        /\ ~slot[cur].used
        /\ \A i \in Index \ {0} : ~Holds(i, ip)

DecodeInv ==
    /\ FetchTypeOK /\ LineRight /\ NotYetKept /\ KeptOnce
    /\ Sound => SlotsRight /\ LineFollows /\ InHand

-----------------------------------------------------------------------------
(* The choice of a slot.                                                   *)

LEMMA MinMember ==
    ASSUME NEW S \in SUBSET Nat, S # {}
    PROVE  Min(S) \in S
  <1> DEFINE Less == {p \in Nat \X Nat : p[1] < p[2]}
  <1>1. IsWellFoundedOn(Less, Nat)
    BY NatLessThanWellFounded, Zenon DEF OpToRel
  <1>2. PICK x \in S : \A y \in S : <<y, x>> \notin Less
    <2> HIDE DEF Less
    <2> QED BY <1>1, WFMin
  <1>3. ASSUME NEW y \in S
        PROVE  x =< y
    <2>1. ~(y < x)
      BY <1>2
    <2> QED BY <2>1
  <1> QED
    BY <1>3 DEF Min

\* The largest member is the one with the least distance to a bound.
LEMMA MaxMember ==
    ASSUME NEW n \in Nat, NEW S \in SUBSET (0..n), S # {}
    PROVE  Max(S) \in S
  <1> DEFINE Less == {p \in Nat \X Nat : p[1] < p[2]}
             T == {n - x : x \in S}
  <1>1. IsWellFoundedOn(Less, Nat)
    BY NatLessThanWellFounded, Zenon DEF OpToRel
  <1>2. T \subseteq Nat /\ T # {}
    <2>1. \A x \in S : n - x \in Nat
      OBVIOUS
    <2> QED BY <2>1
  <1>3. PICK t \in T : \A u \in T : <<u, t>> \notin Less
    <2> HIDE DEF Less, T
    <2> QED BY <1>1, <1>2, WFMin
  <1>4. PICK x \in S : t = n - x
    BY <1>3
  <1>5. ASSUME NEW y \in S
        PROVE  x >= y
    <2>1. n - y \in T /\ n - y \in Nat
      OBVIOUS
    <2>2. t \in Nat
      BY <1>2
    <2>3. ~(n - y < t)
      BY <1>3, <2>1, <2>2
    <2> QED BY <1>4, <2>3
  <1> QED
    BY <1>5 DEF Max

LEMMA VictimIsSlot ==
    ASSUME DecodeAssumption, FetchTypeOK
    PROVE  Victim \in Index
  <1> DEFINE unused == {i \in Index : ~slot[i].used}
             later  == {i \in unused : i > cur}
  <1>1. unused \in SUBSET Nat /\ later \in SUBSET Nat
    BY DEF Index
  <1>2. unused # {} => Min(unused) \in unused
    <2> HIDE DEF unused
    <2> QED BY <1>1, MinMember
  <1>3. later # {} => Min(later) \in later
    <2> HIDE DEF later
    <2> QED BY <1>1, MinMember
  <1>4. (cur + 1) % Slots \in Index /\ cur \in Index
    BY DEF FetchTypeOK, Index, DecodeAssumption
  <1> QED
    BY <1>2, <1>3, <1>4 DEF Victim

LEMMA FoundIsHit ==
    ASSUME DecodeAssumption, FetchTypeOK, NEW a, Hits(a) # {}
    PROVE  Found(a) \in Hits(a)
  <1> DEFINE below == {i \in Hits(a) : i < cur}
  <1>1. Hits(a) \in SUBSET (0..Slots) /\ below \in SUBSET (0..Slots) /\ Slots \in Nat
    <2>1. cur \in 0..Slots /\ Slots \in Nat /\ Index \subseteq 0..Slots
      BY DEF Index, FetchTypeOK, DecodeAssumption
    <2>2. Compared \subseteq 0..Slots
      BY <2>1 DEF Compared
    <2> QED BY <2>1, <2>2 DEF Hits
  <1>2. Max(Hits(a)) \in Hits(a)
    BY <1>1, MaxMember
  <1>3. below # {} => Max(below) \in below
    <2> HIDE DEF below
    <2> QED BY <1>1, MaxMember
  <1> QED
    BY <1>2, <1>3 DEF Found

-----------------------------------------------------------------------------
(* The line.                                                               *)

LEMMA FilledLine ==
    ASSUME DecodeAssumption, FetchTypeOK, NEW m \in MMU, NEW a \in Nat
    PROVE  /\ Filled(m, a) \in [Cell -> Byte]
           /\ Readable(m, a) /\ m = Physical => \A k \in Cell : Filled(m, a)[k] = a + k
  <1> DEFINE w == Where(m, a)
  <1>1. Cell \subseteq Nat /\ \A k \in Cell : \A j \in 0..k : j \in Cell
    BY DEF Cell, DecodeAssumption
  <1>2. Filled(m, a) = [k \in Cell |-> IF \A j \in 0..k : w + j \in Mapped
                                       THEN w + k ELSE data[k]]
    BY DEF Filled
  <1>3. m = Physical => w = a
    BY DEF Where, DecodeAssumption
  <1> HIDE DEF w
  <1>4. ASSUME NEW k \in Cell
        PROVE  Filled(m, a)[k] \in Byte
    <2>1. CASE \A j \in 0..k : w + j \in Mapped
      <3>1. k \in 0..k
        BY <1>1
      <3>2. w + k \in Mapped
        BY <2>1, <3>1
      <3> QED BY <1>2, <2>1, <3>2 DEF DecodeAssumption
    <2>2. CASE ~(\A j \in 0..k : w + j \in Mapped)
      BY <1>2, <2>2 DEF FetchTypeOK
    <2> QED BY <2>1, <2>2
  <1>5. ASSUME Readable(m, a), m = Physical, NEW k \in Cell
        PROVE  Filled(m, a)[k] = a + k
    <2>1. \A j \in 0..k : w + j \in Mapped
      BY <1>1, <1>5 DEF Readable, w
    <2> QED BY <1>2, <1>3, <1>5, <2>1
  <1> QED BY <1>2, <1>4, <1>5

\* Where the line is after MaybeSetBaseAddress(a).
LineAt(a) ==
    /\ base' \in Nat /\ offset' \in 0..Line /\ data' \in [Cell -> Byte]
    /\ torn' \in BOOLEAN /\ doubt' \in {"none", "strayed", "stale"}
    /\ doubt = "stale" => doubt' = "stale"
    /\ Sound' => Sound
    /\ ~torn' /\ mmu = Physical => \A k \in Cell : data'[k] = base' + k
    /\ Succeeds(a) => base' + offset' = a /\ (torn' => doubt' = "stale")

LEMMA MovedLine ==
    ASSUME DecodeAssumption, FetchTypeOK, LineRight, NEW a \in Nat, MaybeSetBaseAddress(a)
    PROVE  LineAt(a)
  <1>1. CASE a \in base..(base + Line - 1)
    <2>1. offset' = a - base /\ base' = base /\ data' = data /\ torn' = torn
          /\ doubt' = IF torn THEN "stale" ELSE Together
      BY <1>1 DEF MaybeSetBaseAddress
    <2>2. offset' \in 0..Line /\ base' + offset' = a
      BY <1>1, <2>1 DEF FetchTypeOK, DecodeAssumption
    <2>3. base' \in Nat /\ data' \in [Cell -> Byte] /\ torn' \in BOOLEAN
          /\ doubt' \in {"none", "strayed", "stale"} /\ (Sound' => Sound)
          /\ (doubt = "stale" => doubt' = "stale") /\ (torn' => doubt' = "stale")
      BY <2>1 DEF FetchTypeOK, Together, Sound
    <2>4. ~torn' /\ mmu = Physical => \A k \in Cell : data'[k] = base' + k
      BY <2>1 DEF LineRight
    <2> QED BY <2>2, <2>3, <2>4 DEF LineAt
  <1>2. CASE ~(a \in base..(base + Line - 1))
    <2>1. base' = a /\ offset' = 0 /\ data' = Filled(mmu, a)
          /\ torn' = ~Readable(mmu, a) /\ doubt' = Together
      BY <1>2 DEF MaybeSetBaseAddress, CacheMiss
    <2>2. mmu \in MMU
      BY DEF FetchTypeOK
    <2>3. data' \in [Cell -> Byte]
      BY <2>1, <2>2, FilledLine
    <2>4. ~torn' /\ mmu = Physical => \A k \in Cell : data'[k] = base' + k
      BY <2>1, <2>2, FilledLine
    <2>5. base' \in Nat /\ offset' \in 0..Line /\ base' + offset' = a
      BY <2>1 DEF DecodeAssumption
    <2>6. Readable(mmu, a) \in BOOLEAN
      BY DEF Readable
    <2>7. torn' \in BOOLEAN /\ doubt' \in {"none", "strayed", "stale"}
          /\ (doubt = "stale" => doubt' = "stale") /\ (Sound' => Sound)
      BY <2>1, <2>6 DEF FetchTypeOK, Together, Sound
    <2>8. Succeeds(a) => ~torn'
      BY <1>2, <2>1 DEF Succeeds
    <2> QED BY <2>3, <2>4, <2>5, <2>7, <2>8 DEF LineAt
  <1> QED BY <1>1, <1>2

-----------------------------------------------------------------------------
(* Every step keeps the invariant.                                         *)

LEMMA InitInv ==
    ASSUME DecodeAssumption, FetchInit
    PROVE  DecodeInv
  <1>1. \A k \in Cell : Reset + k \in 0..Last
    BY DEF DecodeAssumption, Cell, Byte
  <1>2. 0 \in 0..Last /\ 0 \in 0..Line /\ 0 \in Cell
    BY DEF DecodeAssumption, Cell
  <1>3. Reset \in 0..Last
    BY <1>1, <1>2 DEF DecodeAssumption
  <1>4. data \in [Cell -> Byte] /\ inHand \in Byte
    BY <1>1, <1>3 DEF FetchInit, Byte, DecodeAssumption
  <1>5. Empty \in [used : BOOLEAN, ip : Nat, from : Byte]
    BY <1>2 DEF Empty, Byte, DecodeAssumption
  <1>6. cur \in Index
    BY DEF FetchInit, Index, DecodeAssumption
  <1>7. FetchTypeOK
    BY <1>2, <1>4, <1>5, <1>6 DEF FetchInit, FetchTypeOK, PC, DecodeAssumption
  <1>8. \A i \in Index : ~slot[i].used
    BY DEF FetchInit, Empty
  <1>9. KeptOnce /\ SlotsRight
    BY <1>8 DEF KeptOnce, SlotsRight
  <1>10. LineRight /\ NotYetKept /\ LineFollows /\ InHand
    BY DEF FetchInit, LineRight, NotYetKept, LineFollows, InHand, DecodeAssumption
  <1> QED BY <1>7, <1>9, <1>10 DEF DecodeInv, Sound

\* Operand sizes and the slots.
LEMMA SizeBound ==
    ASSUME DecodeAssumption, NEW b \in Byte
    PROVE  Size[b] \in 1..Line
  BY DEF DecodeAssumption, Byte

LEMMA NextSlot ==
    ASSUME DecodeAssumption, NEW i \in Index
    PROVE  (i + 1) % Slots \in Index
  BY DEF DecodeAssumption, Index

LEMMA HitStep ==
    ASSUME DecodeAssumption, DecodeInv, Hit
    PROVE  DecodeInv'
  <1> DEFINE f == Found(ip)
  <1>1. FetchTypeOK
    BY DEF DecodeInv, Sound
  <1>2. f \in Index /\ slot[f].used /\ slot[f].ip = ip
    <2>1. f \in Hits(ip)
      BY <1>1, FoundIsHit DEF Hit
    <2> QED BY <2>1, <1>1 DEF Hits, Compared, Holds, FetchTypeOK
  <1> HIDE DEF f
  <1>3. /\ pc = "head" /\ pc' = "execute" /\ inHand' = slot[f].from /\ missed' = FALSE
        /\ next' = ip + Size[inHand'] /\ cur' = (f + 1) % Slots
        /\ UNCHANGED <<ip, mmu, slot, base, offset, data, torn>>
        /\ doubt' = IF doubt = "loose" THEN "none" ELSE doubt
    BY DEF Hit, Take, line, f, Together
  <1>4. inHand' \in Byte
    BY <1>1, <1>2, <1>3 DEF FetchTypeOK
  <1>5. next' \in Nat /\ cur' \in Index
    <2>1. Size[inHand'] \in Nat
      <3>1. \A b \in Byte : Size[b] \in 1..Line
        BY SizeBound
      <3> QED BY <1>4, <3>1 DEF DecodeAssumption
    <2>2. (f + 1) % Slots \in Index
      BY <1>2, NextSlot
    <2>3. ip \in Nat
      BY <1>1 DEF FetchTypeOK
    <2> HIDE DEF Index
    <2>4. next' \in Nat
      <3>1. PICK n \in Nat : next' = ip + n
        BY <1>3, <2>1, Zenon
      <3> QED BY <2>3, <3>1
    <2>5. cur' \in Index
      BY <1>3, <2>2
    <2> QED BY <2>4, <2>5
  <1>6. FetchTypeOK'
    BY <1>1, <1>3, <1>4, <1>5 DEF FetchTypeOK, PC
  <1>7. LineRight' /\ NotYetKept' /\ KeptOnce'
    BY <1>3 DEF DecodeInv, Sound, LineRight, NotYetKept, KeptOnce, Holds
  <1>8. Sound' => SlotsRight' /\ LineFollows' /\ InHand'
    BY <1>2, <1>3 DEF DecodeInv, Sound, SlotsRight, LineFollows, InHand
  <1> QED BY <1>6, <1>7, <1>8 DEF DecodeInv, Sound

LEMMA MissStep ==
    ASSUME DecodeAssumption, DecodeInv, Miss
    PROVE  DecodeInv'
  <1> DEFINE v == Victim
  <1>1. FetchTypeOK /\ v \in Index
    BY VictimIsSlot DEF DecodeInv, Sound
  <1> HIDE DEF v
  <1>2. /\ pc = "head" /\ Hits(ip) = {} /\ cur' = v
        /\ slot' = [slot EXCEPT ![v] = Empty]
        /\ pc' = IF missed THEN "opcode" ELSE "seek"
        /\ UNCHANGED <<ip, next, inHand, missed, mmu, base, offset, data, torn>>
        /\ doubt' = IF doubt = "loose" THEN "strayed" ELSE doubt
    BY DEF Miss, line, v
  <1>3. Empty \in [used : BOOLEAN, ip : Nat, from : Byte] /\ ~Empty.used
    BY DEF Empty, Byte, DecodeAssumption
  <1>4. FetchTypeOK'
    BY <1>1, <1>2, <1>3 DEF FetchTypeOK, PC
  <1>5. ~slot'[v].used /\ \A i \in Index : i # v => slot'[i] = slot[i]
    BY <1>1, <1>2, <1>3 DEF FetchTypeOK
  <1>6. KeptOnce'
    BY <1>5 DEF DecodeInv, Sound, KeptOnce, Holds
  <1>7. NotYetKept'
    <2>1. \A i \in Index \ {0} : ~Holds(i, ip)
      BY <1>2 DEF Hits, Compared
    <2> QED BY <1>2, <1>5, <2>1 DEF NotYetKept, Holds
  <1>8. LineRight'
    BY <1>2 DEF DecodeInv, Sound, LineRight
  <1>9. Sound' => SlotsRight' /\ LineFollows' /\ InHand'
    BY <1>2, <1>5 DEF DecodeInv, Sound, SlotsRight, LineFollows, InHand
  <1> QED BY <1>4, <1>6, <1>7, <1>8, <1>9 DEF DecodeInv, Sound

LEMMA SeekStep ==
    ASSUME DecodeAssumption, DecodeInv, Seek
    PROVE  DecodeInv'
  <1>1. /\ FetchTypeOK /\ LineAt(ip)
    BY MovedLine DEF DecodeInv, Sound, Seek, FetchTypeOK
  <1>2. /\ pc = "seek"
        /\ UNCHANGED <<ip, inHand, slot, cur, mmu>>
        /\ Succeeds(ip) => missed' = TRUE /\ pc' = "opcode" /\ next' = next
        /\ ~Succeeds(ip) => pc' = "jump" /\ next' = Handler /\ missed' = missed
    BY DEF Seek, Raise
  <1>3. FetchTypeOK'
    BY <1>1, <1>2 DEF FetchTypeOK, PC, LineAt, DecodeAssumption
  <1>4. NotYetKept' /\ KeptOnce'
    BY <1>2 DEF DecodeInv, Sound, NotYetKept, KeptOnce, Holds
  <1>5. LineRight'
    BY <1>1, <1>2 DEF DecodeInv, Sound, LineAt, LineRight
  <1>6. Sound' => SlotsRight' /\ LineFollows' /\ InHand'
    BY <1>1, <1>2 DEF DecodeInv, Sound, LineAt, SlotsRight, LineFollows, InHand
  <1> QED BY <1>3, <1>4, <1>5, <1>6 DEF DecodeInv, Sound

LEMMA NextLineStep ==
    ASSUME DecodeAssumption, DecodeInv, NextLine
    PROVE  DecodeInv'
  <1>1. FetchTypeOK /\ mmu \in MMU /\ base + Line \in Nat
    BY DEF DecodeInv, Sound, FetchTypeOK, DecodeAssumption
  <1>2. /\ pc = "opcode" /\ offset = Line
        /\ base' = base + Line /\ offset' = 0 /\ data' = Filled(mmu, base + Line)
        /\ torn' = ~Readable(mmu, base + Line)
        /\ ~torn' => pc' = pc /\ next' = next
        /\ torn' => pc' = "jump" /\ next' = Handler
        /\ UNCHANGED <<ip, inHand, slot, cur, missed, mmu, doubt>>
    BY DEF NextLine, CacheMiss, Raise, cache
  <1>3. data' \in [Cell -> Byte] /\ (~torn' /\ mmu = Physical => \A k \in Cell : data'[k] = base' + k)
    <2>1. /\ Filled(mmu, base + Line) \in [Cell -> Byte]
          /\ Readable(mmu, base + Line) /\ mmu = Physical =>
               \A k \in Cell : Filled(mmu, base + Line)[k] = base + Line + k
      BY <1>1, FilledLine
    <2> QED BY <1>2, <2>1
  <1>4. torn' \in BOOLEAN /\ next' \in Nat /\ pc' \in {"opcode", "jump"}
    BY <1>1, <1>2 DEF Readable, FetchTypeOK, DecodeAssumption
  <1>5. FetchTypeOK'
    BY <1>1, <1>2, <1>3, <1>4 DEF FetchTypeOK, PC, DecodeAssumption
  <1>6. LineRight'
    BY <1>2, <1>3 DEF DecodeInv, Sound, LineRight
  <1>7. NotYetKept' /\ KeptOnce'
    BY <1>2, <1>4 DEF DecodeInv, Sound, NotYetKept, KeptOnce, Holds
  <1>8. Sound' => SlotsRight' /\ LineFollows' /\ InHand'
    BY <1>1, <1>2, <1>4 DEF DecodeInv, Sound, SlotsRight, LineFollows, InHand, FetchTypeOK, DecodeAssumption
  <1> QED BY <1>5, <1>6, <1>7, <1>8 DEF DecodeInv, Sound

LEMMA ReadOpcodeStep ==
    ASSUME DecodeAssumption, DecodeInv, ReadOpcode
    PROVE  DecodeInv'
  <1>1. FetchTypeOK /\ offset \in Cell
    BY DEF DecodeInv, Sound, ReadOpcode, FetchTypeOK, Cell, DecodeAssumption
  <1>2. /\ pc = "opcode" /\ pc' = "operands" /\ inHand' = data[offset]
        /\ offset' = offset + 1
        /\ UNCHANGED <<ip, next, slot, cur, missed, mmu, base, data, torn, doubt>>
    BY DEF ReadOpcode, cache, hist
  <1>3. inHand' \in Byte /\ offset' \in 0..Line
    BY <1>1, <1>2 DEF FetchTypeOK, Cell, DecodeAssumption
  <1>4. FetchTypeOK'
    BY <1>1, <1>2, <1>3 DEF FetchTypeOK, PC
  <1>5. LineRight'
    BY <1>2 DEF DecodeInv, Sound, LineRight
  <1>6. NotYetKept' /\ KeptOnce'
    BY <1>2 DEF DecodeInv, Sound, NotYetKept, KeptOnce, Holds
  <1>7. ASSUME Sound'
        PROVE  SlotsRight' /\ LineFollows' /\ InHand'
    <2>1. base + offset = ip /\ ~torn
      BY <1>2, <1>7 DEF DecodeInv, Sound, LineFollows, LineRight
    <2>2. inHand' = ip
      BY <1>1, <1>2, <1>7, <2>1 DEF DecodeInv, Sound, LineRight
    <2>3. base + (offset + 1) = ip + 1
      BY <1>1, <2>1 DEF FetchTypeOK
    <2> QED BY <1>2, <1>7, <2>2, <2>3 DEF DecodeInv, Sound, SlotsRight, LineFollows, InHand
  <1> QED BY <1>4, <1>5, <1>6, <1>7 DEF DecodeInv, Sound

\* What Decoded does to the slots.
LEMMA DecodedKeeps ==
    ASSUME DecodeAssumption, FetchTypeOK, KeptOnce, NotYetKept, pc = "operands",
           Decoded, ip' = ip
    PROVE  /\ KeptOnce' /\ pc' = "execute"
           /\ next' \in Nat /\ next' = ip + Size[inHand]
           /\ slot' \in [Index -> [used : BOOLEAN, ip : Nat, from : Byte]]
           /\ cur' \in Index
           /\ slot' = [slot EXCEPT ![cur] = [used |-> TRUE, ip |-> ip, from |-> inHand]]
  <1>1. /\ slot' = [slot EXCEPT ![cur] = [used |-> TRUE, ip |-> ip, from |-> inHand]]
        /\ pc' = "execute" /\ next' = ip + Size[inHand]
        /\ cur' = (cur + 1) % Slots
    BY DEF Decoded, Take
  <1>2. inHand \in Byte /\ ip \in Nat /\ cur \in Index
    BY DEF FetchTypeOK
  <1>3. next' \in Nat
    <2>1. Size[inHand] \in 1..Line /\ Line \in Nat
      BY <1>2, SizeBound DEF DecodeAssumption
    <2>2. PICK n \in 1..Line : next' = ip + n
      BY <1>1, <2>1, Zenon
    <2> QED BY <1>2, <2>1, <2>2
  <1>4. cur' \in Index
    BY <1>1, <1>2, NextSlot
  <1>5. slot' \in [Index -> [used : BOOLEAN, ip : Nat, from : Byte]]
    BY <1>1, <1>2 DEF FetchTypeOK
  <1>6. KeptOnce'
    <2>1. slot'[cur].ip = ip /\ \A i \in Index : i # cur => slot'[i] = slot[i]
      BY <1>1, <1>2 DEF FetchTypeOK
    <2>2. \A i \in Index \ {0} : ~(slot[i].used /\ slot[i].ip = ip)
      BY DEF NotYetKept, Holds
    <2> QED BY <2>1, <2>2 DEF KeptOnce, Holds
  <1> QED BY <1>1, <1>3, <1>4, <1>5, <1>6

LEMMA ReadOperandsStep ==
    ASSUME DecodeAssumption, DecodeInv, ReadOperands
    PROVE  DecodeInv'
  <1> DEFINE size == Size[inHand]
             end == offset + size - 1
  <1>1. /\ FetchTypeOK /\ mmu \in MMU /\ base \in Nat /\ offset \in Nat /\ ip \in Nat
        /\ Line \in Nat /\ size \in 1..Line /\ NotYetKept /\ KeptOnce
    <2>1. FetchTypeOK /\ NotYetKept /\ KeptOnce
      BY DEF DecodeInv
    <2>2. inHand \in Byte /\ mmu \in MMU /\ base \in Nat /\ offset \in Nat /\ ip \in Nat
      BY <2>1 DEF FetchTypeOK, DecodeAssumption
    <2>3. Line \in Nat
      BY DEF DecodeAssumption
    <2>4. size \in 1..Line
      BY <2>2, SizeBound
    <2> QED BY ONLY <2>1, <2>2, <2>3, <2>4
  <1> HIDE DEF size
  <1>2. /\ pc = "operands"
        /\ UNCHANGED <<ip, inHand, missed, mmu, doubt>>
    BY DEF ReadOperands
  <1>3. torn => doubt = "stale"
    BY <1>2 DEF DecodeInv, Sound, LineRight, FetchTypeOK
  <1>4. CASE end =< Line
    <2>1. offset' = end /\ Decoded /\ UNCHANGED <<base, data, torn>>
      BY <1>4 DEF ReadOperands, size
    <2>2. end \in 0..Line
      BY <1>1, <1>4
    <2>3. /\ KeptOnce' /\ pc' = "execute" /\ next' \in Nat /\ next' = ip + size
          /\ slot' \in [Index -> [used : BOOLEAN, ip : Nat, from : Byte]]
          /\ cur' \in Index
          /\ slot' = [slot EXCEPT ![cur] = [used |-> TRUE, ip |-> ip, from |-> inHand]]
      BY <1>1, <1>2, <2>1, DecodedKeeps DEF size
    <2>4. base' + offset' = base + offset + size - 1
      BY <1>1, <2>1
    <2> HIDE DEF end
    <2>5. FetchTypeOK'
      BY <1>1, <1>2, <2>1, <2>2, <2>3 DEF FetchTypeOK, PC
    <2>6. LineRight' /\ NotYetKept'
      BY <1>2, <1>3, <2>1, <2>3 DEF DecodeInv, Sound, LineRight, NotYetKept
    <2>7. ASSUME Sound'
          PROVE  SlotsRight' /\ LineFollows' /\ InHand'
      <3>1. SlotsRight /\ inHand = ip /\ base + offset = ip + 1 /\ doubt # "loose"
        BY <1>2, <2>7 DEF DecodeInv, Sound, InHand, LineFollows
      <3>2. SlotsRight'
        BY <1>1, <1>2, <2>3, <3>1 DEF SlotsRight, FetchTypeOK
      <3>3. base + offset + size - 1 = ip + size
        BY <1>1, <3>1
      <3>4. LineFollows' /\ InHand'
        BY <1>2, <2>3, <2>4, <3>1, <3>3 DEF LineFollows, InHand
      <3> QED BY <3>2, <3>4
    <2> QED BY <2>3, <2>5, <2>6, <2>7 DEF DecodeInv, Sound
  <1>5. CASE ~(end =< Line)
    <2>1. PICK n \in offset..Line :
            /\ base' = base + n /\ data' = Filled(mmu, base + n)
            /\ torn' = ~Readable(mmu, base + n)
            /\ IF Readable(mmu, base + n)
               THEN offset' = end - n /\ Decoded
               ELSE offset' = 0 /\ Raise /\ UNCHANGED <<slot, cur>>
      BY <1>5 DEF ReadOperands, size
    <2>2. /\ n \in Nat /\ base + n \in Nat /\ end - n \in 0..Line /\ 0 \in 0..Line
          /\ base + n + (end - n) = base + offset + size - 1
      BY <1>1, <1>5
    <2>3. /\ data' \in [Cell -> Byte]
          /\ ~torn' /\ mmu = Physical => \A k \in Cell : data'[k] = base' + k
      <3>1. base' = base + n /\ data' = Filled(mmu, base + n)
            /\ torn' = ~Readable(mmu, base + n)
        BY <2>1
      <3>2. base + n \in Nat /\ FetchTypeOK /\ mmu \in MMU
        BY <1>1, <2>2
      <3>3. /\ Filled(mmu, base + n) \in [Cell -> Byte]
            /\ Readable(mmu, base + n) /\ mmu = Physical =>
                 \A k \in Cell : Filled(mmu, base + n)[k] = base + n + k
        BY <3>2, FilledLine
      <3> QED BY <3>1, <3>3
    <2>4. torn' \in BOOLEAN
      BY <2>1 DEF Readable
    <2> HIDE DEF end
    <2>5. CASE Readable(mmu, base + n)
      <3>1. /\ KeptOnce' /\ pc' = "execute" /\ next' \in Nat /\ next' = ip + size
            /\ slot' \in [Index -> [used : BOOLEAN, ip : Nat, from : Byte]]
            /\ cur' \in Index
            /\ slot' = [slot EXCEPT ![cur] = [used |-> TRUE, ip |-> ip, from |-> inHand]]
        BY <1>1, <1>2, <2>1, <2>5, DecodedKeeps DEF size
      <3>2. base' + offset' = base + offset + size - 1 /\ ~torn'
        BY <2>1, <2>2, <2>5
      <3>3. FetchTypeOK'
        BY <1>1, <1>2, <2>1, <2>2, <2>3, <2>4, <2>5, <3>1 DEF FetchTypeOK, PC
      <3>4. LineRight' /\ NotYetKept'
        BY <1>2, <2>3, <3>1, <3>2 DEF DecodeInv, Sound, LineRight, NotYetKept
      <3>5. ASSUME Sound'
            PROVE  SlotsRight' /\ LineFollows' /\ InHand'
        <4>1. SlotsRight /\ inHand = ip /\ base + offset = ip + 1 /\ doubt # "loose"
          BY <1>2, <3>5 DEF DecodeInv, Sound, InHand, LineFollows
        <4>2. SlotsRight'
          BY <1>1, <1>2, <3>1, <4>1 DEF SlotsRight, FetchTypeOK
        <4>3. base + offset + size - 1 = ip + size
          BY <1>1, <4>1
        <4>4. LineFollows' /\ InHand'
          BY <1>2, <3>1, <3>2, <4>1, <4>3 DEF LineFollows, InHand
        <4> QED BY <4>2, <4>4
      <3> QED BY <3>1, <3>3, <3>4, <3>5 DEF DecodeInv, Sound
    <2>6. CASE ~Readable(mmu, base + n)
      <3>1. offset' = 0 /\ pc' = "jump" /\ next' = Handler /\ slot' = slot /\ cur' = cur
        BY <2>1, <2>6 DEF Raise
      <3>2. FetchTypeOK'
        BY <1>1, <1>2, <2>1, <2>2, <2>3, <2>4, <3>1 DEF FetchTypeOK, PC, DecodeAssumption
      <3>3. LineRight' /\ NotYetKept' /\ KeptOnce'
        BY <1>1, <1>2, <2>3, <3>1 DEF DecodeInv, Sound, LineRight, NotYetKept, KeptOnce, Holds
      <3>4. Sound' => SlotsRight' /\ LineFollows' /\ InHand'
        BY <1>2, <3>1 DEF DecodeInv, Sound, SlotsRight, LineFollows, InHand
      <3> QED BY <3>2, <3>3, <3>4 DEF DecodeInv, Sound
    <2> QED BY <2>5, <2>6
  <1> QED BY <1>4, <1>5

LEMMA LocalStep ==
    ASSUME DecodeAssumption, DecodeInv, Invalid \/ Advance \/ Jump
    PROVE  DecodeInv'
  <1>1. FetchTypeOK
    BY DEF DecodeInv, Sound
  <1>2. UNCHANGED <<inHand, slot, cur, missed, mmu, base, offset, data, torn, doubt>>
    BY DEF Invalid, Advance, Jump, cache, line, hist
  <1>3. /\ next' \in Nat /\ ip' \in Nat
        /\ pc # "head"
        /\ \/ pc' = "jump" /\ ip' = ip
           \/ pc = "execute" /\ pc' = "head" /\ ip' = next
    BY <1>1 DEF Invalid, Advance, Jump, Raise, FetchTypeOK, DecodeAssumption
  <1>4. FetchTypeOK'
    BY <1>1, <1>2, <1>3 DEF FetchTypeOK, PC
  <1>5. LineRight' /\ NotYetKept' /\ KeptOnce'
    BY <1>2, <1>3 DEF DecodeInv, Sound, LineRight, NotYetKept, KeptOnce, Holds
  <1>6. Sound' => SlotsRight' /\ LineFollows' /\ InHand'
    BY <1>2, <1>3 DEF DecodeInv, Sound, SlotsRight, LineFollows, InHand
  <1> QED BY <1>4, <1>5, <1>6 DEF DecodeInv, Sound

LEMMA JumpStep ==
    ASSUME DecodeAssumption, DecodeInv, NEW a \in Nat, MaybeSetBaseAddress(a),
           ip' = a, pc' = IF Succeeds(a) THEN "head" ELSE "stuck",
           UNCHANGED <<inHand, cache, mmu>>, next' \in Nat
    PROVE  DecodeInv'
  <1>1. FetchTypeOK /\ LineAt(a)
    BY MovedLine DEF DecodeInv, Sound
  <1>2. UNCHANGED <<inHand, slot, cur, missed, mmu>>
    BY DEF cache
  <1>3. FetchTypeOK'
    BY <1>1, <1>2 DEF FetchTypeOK, PC, LineAt
  <1>4. LineRight' /\ NotYetKept' /\ KeptOnce'
    <2>1. ~torn' /\ mmu' = Physical => \A k \in Cell : data'[k] = base' + k
      BY <1>1, <1>2 DEF LineAt
    <2>2. torn' /\ doubt' # "stale" => pc' \in {"jump", "stuck"}
      BY <1>1 DEF LineAt
    <2>3. doubt' # "stale" => mmu' = Physical
      BY <1>1, <1>2 DEF DecodeInv, Sound, LineRight, LineAt
    <2>4. NotYetKept' /\ KeptOnce'
      BY <1>2 DEF DecodeInv, Sound, NotYetKept, KeptOnce, Holds
    <2> QED BY <2>1, <2>2, <2>3, <2>4 DEF LineRight
  <1>5. /\ Sound' => SlotsRight
        /\ pc' = "head" => base' + offset' = ip'
        /\ pc' \in {"head", "stuck"} /\ doubt' # "loose"
    <2>1. Sound' => SlotsRight
      BY <1>1, <1>2 DEF DecodeInv, Sound, LineAt
    <2>2. CASE Succeeds(a)
      BY <1>1, <2>1, <2>2 DEF LineAt
    <2>3. CASE ~Succeeds(a)
      BY <1>1, <2>1, <2>3 DEF LineAt
    <2> QED BY <2>2, <2>3
  <1>6. Sound' => SlotsRight' /\ LineFollows' /\ InHand'
    BY <1>2, <1>5 DEF SlotsRight, LineFollows, InHand
  <1> QED BY <1>3, <1>4, <1>6 DEF DecodeInv, Sound

LEMMA NewMMUStep ==
    ASSUME DecodeAssumption, DecodeInv, NewMMU
    PROVE  DecodeInv'
  <1>1. FetchTypeOK
    BY DEF DecodeInv, Sound
  <1>2. PICK m \in MMU \ {mmu} :
          /\ mmu' = m /\ base' = base /\ offset' = 0 /\ data' = Filled(m, base)
          /\ torn' = ~Readable(m, base)
          /\ pc' = IF Readable(m, base) THEN "head" ELSE "stuck"
    BY DEF NewMMU, CacheMiss
  <1>3. doubt' = "stale" /\ UNCHANGED <<ip, next, inHand, slot, cur, missed>>
    BY DEF NewMMU, cache
  <1>4. /\ data' \in [Cell -> Byte]
        /\ ~torn' /\ mmu' = Physical => \A k \in Cell : data'[k] = base' + k
    BY <1>1, <1>2, FilledLine DEF FetchTypeOK
  <1>5. torn' \in BOOLEAN /\ 0 \in 0..Line
    BY <1>2 DEF Readable, DecodeAssumption
  <1>6. FetchTypeOK'
    BY <1>1, <1>2, <1>3, <1>4, <1>5 DEF FetchTypeOK, PC
  <1>7. LineRight' /\ NotYetKept' /\ KeptOnce'
    BY <1>2, <1>3, <1>4 DEF DecodeInv, Sound, LineRight, NotYetKept, KeptOnce, Holds
  <1> QED BY <1>3, <1>6, <1>7 DEF DecodeInv, Sound

\* A branch whose target cannot be read: the line has moved, IP has not.
LEMMA BranchStep ==
    ASSUME DecodeAssumption, DecodeInv, Branch
    PROVE  DecodeInv'
  <1>1. PICK a \in Target :
          /\ MaybeSetBaseAddress(a)
          /\ IF Succeeds(a)
             THEN ip' = a /\ next' = a /\ pc' = "head"
             ELSE Raise /\ UNCHANGED ip
    BY DEF Branch
  <1>2. a \in Nat /\ UNCHANGED <<inHand, cache, mmu>>
    BY DEF Branch, DecodeAssumption
  <1>3. CASE Succeeds(a)
    BY <1>1, <1>2, <1>3, JumpStep
  <1>4. CASE ~Succeeds(a)
    <2>1. /\ ip' = ip /\ next' = Handler /\ pc' = "jump"
          /\ UNCHANGED <<inHand, slot, cur, missed, mmu>>
      BY <1>1, <1>2, <1>4 DEF Raise, cache
    <2>2. FetchTypeOK /\ LineAt(a)
      BY <1>1, <1>2, MovedLine DEF DecodeInv
    <2>3. FetchTypeOK'
      BY <2>1, <2>2 DEF FetchTypeOK, PC, LineAt, DecodeAssumption
    <2>4. LineRight' /\ NotYetKept' /\ KeptOnce'
      BY <2>1, <2>2 DEF DecodeInv, LineAt, LineRight, NotYetKept, KeptOnce, Holds
    <2>5. Sound' => SlotsRight' /\ LineFollows' /\ InHand'
      BY <2>1, <2>2 DEF DecodeInv, LineAt, SlotsRight, LineFollows, InHand
    <2> QED BY <2>3, <2>4, <2>5 DEF DecodeInv
  <1> QED BY <1>3, <1>4

\* A change of mode after a miss leaves the line where it stands: loose.
LEMMA ChangeModeStep ==
    ASSUME DecodeAssumption, DecodeInv, ChangeMode
    PROVE  DecodeInv'
  <1>1. /\ pc = "execute" /\ pc' = "head" /\ ip' \in Nat /\ next' \in Nat
        /\ UNCHANGED <<inHand, slot, cur, missed, mmu, base, offset, data, torn>>
        /\ doubt' = IF doubt = "none" /\ missed THEN "loose" ELSE doubt
    BY DEF ChangeMode, cache, line, DecodeAssumption
  <1>2. FetchTypeOK'
    BY <1>1 DEF DecodeInv, FetchTypeOK, PC
  <1>3. LineRight' /\ NotYetKept' /\ KeptOnce'
    BY <1>1 DEF DecodeInv, LineRight, NotYetKept, KeptOnce, Holds
  <1>4. Sound' => SlotsRight' /\ LineFollows' /\ InHand'
    BY <1>1, <1>2 DEF DecodeInv, Sound, SlotsRight, LineFollows, InHand, FetchTypeOK
  <1> QED BY <1>2, <1>3, <1>4 DEF DecodeInv

-----------------------------------------------------------------------------
\* The invariant of the decode cache, for every program.
THEOREM DecodeInvariance ==
    ASSUME DecodeAssumption
    PROVE  FetchSpec => []DecodeInv
  <1>1. FetchInit => DecodeInv
    BY InitInv
  <1>2. DecodeInv /\ [FetchNext]_fetchVars => DecodeInv'
    <2> SUFFICES ASSUME DecodeInv, [FetchNext]_fetchVars PROVE DecodeInv'
      OBVIOUS
    <2>1. CASE Hit
      BY <2>1, HitStep
    <2>2. CASE Miss
      BY <2>2, MissStep
    <2>3. CASE Seek
      BY <2>3, SeekStep
    <2>4. CASE NextLine
      BY <2>4, NextLineStep
    <2>5. CASE ReadOpcode
      BY <2>5, ReadOpcodeStep
    <2>6. CASE ReadOperands
      BY <2>6, ReadOperandsStep
    <2>7. CASE Invalid \/ Advance \/ Jump
      BY <2>7, LocalStep
    <2>8. CASE SwitchToIP
      <3>1. next \in Nat
        BY DEF DecodeInv, FetchTypeOK
      <3> QED BY <2>8, <3>1, JumpStep DEF SwitchToIP
    <2>9. CASE Interrupt
      <3>1. Handler \in Nat /\ next \in Nat
        BY DEF DecodeAssumption, DecodeInv, FetchTypeOK
      <3> QED BY <2>9, <3>1, JumpStep DEF Interrupt
    <2>10. CASE NewMMU
      BY <2>10, NewMMUStep
    <2>11. CASE Branch
      BY <2>11, BranchStep
    <2>12. CASE ChangeMode
      BY <2>12, ChangeModeStep
    <2>13. CASE UNCHANGED fetchVars
      BY <2>13 DEF fetchVars, cache, line, hist, DecodeInv, Sound, FetchTypeOK, LineRight, NotYetKept,
                   KeptOnce, Holds, SlotsRight, LineFollows, InHand
    <2> QED BY <2>1, <2>2, <2>3, <2>4, <2>5, <2>6, <2>7, <2>8, <2>9, <2>10, <2>11, <2>12, <2>13 DEF FetchNext
  <1> QED BY <1>1, <1>2, PTL DEF FetchSpec

\* What ExecutionLoop executes is the instruction at IP, for every program,
\* every memory and every size of the two caches: until the MMU changes, a
\* line is used whose fill failed, or an instruction is decoded right after a
\* change of mode that was decoded itself.
THEOREM RightInstructionCorrect ==
    ASSUME DecodeAssumption
    PROVE  FetchSpec => []RightInstruction
  <1>1. DecodeInv => RightInstruction
    BY DEF DecodeInv, Sound, InHand, RightInstruction
  <1> QED BY <1>1, DecodeInvariance, PTL

\* FindIPInInsCache finds an instruction in at most one slot but slot 0.
THEOREM KeptOnceCorrect ==
    ASSUME DecodeAssumption
    PROVE  FetchSpec => []KeptOnce
  <1>1. DecodeInv => KeptOnce
    BY DEF DecodeInv, Sound
  <1> QED BY <1>1, DecodeInvariance, PTL

\* The model of the decode cache is typed for every program.
THEOREM DecodeTypeCorrect ==
    ASSUME DecodeAssumption
    PROVE  FetchSpec => []FetchTypeOK
  <1>1. DecodeInv => FetchTypeOK
    BY DEF DecodeInv, Sound
  <1> QED BY <1>1, DecodeInvariance, PTL
=============================================================================
