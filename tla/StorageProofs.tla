--------------------------- MODULE StorageProofs ---------------------------
(***************************************************************************)
(* Proofs about the storage device, for every memory, file and set of      *)
(* requests, and a guest that may issue the next command at RDY.           *)
(*                                                                         *)
(* The invariant says where the guest may be while the emulator thread is  *)
(* in StartTransfer: it may have gone on, and issue the next command, only *)
(* behind the copy, in the tail of a transfer.  There the flag INT may be  *)
(* that of the next request already, but then that command waits for the   *)
(* lock until the tail is over.  Once both threads have written the status *)
(* at once (lost), nothing of this need hold.                              *)
(*                                                                         *)
(* A second invariant says what memory and the file hold: as they were     *)
(* until the copy begins, then with the first blocks of the request moved, *)
(* those before the item that is next, until RDY.                          *)
(***************************************************************************)
EXTENDS Storage, TLAPS, SequenceTheorems, NaturalsInduction, WellFoundedInduction

Bits == [en : BOOLEAN, err : BOOLEAN, rdy : BOOLEAN, trn : BOOLEAN,
         inte : BOOLEAN, intp : BOOLEAN]

ControlOK ==
    /\ gpc \in {"free", "flags", "raise", "event"}
    /\ epc \in {"idle", "parse", "copy", "stuck", "test", "pending", "interrupt"}
    /\ status \in Bits /\ read \in Bits
    /\ transfer \in [lba : Nat, count : Nat, int : BOOLEAN, write : BOOLEAN]
    /\ number \in Nat /\ issued \in Nat
    /\ request.int \in BOOLEAN /\ request.write \in BOOLEAN
    /\ owed \in BOOLEAN

\* One event at most, and the lock is held while it is handled.
OneEvent ==
    /\ events \in {0, 1}
    /\ epc # "idle" => events = 1
    /\ (lock <=> epc # "idle")

\* A command is under way that begins a transfer.
Begins == gpc \in {"flags", "raise"}

\* The copy is over, if there was one.
Over == \/ epc = "idle" /\ events = 0
        \/ epc \in {"test", "pending", "interrupt"}

\* The transfer is queued or under way.
Busy == \/ epc = "idle" /\ events = 1
        \/ epc \in {"parse", "copy", "stuck"}

CommandInv ==
    /\ Begins => Over /\ ~status.rdy
    /\ gpc = "raise" => (transfer.int <=> request.int)
    /\ issued = 0 => epc = "idle" /\ events = 0 /\ ~Begins /\ ~status.trn
    /\ status.rdy => ~status.trn

TransferInv ==
    /\ Busy => /\ ~Begins /\ ~status.rdy
               /\ (owed <=> request.int) /\ (transfer.int <=> request.int)
    /\ epc = "test" /\ gpc # "raise" => (transfer.int <=> owed)
    /\ epc \in {"pending", "interrupt"} /\ gpc # "raise" => owed

DeviceInv == ControlOK /\ OneEvent /\ CommandInv /\ TransferInv

-----------------------------------------------------------------------------
\* A guest that has seen the end of the last transfer meets the emulator
\* thread in the tail of StartTransfer at the latest.
LEMMA FreeInTail ==
    ASSUME DeviceInv, Free
    PROVE  Over /\ gpc = "free" /\ ~status.trn
  BY DEF DeviceInv, ControlOK, OneEvent, CommandInv, TransferInv, Free, Over,
         Busy, Begins, Bits

LEMMA InitInv ==
    ASSUME Init
    PROVE  DeviceInv
  BY StorageAssumption DEF Init, Off, NoRequest, DeviceInv, ControlOK, OneEvent,
     CommandInv, TransferInv, Over, Busy, Begins, Bits

\* What a command that ends at once leaves as it was.
LEMMA EndsAtOnce ==
    ASSUME DeviceInv, Free,
           status' \in Bits, ~status'.trn,
           issued' \in Nat, issued' # 0,
           UNCHANGED <<Rest, bus, gpc, request, owed>>
    PROVE  DeviceInv'
  BY FreeInTail DEF DeviceInv, ControlOK, OneEvent, CommandInv, TransferInv, Over,
     Busy, Begins, Bits, Rest, bus, buffer, loop

-----------------------------------------------------------------------------
\* The steps of the execution thread.
LEMMA CommandStep ==
    ASSUME DeviceInv, HandleCommand
    PROVE  DeviceInv'
<1>1. ASSUME NEW en \in BOOLEAN, NEW inte \in BOOLEAN, Configure(en, inte)
      PROVE  DeviceInv'
  <2>1. Free /\ issued' \in Nat /\ issued' # 0
    BY <1>1 DEF Configure, Issues, DeviceInv, ControlOK
  <2>2. status' \in Bits /\ status'.trn = status.trn
    <3>1. PICK s \in Bits : s = status
      BY DEF DeviceInv, ControlOK
    <3>2. PICK t : t = [s EXCEPT !.en = en, !.inte = inte, !.err = FALSE, !.rdy = TRUE]
      OBVIOUS
    <3>3. t \in Bits /\ t.trn = s.trn
      BY <3>1, <3>2 DEF Bits
    <3> QED BY <1>1, <3>1, <3>2, <3>3 DEF Configure
  <2>3. UNCHANGED <<Rest, bus, gpc, request, owed>>
    BY <1>1 DEF Configure
  <2> QED  BY <2>1, <2>2, <2>3, FreeInTail, EndsAtOnce
<1>2. ASSUME NEW b \in Target, GetDeviceInfo(b)
      PROVE  DeviceInv'
  <2>1. Free /\ issued' \in Nat /\ issued' # 0
    BY <1>2 DEF GetDeviceInfo, Issues, DeviceInv, ControlOK
  <2>2. status' \in Bits /\ status'.trn = status.trn
    BY <1>2 DEF GetDeviceInfo, DeviceInv, ControlOK, Bits
  <2>3. UNCHANGED <<Rest, bus, gpc, request, owed>>
    BY <1>2 DEF GetDeviceInfo
  <2> QED  BY <2>1, <2>2, <2>3, FreeInTail, EndsAtOnce
<1>3. ASSUME Acknowledge
      PROVE  DeviceInv'
  <2>1. Free /\ status' \in Bits /\ status'.trn = status.trn /\ status'.rdy = status.rdy
    BY <1>3 DEF Acknowledge, DeviceInv, ControlOK, Bits
  <2> QED
    BY <1>3, <2>1, FreeInTail DEF Acknowledge, DeviceInv, ControlOK, OneEvent,
       CommandInv, TransferInv, Over, Busy, Begins, Bits, Rest, bus, buffer, loop, hist
<1>4. ASSUME NEW r \in Request, Refuse(r)
      PROVE  DeviceInv'
  <2>1. Free /\ issued' \in Nat /\ issued' # 0
    BY <1>4 DEF Refuse, Issues, DeviceInv, ControlOK
  <2>2. status' \in Bits /\ ~status'.trn
    BY <1>4 DEF Refuse, DeviceInv, ControlOK, Bits
  <2>3. UNCHANGED <<Rest, bus, gpc, request, owed>>
    BY <1>4 DEF Refuse
  <2> QED  BY <2>1, <2>2, <2>3, EndsAtOnce
<1>5. ASSUME NEW r \in Request, Accept(r)
      PROVE  DeviceInv'
  <2>1. Free /\ issued' \in Nat /\ issued' # 0
        /\ r.int \in BOOLEAN /\ r.write \in BOOLEAN
    BY <1>5, StorageAssumption DEF Accept, Issues, DeviceInv, ControlOK
  <2>2. status' \in Bits /\ ~status'.rdy
    BY <1>5 DEF Accept, DeviceInv, ControlOK, Bits
  <2>3. transfer' \in [lba : Nat, count : Nat, int : BOOLEAN, write : BOOLEAN]
        /\ transfer'.int = transfer.int
    <3>1. r.lba \in Nat /\ r.count \in Nat
      BY StorageAssumption
    <3> QED BY <1>5, <3>1 DEF Accept, DeviceInv, ControlOK
  <2> QED
    BY <1>5, <2>1, <2>2, <2>3, FreeInTail DEF Accept, DeviceInv, ControlOK, OneEvent,
       CommandInv, TransferInv, Over, Busy, Begins, bus, buffer, loop
<1>6. ASSUME SetFlags
      PROVE  DeviceInv'
  <2>1. Over /\ gpc = "flags" /\ gpc' = "raise"
    BY <1>6 DEF SetFlags, DeviceInv, CommandInv, Begins
  <2>2. /\ transfer' \in [lba : Nat, count : Nat, int : BOOLEAN, write : BOOLEAN]
        /\ transfer'.int = request.int
    BY <1>6, <2>1 DEF SetFlags, DeviceInv, ControlOK
  <2> QED
    BY <1>6, <2>1, <2>2 DEF SetFlags, DeviceInv, ControlOK, OneEvent,
       CommandInv, TransferInv, Over, Busy, Begins, bus, buffer, loop, hist
<1>7. ASSUME RaiseEvent
      PROVE  DeviceInv'
  <2>1. /\ epc = "idle" /\ events = 0 /\ ~status.rdy /\ gpc = "raise"
        /\ (transfer.int <=> request.int)
    BY <1>7 DEF RaiseEvent, DeviceInv, OneEvent, CommandInv, Over, Begins
  <2> QED
    BY <1>7, <2>1 DEF RaiseEvent, DeviceInv, ControlOK, OneEvent,
       CommandInv, TransferInv, Over, Busy, Begins, bus, buffer, loop
<1>8. ASSUME NEW n \in Number, SetInterruptMapping(n)
      PROVE  DeviceInv'
  <2>1. Free /\ issued' \in Nat /\ issued' # 0 /\ n \in Nat
    BY <1>8, StorageAssumption DEF SetInterruptMapping, Issues, DeviceInv, ControlOK
  <2> QED
    BY <1>8, <2>1, FreeInTail DEF SetInterruptMapping, DeviceInv, ControlOK,
       OneEvent, CommandInv, TransferInv, Over, Busy, Begins, Rest, buffer, loop, hist
<1>9. ASSUME RaiseOther
      PROVE  DeviceInv'
  BY <1>9 DEF RaiseOther, DeviceInv, ControlOK, OneEvent, CommandInv, TransferInv, Over,
     Busy, Begins, Rest, bus, buffer, loop, hist
<1> QED
  BY <1>1, <1>2, <1>3, <1>4, <1>5, <1>6, <1>7, <1>8, <1>9 DEF HandleCommand

\* The steps of the emulator thread.
LEMMA EmulatorStep ==
    ASSUME DeviceInv, StartTransfer, ~lost'
    PROVE  DeviceInv'
<1> USE DEF Emulates, Return, contents, buffer, bus, loop, hist,
            OneEvent, TransferInv, CommandInv, Over, Busy, Begins
<1>1. CASE TakeEvent
  BY <1>1 DEF TakeEvent, DeviceInv, ControlOK
<1>2. CASE ParseFails
  <2>1. status' \in Bits /\ ~status'.trn
    BY <1>2 DEF ParseFails, DeviceInv, ControlOK, Bits
  <2>2. /\ epc' = "idle" /\ events' = 0 /\ lock' = FALSE /\ owed' = FALSE /\ ~Begins
        /\ UNCHANGED <<gpc, request, transfer, issued, number, read>>
    BY <1>2 DEF ParseFails, DeviceInv
  <2>3. issued # 0
    BY <1>2 DEF ParseFails, DeviceInv
  <2>4. ControlOK'
    BY <2>1, <2>2 DEF DeviceInv, ControlOK
  <2>5. OneEvent' /\ CommandInv' /\ TransferInv'
    BY <2>1, <2>2, <2>3
  <2> QED  BY <2>4, <2>5 DEF DeviceInv
<1>3. CASE ParseList
  BY <1>3 DEF ParseList, DeviceInv, ControlOK
<1>4. CASE SkipItem
  BY <1>4 DEF SkipItem, DeviceInv, ControlOK
<1>5. CASE CopyItem
  BY <1>5 DEF CopyItem, DeviceInv, ControlOK
<1>6. CASE CopyFaults
  BY <1>6 DEF CopyFaults, DeviceInv, ControlOK
<1>7. CASE Finish
  <2>1. status' \in Bits /\ ~status'.trn
    BY <1>7 DEF Finish, DeviceInv, ControlOK, Bits
  <2> QED  BY <1>7, <2>1 DEF Finish, DeviceInv, ControlOK
<1>8. CASE NoInterrupt
  BY <1>8 DEF NoInterrupt, DeviceInv, ControlOK
<1>9. CASE ReadStatus
  BY <1>9 DEF ReadStatus, DeviceInv, ControlOK
<1>10. CASE SetPending
  <2>1. status' = [status EXCEPT !.intp = TRUE]
    BY <1>10 DEF SetPending
  <2>2. status' \in Bits /\ status'.trn = status.trn /\ status'.rdy = status.rdy
    BY <2>1 DEF DeviceInv, ControlOK, Bits
  <2> QED  BY <1>10, <2>2 DEF SetPending, DeviceInv, ControlOK
<1>11. CASE NotMapped
  <2>1. /\ epc' = "idle" /\ events' = 0 /\ lock' = FALSE /\ owed' = FALSE
        /\ UNCHANGED <<gpc, request, transfer, issued, number, read, status>>
    BY <1>11 DEF NotMapped, DeviceInv
  <2>2. issued # 0
    BY <1>11 DEF NotMapped, DeviceInv
  <2>3. ControlOK'
    BY <2>1 DEF DeviceInv, ControlOK
  <2>4. OneEvent' /\ CommandInv' /\ TransferInv'
    BY <2>1, <2>2 DEF DeviceInv
  <2> QED  BY <2>3, <2>4 DEF DeviceInv
<1>12. CASE Deliver
  <2>1. /\ epc' = "idle" /\ events' = 0 /\ lock' = FALSE /\ owed' = FALSE
        /\ UNCHANGED <<gpc, request, transfer, issued, number, read, status>>
    BY <1>12 DEF Deliver, DeviceInv
  <2>2. issued # 0
    BY <1>12 DEF Deliver, DeviceInv
  <2>3. ControlOK'
    BY <2>1 DEF DeviceInv, ControlOK
  <2>4. OneEvent' /\ CommandInv' /\ TransferInv'
    BY <2>1, <2>2 DEF DeviceInv
  <2> QED  BY <2>3, <2>4 DEF DeviceInv
<1> QED
  BY <1>1, <1>2, <1>3, <1>4, <1>5, <1>6, <1>7, <1>8, <1>9, <1>10, <1>11, <1>12
     DEF StartTransfer

LEMMA OtherStep ==
    ASSUME DeviceInv, OtherHandled
    PROVE  DeviceInv'
  BY DEF OtherHandled, DeviceInv, ControlOK, OneEvent, CommandInv, TransferInv, Over,
     Busy, Begins, Rest, bus, buffer, loop, hist

LEMMA StutterInv ==
    ASSUME DeviceInv, UNCHANGED vars
    PROVE  DeviceInv'
  BY DEF DeviceInv, ControlOK, OneEvent, CommandInv, TransferInv, Over, Busy, Begins,
     vars, contents, buffer, bus, loop, hist

\* A status that was lost stays so.
LEMMA LostStays ==
    ASSUME lost, [Next]_vars
    PROVE  lost'
<1> USE DEF Emulates, contents, buffer, bus, loop, hist, Rest
<1>1. CASE HandleCommand
  BY <1>1 DEF HandleCommand, Configure, GetDeviceInfo, Acknowledge, Accept, Refuse,
     SetFlags, RaiseEvent, SetInterruptMapping, RaiseOther
<1>2. CASE OtherHandled
  BY <1>2 DEF OtherHandled
<1>3. CASE StartTransfer
  BY <1>3 DEF StartTransfer, TakeEvent, ParseFails, ParseList, SkipItem, CopyItem,
     CopyFaults, Finish, NoInterrupt, ReadStatus, SetPending, NotMapped, Deliver
<1>4. CASE UNCHANGED vars
  BY <1>4 DEF vars
<1> QED BY <1>1, <1>2, <1>3, <1>4 DEF Next

-----------------------------------------------------------------------------
\* The invariant of the device, whatever the guest asks for and wherever the
\* two threads are, until both write the status at once (HandleCommand,
\* StartTransfer).
THEOREM DeviceInvariance == Spec => [](lost \/ DeviceInv)
<1>1. Init => lost \/ DeviceInv
  BY InitInv
<1>2. (lost \/ DeviceInv) /\ [Next]_vars => (lost \/ DeviceInv)'
  BY CommandStep, EmulatorStep, OtherStep, StutterInv, LostStays DEF Next
<1> QED  BY <1>1, <1>2, PTL DEF Spec

\* RDY means that no command and no transfer is under way, and the guest may
\* use the regions of the list: until both threads write the status at once.
THEOREM ReadyCorrect == Spec => []ReadyMeansDone
<1>1. (lost \/ DeviceInv) => ReadyMeansDone
  BY DEF DeviceInv, ControlOK, OneEvent, CommandInv, TransferInv, Over, Busy, Begins,
     ReadyMeansDone, Done
<1> QED  BY <1>1, DeviceInvariance, PTL

\* An interrupt answers a request that asked for it and was not answered; and
\* none that was asked for is passed over, unless the flags of the next
\* request are there already.
THEOREM InterruptCorrect == Spec => InterruptAnswers
<1>1. (lost \/ DeviceInv) /\ [Next]_vars =>
        [~lost => /\ Deliver => owed
                  /\ NoInterrupt /\ gpc # "raise" => ~owed]_vars
  BY DEF DeviceInv, TransferInv, Deliver, NoInterrupt
<1> QED  BY <1>1, DeviceInvariance, PTL DEF Spec, InterruptAnswers
-----------------------------------------------------------------------------
(* Sequences and recursion.                                                *)

Item == [start : Nat, size : Nat]
Node == [mapped : BOOLEAN, items : Seq(Item)]

LEMMA Induction ==
    ASSUME NEW n \in Nat, NEW T,
           0 \in T, \A k \in 0..(n - 1) : k \in T => k + 1 \in T
    PROVE  0..n \subseteq T
  <1> DEFINE Less == {p \in Nat \X Nat : p[1] < p[2]}
             Missed == (0..n) \ T
  <1>1. IsWellFoundedOn(Less, Nat)
    BY NatLessThanWellFounded, Zenon DEF OpToRel
  <1>2. \A x, y \in Nat : y < x => <<y, x>> \in Less
    OBVIOUS
  <1> SUFFICES ASSUME Missed # {}
               PROVE  FALSE
    OBVIOUS
  <1>3. Missed \in SUBSET Nat
    OBVIOUS
  <1>4. PICK x \in Missed : \A y \in Missed : <<y, x>> \notin Less
    <2> HIDE DEF Less, Missed
    <2> QED BY <1>1, <1>3, WFMin
  <1> HIDE DEF Less
  <1>5. x \in 1..n
    OBVIOUS
  <1>6. x - 1 \in Nat /\ x - 1 < x /\ x - 1 \in 0..(n - 1) /\ x = (x - 1) + 1
    BY <1>5
  <1>7. x - 1 \in Missed
    BY <1>6
  <1>8. <<x - 1, x>> \in Less
    BY <1>2, <1>5, <1>6
  <1> QED BY <1>4, <1>7, <1>8

\* F begins with c and goes on with what G makes of its last value.
Recursive(F, c, n, G) ==
    \A k \in 0..n : F[k] = IF k = 0 THEN c ELSE G[<<F[k - 1], k>>]

\* A function on 0..n can be defined by recursion.
LEMMA Recursion ==
    ASSUME NEW S, NEW c \in S, NEW n \in Nat, NEW G \in [S \X (1..n) -> S]
    PROVE  \E F \in [0..n -> S] : Recursive(F, c, n, G)
  <1> DEFINE Solves(F, m) ==
               \A k \in 0..m : F[k] = IF k = 0 THEN c ELSE G[<<F[k - 1], k>>]
             T == {m \in 0..n : \E F \in [0..m -> S] : Solves(F, m)}
  <1>1. 0 \in T
    <2>1. [k \in 0..0 |-> c] \in [0..0 -> S] /\ Solves([k \in 0..0 |-> c], 0)
      OBVIOUS
    <2>2. 0 \in 0..n
      OBVIOUS
    <2> HIDE DEF Solves
    <2> QED BY <2>1, <2>2
  <1>2. ASSUME NEW m \in 0..(n - 1), m \in T
        PROVE  m + 1 \in T
    <2>1. PICK F \in [0..m -> S] : Solves(F, m)
      BY <1>2
    <2> DEFINE H == [k \in 0..(m + 1) |-> IF k = m + 1 THEN G[<<F[m], m + 1>>] ELSE F[k]]
    <2>2. <<F[m], m + 1>> \in S \X (1..n)
      OBVIOUS
    <2>3. G[<<F[m], m + 1>>] \in S
      BY <2>2
    <2>4. H \in [0..(m + 1) -> S]
      BY <2>3
    <2>5. Solves(H, m + 1)
      <3> SUFFICES ASSUME NEW k \in 0..(m + 1)
                   PROVE  H[k] = IF k = 0 THEN c ELSE G[<<H[k - 1], k>>]
        OBVIOUS
      <3>1. CASE k = m + 1
        <4>1. H[m] = F[m] /\ H[k] = G[<<F[m], m + 1>>] /\ k - 1 = m /\ k # 0
          BY <3>1
        <4> QED BY <3>1, <4>1
      <3>2. CASE k # m + 1
        <4>1. k \in 0..m /\ (k # 0 => k - 1 \in 0..m /\ k - 1 # m + 1)
          BY <3>2
        <4>2. H[k] = F[k] /\ (k # 0 => H[k - 1] = F[k - 1])
          BY <3>2, <4>1
        <4> HIDE DEF H
        <4> QED BY <2>1, <4>1, <4>2
      <3> QED BY <3>1, <3>2
    <2> HIDE DEF H, Solves
    <2>6. m + 1 \in 0..n
      OBVIOUS
    <2> QED BY <2>4, <2>5, <2>6
  <1> HIDE DEF T
  <1>3. n \in T
    <2>1. 0..n \subseteq T
      BY <1>1, <1>2, Induction
    <2> QED BY <2>1
  <1> QED BY <1>3 DEF T, Recursive

LEMMA ItemsProperties ==
    ASSUME NEW its \in Seq(Item)
    PROVE  /\ Len(its) \in Nat /\ DOMAIN its = 1..Len(its)
           /\ \A k \in 1..Len(its) :
                 its[k] \in Item /\ its[k].start \in Nat /\ its[k].size \in Nat
  <1>1. Len(its) \in Nat /\ DOMAIN its = 1..Len(its)
    BY LenProperties
  <1>2. ASSUME NEW k \in 1..Len(its)
        PROVE  its[k] \in Item /\ its[k].start \in Nat /\ its[k].size \in Nat
    <2>1. its[k] \in Item
      BY ElementOfSeq
    <2> QED BY <2>1 DEF Item
  <1> QED BY <1>1, <1>2

LEMMA SeqOfFunction ==
    ASSUME NEW S, NEW n \in Nat, NEW f \in [1..n -> S]
    PROVE  f \in Seq(S) /\ Len(f) = n
  OBVIOUS

EndsOf(its, F) ==
    [k \in 0..Len(its) |-> IF k = 0 THEN 0 ELSE F[k - 1] + its[k].size]

\* The ends of the items are what their definition says.
LEMMA EndsProperties ==
    ASSUME NEW its \in Seq(Item)
    PROVE  /\ Ends(its) \in [0..Len(its) -> Nat]
           /\ Ends(its)[0] = 0
           /\ \A k \in 1..Len(its) : Ends(its)[k] = Ends(its)[k - 1] + its[k].size
  <1> DEFINE n == Len(its)
             G == [p \in Nat \X (1..n) |-> p[1] + its[p[2]].size]
             end[k \in 0..Len(its)] == IF k = 0 THEN 0 ELSE end[k - 1] + its[k].size
  <1>1. n \in Nat /\ \A k \in 1..n : its[k].size \in Nat
    BY ItemsProperties
  <1>2. Ends(its) = end
    BY DEF Ends
  <1>3. end = CHOOSE F : F = EndsOf(its, F)
    BY DEF EndsOf
  <1> HIDE DEF end
  <1>4. G \in [Nat \X (1..n) -> Nat]
    BY <1>1
  <1>5. PICK F \in [0..n -> Nat] :
               \A k \in 0..n : F[k] = IF k = 0 THEN 0 ELSE G[<<F[k - 1], k>>]
    <2> HIDE DEF G, n
    <2>1. \E F \in [0..n -> Nat] : Recursive(F, 0, n, G)
      BY <1>1, <1>4, Recursion
    <2> QED BY <2>1 DEF Recursive
  <1>6. ASSUME NEW k \in 0..n
        PROVE  F[k] = IF k = 0 THEN 0 ELSE F[k - 1] + its[k].size
    <2>1. CASE k = 0
      BY <1>5, <2>1
    <2>2. CASE k # 0
      <3>1. k - 1 \in 0..n /\ k \in 1..n
        BY <1>1, <2>2
      <3>2. <<F[k - 1], k>> \in Nat \X (1..n)
        BY <3>1
      <3>3. G[<<F[k - 1], k>>] = F[k - 1] + its[k].size
        BY <3>2
      <3> QED BY <1>5, <2>2, <3>3
    <2> QED BY <2>1, <2>2
  <1>7. F = EndsOf(its, F)
    BY <1>6 DEF EndsOf
  <1>8. end = EndsOf(its, end)
    BY <1>3, <1>7
  <1>9. end = [k \in 0..n |-> IF k = 0 THEN 0 ELSE end[k - 1] + its[k].size]
    BY <1>8 DEF EndsOf
  <1> DEFINE T == {k \in 0..n : end[k] \in Nat}
  <1>10. 0 \in T /\ \A k \in 0..(n - 1) : k \in T => k + 1 \in T
    <2>1. 0 \in T
      BY <1>1, <1>9
    <2>2. ASSUME NEW k \in 0..(n - 1), k \in T
          PROVE  k + 1 \in T
      <3>1. k + 1 \in 1..n /\ k + 1 \in 0..n /\ (k + 1) - 1 = k /\ k + 1 # 0
        BY <1>1
      <3>2. end[k + 1] = end[k] + its[k + 1].size
        BY <1>9, <3>1
      <3> QED BY <1>1, <2>2, <3>1, <3>2
    <2> QED BY <2>1, <2>2
  <1>11. 0..n \subseteq T
    <2> HIDE DEF T, n
    <2> QED BY <1>1, <1>10, Induction
  <1>12. end \in [0..n -> Nat]
    BY <1>9, <1>11
  <1>13. end[0] = 0
    BY <1>1, <1>9
  <1>14. ASSUME NEW k \in 1..n
         PROVE  end[k] = end[k - 1] + its[k].size
    <2>1. k \in 0..n /\ k # 0
      OBVIOUS
    <2> QED BY <1>9, <2>1
  <1> QED BY <1>2, <1>12, <1>13, <1>14

UptoOf(seqs, F) ==
    [k \in 0..Len(seqs) |-> IF k = 0 THEN <<>> ELSE F[k - 1] \o seqs[k]]

\* And so is one sequence after the other.
LEMMA JoinedProperties ==
    ASSUME NEW S, NEW seqs \in Seq(Seq(S))
    PROVE  \E upto \in [0..Len(seqs) -> Seq(S)] :
              /\ Joined(seqs) = upto[Len(seqs)]
              /\ upto[0] = <<>>
              /\ \A k \in 1..Len(seqs) : upto[k] = upto[k - 1] \o seqs[k]
  <1> DEFINE n == Len(seqs)
             G == [p \in Seq(S) \X (1..n) |-> p[1] \o seqs[p[2]]]
             upto[k \in 0..Len(seqs)] == IF k = 0 THEN <<>> ELSE upto[k - 1] \o seqs[k]
  <1>1. n \in Nat /\ \A k \in 1..n : seqs[k] \in Seq(S)
    BY LenProperties, ElementOfSeq
  <1>2. Joined(seqs) = upto[n]
    BY DEF Joined
  <1>3. upto = CHOOSE F : F = UptoOf(seqs, F)
    BY DEF UptoOf
  <1> HIDE DEF upto
  <1>4. G \in [Seq(S) \X (1..n) -> Seq(S)]
    BY <1>1, ConcatProperties
  <1>5. PICK F \in [0..n -> Seq(S)] :
               \A k \in 0..n : F[k] = IF k = 0 THEN <<>> ELSE G[<<F[k - 1], k>>]
    <2> HIDE DEF G, n
    <2>1. <<>> \in Seq(S)
      BY EmptySeq
    <2>2. \E F \in [0..n -> Seq(S)] : Recursive(F, <<>>, n, G)
      BY <1>1, <1>4, <2>1, Recursion
    <2> QED BY <2>2 DEF Recursive
  <1>6. ASSUME NEW k \in 0..n
        PROVE  F[k] = IF k = 0 THEN <<>> ELSE F[k - 1] \o seqs[k]
    <2>1. CASE k = 0
      BY <1>5, <2>1
    <2>2. CASE k # 0
      <3>1. k - 1 \in 0..n /\ k \in 1..n
        BY <1>1, <2>2
      <3>2. <<F[k - 1], k>> \in Seq(S) \X (1..n)
        BY <3>1
      <3>3. G[<<F[k - 1], k>>] = F[k - 1] \o seqs[k]
        BY <3>2
      <3> QED BY <1>5, <2>2, <3>3
    <2> QED BY <2>1, <2>2
  <1>7. F = UptoOf(seqs, F)
    BY <1>6 DEF UptoOf
  <1>8. upto = UptoOf(seqs, upto)
    BY <1>3, <1>7
  <1>9. upto = [k \in 0..n |-> IF k = 0 THEN <<>> ELSE upto[k - 1] \o seqs[k]]
    BY <1>8 DEF UptoOf
  <1> DEFINE T == {k \in 0..n : upto[k] \in Seq(S)}
  <1>10. 0 \in T /\ \A k \in 0..(n - 1) : k \in T => k + 1 \in T
    <2>1. 0 \in T
      BY <1>1, <1>9
    <2>2. ASSUME NEW k \in 0..(n - 1), k \in T
          PROVE  k + 1 \in T
      <3>1. k + 1 \in 1..n /\ k + 1 \in 0..n /\ (k + 1) - 1 = k /\ k + 1 # 0
        BY <1>1
      <3>2. upto[k + 1] = upto[k] \o seqs[k + 1]
        BY <1>9, <3>1
      <3>3. upto[k + 1] \in Seq(S)
        BY <1>1, <2>2, <3>1, <3>2, ConcatProperties
      <3> QED BY <3>1, <3>3
    <2> QED BY <2>1, <2>2
  <1>11. 0..n \subseteq T
    <2> HIDE DEF T, n
    <2> QED BY <1>1, <1>10, Induction
  <1>12. upto \in [0..n -> Seq(S)]
    BY <1>9, <1>11
  <1>13. upto[0] = <<>>
    BY <1>1, <1>9
  <1>14. ASSUME NEW k \in 1..n
         PROVE  upto[k] = upto[k - 1] \o seqs[k]
    <2>1. k \in 0..n /\ k # 0
      OBVIOUS
    <2> QED BY <1>9, <2>1
  <1> QED BY <1>2, <1>12, <1>13, <1>14

LEMMA FlattenType ==
    ASSUME NEW nodes \in Seq(Node)
    PROVE  Flatten(nodes) \in Seq(Item)
  <1> DEFINE seqs == [k \in DOMAIN nodes |-> nodes[k].items]
  <1>1. DOMAIN nodes = 1..Len(nodes) /\ Len(nodes) \in Nat
        /\ \A k \in 1..Len(nodes) : nodes[k].items \in Seq(Item)
    <2>1. DOMAIN nodes = 1..Len(nodes) /\ Len(nodes) \in Nat
      BY LenProperties
    <2>2. ASSUME NEW k \in 1..Len(nodes)
          PROVE  nodes[k].items \in Seq(Item)
      <3>1. nodes[k] \in Node
        BY ElementOfSeq
      <3> QED BY <3>1 DEF Node
    <2> QED BY <2>1, <2>2
  <1>2. seqs \in Seq(Seq(Item)) /\ Len(seqs) = Len(nodes)
    <2>1. seqs \in [1..Len(nodes) -> Seq(Item)]
      BY <1>1
    <2> HIDE DEF seqs
    <2> QED BY <1>1, <2>1, SeqOfFunction
  <1> HIDE DEF seqs
  <1>3. PICK upto \in [0..Len(seqs) -> Seq(Item)] : Joined(seqs) = upto[Len(seqs)]
    BY <1>2, JoinedProperties
  <1>4. Joined(seqs) \in Seq(Item)
    BY <1>1, <1>2, <1>3
  <1> QED BY <1>4 DEF Flatten, seqs

Joins(u, s, t) ==
    /\ Len(u) = Len(s) + Len(t)
    /\ \A i \in 1..(Len(s) + Len(t)) :
          u[i] = IF i <= Len(s) THEN s[i] ELSE t[i - Len(s)]

\* Where the elements of the sequences lie when they are joined.
LEMMA JoinedPlaces ==
    ASSUME NEW S, NEW seqs \in Seq(Seq(S)), NEW end \in [0..Len(seqs) -> Nat],
           end[0] = 0,
           \A k \in 1..Len(seqs) : end[k] = end[k - 1] + Len(seqs[k])
    PROVE  /\ Joined(seqs) \in Seq(S)
           /\ Len(Joined(seqs)) = end[Len(seqs)]
           /\ \A k \in 1..Len(seqs) : \A j \in 1..Len(seqs[k]) :
                 Joined(seqs)[end[k - 1] + j] = seqs[k][j]
  <1>1. PICK n \in Nat : n = Len(seqs)
    BY LenProperties
  <1>2. ASSUME NEW k \in 1..n
        PROVE  seqs[k] \in Seq(S) /\ Len(seqs[k]) \in Nat
    BY <1>1, ElementOfSeq, LenProperties
  <1>3. PICK upto \in [0..n -> Seq(S)] :
              /\ Joined(seqs) = upto[n]
              /\ upto[0] = <<>>
              /\ \A k \in 1..n : upto[k] = upto[k - 1] \o seqs[k]
    BY <1>1, JoinedProperties
  <1>4. /\ end \in [0..n -> Nat]
        /\ \A k \in 1..n : end[k] = end[k - 1] + Len(seqs[k])
    BY <1>1
  <1> DEFINE At(m, k) == \A j \in 1..Len(seqs[k]) : upto[m][end[k - 1] + j] = seqs[k][j]
             Placed(m) == Len(upto[m]) = end[m] /\ \A k \in 1..m : end[k] <= end[m] /\ At(m, k)
             T == {m \in 0..n : Placed(m)}
  <1>5. 0 \in T
    <2>1. 0 \in 0..n /\ Len(upto[0]) = 0
      BY <1>3
    <2> QED BY <2>1
  <1>6. ASSUME NEW m \in 0..(n - 1), m \in T
        PROVE  m + 1 \in T
    <2>1. m + 1 \in 1..n /\ (m + 1) - 1 = m /\ m \in 0..n /\ m + 1 \in 0..n /\ m \in Nat
      OBVIOUS
    <2>2. Placed(m)
      BY <1>6
    <2> HIDE DEF T
    <2>3. /\ upto[m + 1] = upto[m] \o seqs[m + 1]
          /\ upto[m] \in Seq(S) /\ seqs[m + 1] \in Seq(S)
      BY <1>2, <1>3, <2>1
    <2>4. PICK e \in Nat, l \in Nat : e = end[m] /\ l = Len(seqs[m + 1])
      BY <1>2, <1>4, <2>1
    <2>5. Len(upto[m]) = e /\ end[m + 1] = e + l
      BY <1>4, <2>1, <2>2, <2>4
    <2>6. /\ Len(upto[m + 1]) = end[m + 1]
          /\ \A i \in 1..(e + l) : upto[m + 1][i] =
                IF i <= e THEN upto[m][i] ELSE seqs[m + 1][i - e]
      <3>1. /\ Len(upto[m + 1]) = Len(upto[m]) + Len(seqs[m + 1])
            /\ \A i \in 1..(Len(upto[m]) + Len(seqs[m + 1])) : upto[m + 1][i] =
                  IF i <= Len(upto[m]) THEN upto[m][i] ELSE seqs[m + 1][i - Len(upto[m])]
        <4>1. \A s, t \in Seq(S) : Joins(s \o t, s, t)
          BY ConcatProperties DEF Joins
        <4>2. Joins(upto[m + 1], upto[m], seqs[m + 1])
          BY <2>3, <4>1
        <4> QED BY <4>2 DEF Joins
      <3> QED BY <2>4, <2>5, <3>1, Zenon
    <2>7. ASSUME NEW j \in 1..l
          PROVE  upto[m + 1][e + j] = seqs[m + 1][j]
      <3>1. e + j \in 1..(e + l) /\ ~(e + j <= e) /\ (e + j) - e = j
        OBVIOUS
      <3>2. upto[m + 1][e + j] = seqs[m + 1][(e + j) - e]
        BY <2>6, <3>1
      <3> QED BY <3>1, <3>2
    <2>8. e <= e + l
      OBVIOUS
    <2>9. At(m + 1, m + 1)
      BY <2>1, <2>4, <2>7
    <2>10. ASSUME NEW k \in 1..m
           PROVE  end[k] <= end[m + 1] /\ At(m + 1, k)
      <3>1. k \in 1..n /\ k - 1 \in 0..n /\ k \in 0..n
        BY <2>1
      <3>2. PICK f \in Nat, h \in Nat : f = end[k - 1] /\ h = Len(seqs[k])
        BY <1>2, <1>4, <3>1
      <3>3. end[k] = f + h /\ f + h <= e
        BY <1>4, <2>2, <2>4, <3>1, <3>2
      <3>4. ASSUME NEW j \in 1..h
            PROVE  upto[m + 1][f + j] = seqs[k][j]
        <4>1. f + j \in 1..(e + l) /\ f + j <= e
          BY <3>3
        <4>2. upto[m][f + j] = seqs[k][j]
          BY <2>2, <3>2
        <4>3. upto[m + 1][f + j] = upto[m][f + j]
          BY <2>6, <4>1
        <4> QED BY <4>2, <4>3
      <3>5. f + h <= e + l
        BY <3>3
      <3> QED BY <2>5, <3>2, <3>3, <3>4, <3>5
    <2>11. Placed(m + 1)
      <3> SUFFICES ASSUME NEW k \in 1..(m + 1)
                   PROVE  end[k] <= end[m + 1] /\ At(m + 1, k)
        BY <2>6
      <3>1. k = m + 1 \/ k \in 1..m
        BY <2>1
      <3>2. end[m + 1] <= end[m + 1]
        <4>1. e + l <= e + l
          OBVIOUS
        <4> QED BY <2>5, <4>1
      <3> HIDE DEF At
      <3> QED BY <2>9, <2>10, <3>1, <3>2
    <2> HIDE DEF Placed
    <2> QED BY <2>1, <2>11 DEF T
  <1>7. n \in T
    <2> HIDE DEF T
    <2>1. 0..n \subseteq T
      BY <1>5, <1>6, Induction
    <2> QED BY <2>1
  <1>8. Placed(n) /\ upto[n] \in Seq(S)
    BY <1>7
  <1> QED BY <1>1, <1>3, <1>8

\* Item k takes the blocks behind the end of the item before.
LEMMA BlocksProperties ==
    ASSUME NEW nodes \in Seq(Node)
    PROVE  LET its == Flatten(nodes)
           IN  /\ Blocks(nodes) \in Seq(Nat)
               /\ Len(Blocks(nodes)) = Total(its)
               /\ \A k \in 1..Len(its) : \A j \in 1..its[k].size :
                     Blocks(nodes)[Ends(its)[k - 1] + j] = its[k].start + j - 1
  <1>1. PICK its \in Seq(Item) : its = Flatten(nodes)
    BY FlattenType
  <1>2. /\ Len(its) \in Nat /\ DOMAIN its = 1..Len(its)
        /\ \A k \in 1..Len(its) : its[k].start \in Nat /\ its[k].size \in Nat
    BY ItemsProperties
  <1> DEFINE seqs == [k \in DOMAIN its |-> [j \in 1..its[k].size |-> its[k].start + j - 1]]
  <1>3. ASSUME NEW k \in 1..Len(its)
        PROVE  /\ seqs[k] \in Seq(Nat) /\ Len(seqs[k]) = its[k].size
               /\ \A j \in 1..its[k].size : seqs[k][j] = its[k].start + j - 1
    <2>1. its[k].size \in Nat /\ \A j \in 1..its[k].size : its[k].start + j - 1 \in Nat
      BY <1>2
    <2>2. seqs[k] = [j \in 1..its[k].size |-> its[k].start + j - 1]
      BY <1>2
    <2> HIDE DEF seqs
    <2>3. seqs[k] \in [1..its[k].size -> Nat]
      BY <2>1, <2>2
    <2>4. \A j \in 1..its[k].size : seqs[k][j] = its[k].start + j - 1
      BY <2>2
    <2> QED BY <2>1, <2>3, <2>4, SeqOfFunction
  <1>4. seqs \in Seq(Seq(Nat)) /\ Len(seqs) = Len(its)
    <2>1. seqs \in [1..Len(its) -> Seq(Nat)]
      BY <1>2, <1>3
    <2> HIDE DEF seqs
    <2> QED BY <1>2, <2>1, SeqOfFunction
  <1>5. Blocks(nodes) = Joined(seqs)
    BY <1>1 DEF Blocks
  <1> HIDE DEF seqs
  <1>6. /\ Ends(its) \in [0..Len(seqs) -> Nat] /\ Ends(its)[0] = 0
        /\ \A k \in 1..Len(seqs) : Ends(its)[k] = Ends(its)[k - 1] + Len(seqs[k])
    BY <1>3, <1>4, EndsProperties
  <1>7. /\ Joined(seqs) \in Seq(Nat)
        /\ Len(Joined(seqs)) = Ends(its)[Len(seqs)]
        /\ \A k \in 1..Len(seqs) : \A j \in 1..Len(seqs[k]) :
              Joined(seqs)[Ends(its)[k - 1] + j] = seqs[k][j]
    BY <1>4, <1>6, JoinedPlaces
  <1>8. ASSUME NEW k \in 1..Len(its), NEW j \in 1..its[k].size
        PROVE  Joined(seqs)[Ends(its)[k - 1] + j] = its[k].start + j - 1
    <2>1. k \in 1..Len(seqs) /\ j \in 1..Len(seqs[k]) /\ seqs[k][j] = its[k].start + j - 1
      BY <1>3, <1>4
    <2> QED BY <1>7, <2>1, Zenon
  <1> QED BY <1>1, <1>4, <1>5, <1>7, <1>8 DEF Total

-----------------------------------------------------------------------------
(* What a transfer moves.                                                  *)

LEMMA BelowSum ==
    ASSUME NEW x \in Nat, NEW y \in Nat, NEW s \in Nat, NEW z \in Nat, x = y + s, x <= z
    PROVE  y <= z
  OBVIOUS

\* The items end one behind the other.
LEMMA EndsGrow ==
    ASSUME NEW its \in Seq(Item), NEW k \in 0..Len(its)
    PROVE  Ends(its)[k] <= Total(its)
  <1>1. PICK n \in Nat, end \in [0..Len(its) -> Nat] :
            /\ n = Len(its) /\ end = Ends(its)
            /\ \A i \in 1..n : end[i] = end[i - 1] + its[i].size
    BY LenProperties, EndsProperties
  <1>2. \A i \in 1..n : its[i].size \in Nat
    BY <1>1, ItemsProperties
  <1> DEFINE T == {d \in 0..n : end[n - d] <= end[n]}
  <1>3. 0 \in T
    <2>1. n - 0 = n /\ n \in 0..n /\ 0 \in 0..n
      OBVIOUS
    <2>2. end[n] \in Nat
      BY <1>1, <2>1
    <2>3. end[n] <= end[n]
      BY <2>2
    <2> QED BY <2>1, <2>3
  <1>4. ASSUME NEW d \in 0..(n - 1), d \in T
        PROVE  d + 1 \in T
    <2>1. n - d \in 1..n /\ (n - d) - 1 = n - (d + 1) /\ n - (d + 1) \in 0..n /\ d + 1 \in 0..n
      OBVIOUS
    <2>2. end[n - d] = end[n - (d + 1)] + its[n - d].size
      BY <1>1, <2>1
    <2>3. end[n - (d + 1)] <= end[n]
      <3>1. n - d \in 0..n /\ n \in 0..n
        OBVIOUS
      <3>2. end[n - d] \in Nat /\ end[n - (d + 1)] \in Nat /\ end[n] \in Nat
            /\ its[n - d].size \in Nat
        BY <1>1, <1>2, <2>1, <3>1
      <3>3. end[n - d] <= end[n]
        BY <1>4
      <3> QED BY <2>2, <3>2, <3>3, BelowSum, Zenon
    <2> QED BY <2>1, <2>3
  <1> HIDE DEF T
  <1>5. 0..n \subseteq T
    BY <1>3, <1>4, Induction
  <1>6. n - k \in T
    BY <1>1, <1>5
  <1>7. end[k] <= end[n]
    <2>1. n - (n - k) = k
      BY <1>1
    <2> QED BY <1>6, <2>1 DEF T
  <1> QED BY <1>1, <1>7 DEF Total

\* What memory and the file hold when the first n blocks have been copied.
Filled(r, m0, d0, n) ==
    [a \in Memory |->
        LET named == {k \in 1..n : Blocks(r.list)[k] = a}
        IN  IF ~r.write /\ named # {} THEN d0[r.lba + Max(named) - 1] ELSE m0[a]]
Stored(r, m0, d0, n) ==
    [b \in 0..(Size - 1) |->
        IF r.write /\ b \in r.lba..(r.lba + n - 1)
        THEN m0[Blocks(r.list)[b - r.lba + 1]] ELSE d0[b]]

LEMMA RequestType ==
    ASSUME NEW r \in Request
    PROVE  /\ r.list \in Seq(Node) /\ r.lba \in Nat /\ r.count \in Nat
           /\ r.write \in BOOLEAN /\ r.int \in BOOLEAN
  BY StorageAssumption DEF Node, Item

\* Another item: its blocks are the next ones.
LEMMA BlocksOfItem ==
    ASSUME NEW r \in Request, NEW its, its = Flatten(r.list), NEW i \in 1..Len(its)
    PROVE  /\ its[i].start \in Nat /\ its[i].size \in Nat
           /\ Ends(its)[i - 1] \in Nat /\ Ends(its)[i] = Ends(its)[i - 1] + its[i].size
           /\ Ends(its)[i] <= Total(its) /\ Total(its) \in Nat
           /\ \A k \in (Ends(its)[i - 1] + 1)..Ends(its)[i] :
                 Blocks(r.list)[k] = its[i].start + (k - Ends(its)[i - 1]) - 1
  <1>1. its \in Seq(Item)
    BY RequestType, FlattenType
  <1>2. PICK n \in Nat, start \in Nat, blocks \in Nat, e \in Nat, f \in Nat :
            n = Len(its) /\ start = its[i].start /\ blocks = its[i].size
            /\ e = Ends(its)[i - 1] /\ f = Total(its)
    <2>1. Len(its) \in Nat /\ its[i].start \in Nat /\ its[i].size \in Nat
      BY <1>1, ItemsProperties
    <2>2. i - 1 \in 0..Len(its) /\ Len(its) \in 0..Len(its)
      BY <2>1
    <2> QED BY <1>1, <2>1, <2>2, EndsProperties DEF Total
  <1>3. Ends(its)[i] = e + blocks
    BY <1>1, <1>2, EndsProperties
  <1>4. Ends(its)[i] <= f
    <2>1. i \in 0..Len(its)
      BY <1>2
    <2> QED BY <1>1, <1>2, <2>1, EndsGrow
  <1>5. ASSUME NEW k \in (e + 1)..(e + blocks)
        PROVE  Blocks(r.list)[k] = start + (k - e) - 1
    <2>1. k - e \in 1..blocks /\ e + (k - e) = k
      OBVIOUS
    <2>2. \A j \in 1..blocks : Blocks(r.list)[e + j] = start + j - 1
      BY <1>2, RequestType, BlocksProperties
    <2> QED BY <2>1, <2>2
  <1> QED BY <1>2, <1>3, <1>4, <1>5

\* What n blocks more of an item at `start` change in memory, or in the file.
FillsItem(r, m0, d0, e, n, start) ==
    Filled(r, m0, d0, e + n) =
    [a \in Memory |->
       IF ~r.write /\ a \in start..(start + n - 1)
       THEN d0[r.lba + e + a - start] ELSE Filled(r, m0, d0, e)[a]]

StoresItem(r, m0, d0, e, n, start) ==
    Stored(r, m0, d0, e + n) =
    [b \in 0..(Size - 1) |->
       IF r.write /\ b \in (r.lba + e)..(r.lba + e + n - 1)
       THEN m0[start + b - (r.lba + e)] ELSE Stored(r, m0, d0, e)[b]]

LEMMA FilledMore ==
    ASSUME NEW r \in Request, NEW m0, NEW d0, NEW e \in Nat, NEW n \in Nat, NEW start \in Nat,
           \A k \in (e + 1)..(e + n) : Blocks(r.list)[k] = start + (k - e) - 1
    PROVE  FillsItem(r, m0, d0, e, n, start)
  <1> DEFINE named(a, l) == {k \in 1..l : Blocks(r.list)[k] = a}
  <1>1. ASSUME NEW a \in Memory
        PROVE  Filled(r, m0, d0, e + n)[a] =
                 IF ~r.write /\ a \in start..(start + n - 1)
                 THEN d0[r.lba + e + a - start] ELSE Filled(r, m0, d0, e)[a]
    <2>1. a \in Nat /\ r.lba \in Nat
      BY StorageAssumption, RequestType
    <2>2. CASE a \in start..(start + n - 1) /\ ~r.write
      <3> DEFINE x == e + (a - start) + 1
      <3>1. x \in (e + 1)..(e + n) /\ start + (x - e) - 1 = a /\ x \in Nat
            /\ x \in 1..(e + n)
        BY <2>1, <2>2
      <3> HIDE DEF x
      <3>2. x \in named(a, e + n)
        BY <3>1
      <3>3. ASSUME NEW k \in named(a, e + n)
            PROVE  k <= x
        <4>1. CASE k <= e
          BY <3>1, <4>1
        <4>2. CASE ~(k <= e)
          <5>1. k \in (e + 1)..(e + n)
            BY <4>2
          <5>2. start + (k - e) - 1 = a
            BY <5>1
          <5> QED BY <2>1, <3>1, <5>1, <5>2
        <4> QED BY <4>1, <4>2
      <3>4. Max(named(a, e + n)) = x
        <4>1. named(a, e + n) \in SUBSET Nat
          OBVIOUS
        <4> HIDE DEF named
        <4>2. PICK y \in named(a, e + n) : /\ \A k \in named(a, e + n) : y >= k
                                           /\ Max(named(a, e + n)) = y
          <5>1. \A k \in named(a, e + n) : x >= k
            BY <3>1, <3>3, <4>1
          <5> QED BY <3>2, <5>1 DEF Max
        <4>3. y <= x /\ y >= x /\ y \in Nat
          BY <3>2, <3>3, <4>1, <4>2
        <4> QED BY <3>1, <4>2, <4>3
      <3>5. Filled(r, m0, d0, e + n)[a] = d0[r.lba + x - 1]
        BY <2>2, <3>2, <3>4 DEF Filled
      <3>6. r.lba + x - 1 = r.lba + e + a - start
        BY <2>1 DEF x
      <3> QED BY <2>2, <3>5, <3>6
    <2>3. CASE ~(a \in start..(start + n - 1))
      <3>1. named(a, e + n) = named(a, e)
        <4>1. named(a, e) \subseteq named(a, e + n)
          OBVIOUS
        <4>2. ASSUME NEW k \in named(a, e + n)
              PROVE  k \in named(a, e)
          <5>1. CASE k <= e
            BY <5>1
          <5>2. CASE ~(k <= e)
            <6>1. k \in (e + 1)..(e + n)
              BY <5>2
            <6>2. start + (k - e) - 1 = a
              BY <6>1
            <6> QED BY <2>1, <2>3, <6>1, <6>2
          <5> QED BY <5>1, <5>2
        <4> QED BY <4>1, <4>2
      <3> QED BY <2>3, <3>1 DEF Filled
    <2>4. CASE r.write
      BY <2>4 DEF Filled
    <2> QED BY <2>2, <2>3, <2>4
  <1>2. Filled(r, m0, d0, e + n) = [a \in Memory |-> Filled(r, m0, d0, e + n)[a]]
    BY DEF Filled
  <1> QED BY <1>1, <1>2 DEF FillsItem

LEMMA StoredMore ==
    ASSUME NEW r \in Request, NEW m0, NEW d0, NEW e \in Nat, NEW n \in Nat, NEW start \in Nat,
           \A k \in (e + 1)..(e + n) : Blocks(r.list)[k] = start + (k - e) - 1
    PROVE  StoresItem(r, m0, d0, e, n, start)
  <1>1. ASSUME NEW b \in 0..(Size - 1)
        PROVE  Stored(r, m0, d0, e + n)[b] =
                 IF r.write /\ b \in (r.lba + e)..(r.lba + e + n - 1)
                 THEN m0[start + b - (r.lba + e)] ELSE Stored(r, m0, d0, e)[b]
    <2>1. PICK lba \in Nat : lba = r.lba
      BY RequestType
    <2>2. b \in Nat
      BY StorageAssumption
    <2>3. CASE r.write /\ b \in (lba + e)..(lba + e + n - 1)
      <3>1. b \in lba..(lba + (e + n) - 1) /\ b - lba + 1 \in (e + 1)..(e + n)
            /\ start + ((b - lba + 1) - e) - 1 = start + b - (lba + e)
        BY <2>2, <2>3
      <3>2. Blocks(r.list)[b - lba + 1] = start + b - (lba + e)
        BY <3>1
      <3>3. Stored(r, m0, d0, e + n)[b] = m0[Blocks(r.list)[b - lba + 1]]
        BY <2>1, <2>3, <3>1 DEF Stored
      <3> QED BY <2>1, <2>3, <3>2, <3>3
    <2>4. CASE ~(r.write /\ b \in (lba + e)..(lba + e + n - 1))
      <3>1. r.write => (b \in lba..(lba + (e + n) - 1) <=> b \in lba..(lba + e - 1))
        BY <2>2, <2>4
      <3> QED BY <2>1, <2>4, <3>1 DEF Stored
    <2> QED BY <2>1, <2>3, <2>4
  <1>2. Stored(r, m0, d0, e + n) = [b \in 0..(Size - 1) |-> Stored(r, m0, d0, e + n)[b]]
    BY DEF Stored
  <1> QED BY <1>1, <1>2 DEF StoresItem

-----------------------------------------------------------------------------
(* The contents while a transfer is under way, and when it is done.        *)

Full(m, d) == m = [a \in Memory |-> m[a]] /\ d = [b \in 0..(Size - 1) |-> d[b]]

\* The blocks are in the file.
Fits == request.lba + request.count <= Size

\* The device has the list and the place of the request, and no items yet.
Prepared ==
    /\ request \in Request
    /\ list = request.list /\ size = request.count % Short /\ ~parsed
    /\ transfer.lba = request.lba /\ transfer.count = request.count
    /\ NoWrap(request) => Fits

\* Before the items are copied.
Waiting == (epc = "idle" /\ events = 1) \/ epc = "parse"

\* While they are: those before `next` are, to or from the blocks in front of
\* `data`, and nothing else has changed.
Copying ==
    /\ request \in Request /\ Fits
    /\ items = WithOffsets(Flatten(request.list))
    /\ Total(Flatten(request.list)) = request.count
    /\ next \in 1..(Len(Flatten(request.list)) + 1)
    /\ offset = Ends(Flatten(request.list))[next - 1]
    /\ data = request.lba + offset
    /\ left = request.count - offset
    /\ before = <<before[1], before[2]>> /\ Full(before[1], before[2])
    /\ memory = Filled(request, before[1], before[2], offset)
    /\ disk = Stored(request, before[1], before[2], offset)

\* After.
Moved ==
    IF status.err THEN memory = before[1] /\ disk = before[2]
    ELSE /\ request \in Request
         /\ Total(Flatten(request.list)) = request.count
         /\ memory = Filled(request, before[1], before[2], request.count)
         /\ disk = Stored(request, before[1], before[2], request.count)

ContentInv ==
    /\ Full(memory, disk)
    /\ Begins => Prepared /\ before = <<>>
    /\ gpc = "raise" \/ Busy => transfer.write = request.write
    /\ Waiting => Prepared /\ before = contents
    /\ epc = "copy" /\ NoWrap(request) => Copying
    /\ status.rdy /\ before # <<>> /\ NoWrap(request) => Moved

LEMMA InitContent ==
    ASSUME Init
    PROVE  ContentInv
  BY DEF Init, Off, ContentInv, Full, Busy, Waiting, Begins

\* A command that ends at once.
LEMMA EndsAtOnceContent ==
    ASSUME DeviceInv, ContentInv, Free, before' = <<>>, Full(memory', disk'),
           UNCHANGED <<transfer, buffer, events, epc, loop, gpc, request>>
    PROVE  ContentInv'
  <1>1. Over /\ gpc = "free"
    BY FreeInTail
  <1>2. gpc' = "free" /\ ~Busy' /\ ~Waiting' /\ epc' # "copy" /\ ~Begins'
    BY <1>1 DEF Over, Busy, Waiting, Begins
  <1> QED BY <1>2 DEF ContentInv

\* Sums and places within the file are what they would be without a width.
LEMMA ModSmall ==
    ASSUME NEW m \in Nat \ {0}, NEW x \in Int, -m <= x, x < m
    PROVE  x % m = IF x < 0 THEN x + m ELSE x
  OBVIOUS

LEMMA SumKept ==
    ASSUME NEW r \in Request, r.lba + r.count < Wrap
    PROVE  (r.lba + r.count) % Wrap = r.lba + r.count
  <1>1. PICK x \in Nat : x = r.lba + r.count
    BY RequestType
  <1>2. Wrap \in Nat \ {0} /\ -Wrap <= x /\ x < Wrap
    BY <1>1, StorageAssumption
  <1> QED BY <1>1, <1>2, ModSmall

LEMMA ShortKept ==
    ASSUME NEW lba \in Nat, NEW count \in Nat, lba + count <= Size
    PROVE  lba % Short = lba /\ count % Short = count
  <1>1. Short \in Nat \ {0} /\ -Short <= lba /\ lba < Short /\ -Short <= count /\ count < Short
    BY StorageAssumption
  <1> QED BY <1>1, ModSmall

LEMMA CommandContent ==
    ASSUME DeviceInv, ContentInv, HandleCommand
    PROVE  ContentInv'
  <1>0. Full(memory, disk)
    BY DEF ContentInv
  <1>1. ASSUME NEW en \in BOOLEAN, NEW inte \in BOOLEAN, Configure(en, inte)
        PROVE  ContentInv'
    BY <1>0, <1>1, EndsAtOnceContent DEF Configure, Issues, Rest
  <1>2. ASSUME NEW b \in Target, GetDeviceInfo(b)
        PROVE  ContentInv'
    <2>1. Full(memory', disk')
      BY <1>0, <1>2 DEF GetDeviceInfo, Rest, Full
    <2> QED BY <1>2, <2>1, EndsAtOnceContent DEF GetDeviceInfo, Issues, Rest
  <1>3. ASSUME Acknowledge
        PROVE  ContentInv'
    <2>1. status \in Bits /\ status'.rdy = status.rdy /\ status'.err = status.err
      BY <1>3 DEF Acknowledge, DeviceInv, ControlOK, Bits
    <2> QED BY <1>3, <2>1 DEF Acknowledge, Rest, hist, buffer, loop, contents, ContentInv,
               Prepared, Fits, NoWrap, Waiting, Busy, Begins, Copying, Moved
  <1>4. ASSUME NEW r \in Request, Refuse(r)
        PROVE  ContentInv'
    BY <1>0, <1>4, EndsAtOnceContent DEF Refuse, Issues, Rest
  <1>5. ASSUME NEW r \in Request, Accept(r)
        PROVE  ContentInv'
    <2>1. Over /\ gpc = "free"
      BY <1>5, FreeInTail DEF Accept, Issues
    <2>2. ~Busy' /\ ~Waiting' /\ epc' # "copy" /\ gpc' = "flags" /\ before' = <<>>
      BY <1>5, <2>1 DEF Accept, Over, Busy, Waiting
    <2>3. Prepared'
      <3>1. NoWrap(r) => r.lba + r.count <= Size
        BY <1>5, SumKept DEF Accept, Valid, NoWrap
      <3>2. /\ request' = r /\ list' = r.list /\ size' = r.count % Short /\ ~parsed'
            /\ transfer'.lba = r.lba /\ transfer'.count = r.count
        BY <1>5 DEF Accept, DeviceInv, ControlOK
      <3> QED BY <3>1, <3>2 DEF Prepared, Fits, NoWrap
    <2>4. Full(memory, disk)'
      BY <1>0, <1>5 DEF Accept, contents
    <2> QED BY <2>2, <2>3, <2>4 DEF ContentInv
  <1>6. ASSUME SetFlags
        PROVE  ContentInv'
    <2>1. Over /\ Prepared /\ before = <<>>
      BY <1>6 DEF SetFlags, DeviceInv, CommandInv, ContentInv, Begins
    <2>2. ~Busy' /\ ~Waiting' /\ epc' # "copy" /\ before' = <<>>
      BY <1>6, <2>1 DEF SetFlags, Over, Busy, Waiting, hist
    <2>3. Prepared' /\ transfer'.write = request'.write
      BY <1>6, <2>1 DEF SetFlags, Prepared, Fits, NoWrap, buffer, DeviceInv, ControlOK
    <2>4. Full(memory, disk)'
      BY <1>0, <1>6 DEF SetFlags, contents
    <2> QED BY <2>2, <2>3, <2>4 DEF ContentInv
  <1>7. ASSUME RaiseEvent
        PROVE  ContentInv'
    <2>1. epc = "idle" /\ ~status.rdy /\ Prepared /\ transfer.write = request.write
      BY <1>7 DEF RaiseEvent, DeviceInv, OneEvent, CommandInv, ContentInv, Begins
    <2>2. ~Begins' /\ epc' = "idle" /\ ~status'.rdy /\ before' = contents'
          /\ transfer'.write = request'.write
      BY <1>7, <2>1 DEF RaiseEvent, contents, Begins
    <2>3. Prepared'
      BY <1>7, <2>1 DEF RaiseEvent, Prepared, Fits, NoWrap, buffer
    <2>4. Full(memory, disk)'
      BY <1>0, <1>7 DEF RaiseEvent, contents
    <2> QED BY <2>2, <2>3, <2>4 DEF ContentInv
  <1>8. ASSUME NEW n \in Number, SetInterruptMapping(n)
        PROVE  ContentInv'
    BY <1>8 DEF SetInterruptMapping, Rest, hist, buffer, loop, contents, ContentInv,
       Prepared, Fits, NoWrap, Waiting, Busy, Begins, Copying, Moved
  <1>9. ASSUME RaiseOther
        PROVE  ContentInv'
    BY <1>9 DEF RaiseOther, Rest, hist, buffer, loop, contents, ContentInv,
       Prepared, Fits, NoWrap, Waiting, Busy, Begins, Copying, Moved
  <1> QED
    BY <1>1, <1>2, <1>3, <1>4, <1>5, <1>6, <1>7, <1>8, <1>9 DEF HandleCommand

LEMMA OtherContent ==
    ASSUME ContentInv, OtherHandled
    PROVE  ContentInv'
  BY DEF OtherHandled, Rest, hist, buffer, loop, contents, ContentInv,
     Prepared, Fits, NoWrap, Waiting, Busy, Begins, Copying, Moved

\* Nothing has been copied yet, or nothing the other way.
LEMMA NoneCopied ==
    ASSUME NEW r \in Request, NEW m, NEW d, Full(m, d)
    PROVE  /\ Filled(r, m, d, 0) = m /\ Stored(r, m, d, 0) = d
           /\ \A n : r.write => Filled(r, m, d, n) = m
           /\ \A n : ~r.write => Stored(r, m, d, n) = d
  <1>1. ASSUME NEW n, n = 0 \/ r.write
        PROVE  Filled(r, m, d, n) = m
    <2>1. n = 0 => 1..n = {}
      OBVIOUS
    <2>2. Filled(r, m, d, n) = [a \in Memory |-> m[a]]
      BY <1>1, <2>1 DEF Filled
    <2> QED BY <2>2 DEF Full
  <1>2. ASSUME NEW n, n = 0 \/ ~r.write
        PROVE  Stored(r, m, d, n) = d
    <2>1. n = 0 => r.lba..(r.lba + n - 1) = {}
      BY RequestType
    <2>2. Stored(r, m, d, n) = [b \in 0..(Size - 1) |-> d[b]]
      BY <1>2, <2>1 DEF Stored
    <2> QED BY <2>2 DEF Full
  <1> QED BY <1>1, <1>2

LEMMA ParseContent ==
    ASSUME DeviceInv, ContentInv, ParseList
    PROVE  ContentInv'
  <1>1. /\ Prepared /\ before = contents /\ ~Begins /\ ~status.rdy
        /\ transfer.write = request.write /\ epc = "parse" /\ Full(memory, disk)
    BY DEF ParseList, ContentInv, Waiting, Busy, DeviceInv, TransferInv
  <1>2. /\ request' = request /\ memory' = memory /\ disk' = disk /\ before' = before
        /\ epc' = "copy" /\ gpc' = gpc /\ status' = status /\ transfer' = transfer
    BY DEF ParseList, Emulates, contents, hist
  <1>3. ASSUME NoWrap(request)
        PROVE  Copying'
    <2>1. request \in Request /\ Fits
      BY <1>1, <1>3 DEF Prepared
    <2>2. PICK lba \in Nat, count \in Nat : lba = request.lba /\ count = request.count
      BY <2>1, RequestType
    <2>3. lba % Short = lba /\ count % Short = count
      BY <2>1, <2>2, ShortKept DEF Fits
    <2>4. PICK its \in Seq(Item) : its = Flatten(request.list)
      BY <2>1, RequestType, FlattenType
    <2>5. Ends(its)[0] = 0 /\ Len(its) \in Nat
      BY EndsProperties, LenProperties
    <2>6. /\ items' = WithOffsets(its) /\ next' = 1 /\ offset' = 0
          /\ data' = lba /\ left' = count /\ Total(its) = count
      BY <1>1, <2>2, <2>3, <2>4 DEF ParseList, Parses, Prepared
    <2>7. next' \in 1..(Len(its) + 1) /\ offset' = Ends(its)[next' - 1]
          /\ data' = lba + offset' /\ left' = count - offset'
      BY <2>5, <2>6
    <2>8. before = <<memory, disk>> /\ before[1] = memory /\ before[2] = disk
      BY <1>1 DEF contents
    <2>9. /\ memory = Filled(request, memory, disk, 0)
          /\ disk = Stored(request, memory, disk, 0)
      BY <1>1, <2>1, NoneCopied
    <2>10. Filled(request, memory, disk, offset') = memory
           /\ Stored(request, memory, disk, offset') = disk
      BY <2>6, <2>9
    <2> QED BY <1>1, <1>2, <2>1, <2>2, <2>4, <2>6, <2>7, <2>8, <2>10 DEF Copying, Fits
  <1>4. ~Waiting' /\ ~Begins'
    BY <1>1, <1>2 DEF Waiting, Begins
  <1>5. NoWrap(request') => Copying'
    BY <1>2, <1>3
  <1> QED BY <1>1, <1>2, <1>4, <1>5 DEF ContentInv

\* The next item takes the n blocks from `start` and begins where the transfer
\* is, e blocks behind its beginning.
NextIs(its, e, n, start) ==
    /\ request \in Request /\ its = Flatten(request.list)
    /\ next \in 1..Len(its) /\ next + 1 \in 1..(Len(its) + 1)
    /\ e = Ends(its)[next - 1] /\ e + n = Ends(its)[(next + 1) - 1]
    /\ e + n <= request.count /\ request.count \in Nat /\ request.lba \in Nat
    /\ offset = e /\ left = request.count - e /\ data = request.lba + e
    /\ items[next] = [start |-> start, size |-> n, offset |-> e]
    /\ \A k \in (e + 1)..(e + n) : Blocks(request.list)[k] = start + (k - e) - 1

LEMMA NextItem ==
    ASSUME NoWrap(request), DeviceInv, ContentInv, epc = "copy", next <= Len(items)
    PROVE  \E its \in Seq(Item), e \in Nat, n \in Nat, start \in Nat :
              NextIs(its, e, n, start)
  <1>1. Copying
    BY DEF ContentInv
  <1>2. request \in Request
    BY <1>1 DEF Copying
  <1>3. PICK its \in Seq(Item) : its = Flatten(request.list)
    BY <1>2, RequestType, FlattenType
  <1>4. Len(its) \in Nat /\ DOMAIN its = 1..Len(its)
    BY LenProperties
  <1>5. /\ items = WithOffsets(its) /\ Total(its) = request.count
        /\ next \in 1..(Len(its) + 1) /\ offset = Ends(its)[next - 1]
        /\ data = request.lba + offset /\ left = request.count - offset
    BY <1>1, <1>3 DEF Copying
  <1>6. items = [k \in 1..Len(its) |-> [start |-> its[k].start, size |-> its[k].size,
                                        offset |-> Ends(its)[k - 1]]]
    BY <1>4, <1>5 DEF WithOffsets
  <1>7. Len(items) = Len(its)
    BY <1>4, <1>6
  <1>8. next \in 1..Len(its) /\ next + 1 \in 1..(Len(its) + 1) /\ (next + 1) - 1 = next
    BY <1>4, <1>5, <1>7
  <1>9. /\ its[next].start \in Nat /\ its[next].size \in Nat
        /\ Ends(its)[next - 1] \in Nat /\ Ends(its)[next] = Ends(its)[next - 1] + its[next].size
        /\ Ends(its)[next] <= Total(its)
        /\ \A k \in (Ends(its)[next - 1] + 1)..Ends(its)[next] :
              Blocks(request.list)[k] = its[next].start + (k - Ends(its)[next - 1]) - 1
    BY <1>2, <1>3, <1>8, BlocksOfItem
  <1>10. items[next] = [start |-> its[next].start, size |-> its[next].size,
                        offset |-> Ends(its)[next - 1]]
    BY <1>6, <1>8
  <1>11. request.count \in Nat /\ request.lba \in Nat
    BY <1>2, RequestType
  <1> DEFINE e == Ends(its)[next - 1]
             n == its[next].size
             start == its[next].start
  <1>12. /\ e \in Nat /\ n \in Nat /\ start \in Nat /\ e + n = Ends(its)[next]
         /\ e + n <= request.count /\ offset = e
         /\ items[next] = [start |-> start, size |-> n, offset |-> e]
         /\ \A k \in (e + 1)..(e + n) : Blocks(request.list)[k] = start + (k - e) - 1
    BY <1>5, <1>9, <1>10
  <1> HIDE DEF e, n, start
  <1>13. NextIs(its, e, n, start)
    BY <1>2, <1>3, <1>5, <1>8, <1>11, <1>12 DEF e, NextIs
  <1> QED BY <1>12, <1>13

LEMMA SkipContent ==
    ASSUME DeviceInv, ContentInv, SkipItem
    PROVE  ContentInv'
  <1>1. /\ epc = "copy" /\ next <= Len(items) /\ ~Holds(items[next])
        /\ next' = next + 1 /\ UNCHANGED <<contents, status, transfer, buffer, events, epc,
             offset, data, left, hist, request, gpc>>
    BY DEF SkipItem, Emulates
  <1>2. ASSUME NoWrap(request)
        PROVE  Copying'
    <2>1. PICK its \in Seq(Item), e \in Nat, n \in Nat, start \in Nat :
              NextIs(its, e, n, start)
      BY <1>1, <1>2, NextItem
    <2>2. /\ request \in Request /\ its = Flatten(request.list)
          /\ next \in 1..Len(its) /\ next + 1 \in 1..(Len(its) + 1)
          /\ e = Ends(its)[next - 1] /\ e + n = Ends(its)[(next + 1) - 1]
          /\ offset = e
          /\ items[next] = [start |-> start, size |-> n, offset |-> e]
      BY <2>1 DEF NextIs
    <2>3. n = 0
      BY <1>1, <2>2 DEF Holds
    <2>4. next' \in 1..(Len(its) + 1) /\ offset' = Ends(its)[next' - 1]
      BY <1>1, <2>2, <2>3
    <2>5. Copying
      BY <1>1, <1>2 DEF ContentInv
    <2>6. /\ request' = request /\ items' = items /\ before' = before /\ memory' = memory
          /\ disk' = disk /\ data' = data /\ left' = left /\ offset' = offset
      BY <1>1 DEF contents, buffer, hist
    <2> QED BY <2>2, <2>4, <2>5, <2>6 DEF Copying, Fits
  <1>3. ~Begins' /\ ~status'.rdy /\ transfer'.write = request'.write /\ ~Waiting'
        /\ Full(memory, disk)' /\ request' = request
    BY <1>1 DEF DeviceInv, TransferInv, Busy, Begins, ContentInv, Waiting, contents
  <1>4. NoWrap(request') => Copying'
    BY <1>2, <1>3
  <1> QED BY <1>3, <1>4 DEF ContentInv

\* The n blocks to come lie in the file.
Within(lba, e, n) == data = lba + e /\ lba + e + n <= Size

\* Then whether block b is one of them, and which, is as its number says.
Wanted(lba, e, n, b) == b \in (lba + e)..(lba + e + n - 1)
Same(lba, e, n, start, b) ==
    /\ Behind(b) < n <=> Wanted(lba, e, n, b)
    /\ Behind(b) < n => start + Behind(b) = start + b - (lba + e)

LEMMA PlaceBehind ==
    ASSUME NEW lba \in Nat, NEW e \in Nat, NEW n \in Nat, NEW start \in Nat,
           NEW b \in 0..(Size - 1), Within(lba, e, n)
    PROVE  Same(lba, e, n, start, b)
  <1>1. PICK size1 \in Nat, short \in Nat \ {0} : size1 = Size /\ short = Short /\ size1 < short
    BY StorageAssumption
  <1>within. data = lba + e /\ lba + e + n <= Size
    BY DEF Within
  <1>2. PICK x \in Int : x = b - data
    BY <1>1, <1>within
  <1>3. -short <= x /\ x < short
    BY <1>1, <1>2, <1>within
  <1>4. Behind(b) = IF x < 0 THEN x + short ELSE x
    <2>1. x % short = IF x < 0 THEN x + short ELSE x
      BY <1>3, ModSmall
    <2> QED BY <1>1, <1>2, <2>1 DEF Behind
  <1>5. PICK y \in Int : y = Behind(b)
    BY <1>1, <1>4
  <1>6. y = IF x < 0 THEN x + short ELSE x
    BY <1>4, <1>5
  <1>7. (y < n <=> b \in (lba + e)..(lba + e + n - 1)) /\ (y < n => start + y = start + b - (lba + e))
    BY <1>1, <1>2, <1>6, <1>within
  <1> QED BY <1>5, <1>7 DEF Same, Wanted

LEMMA BlockOfFile ==
    ASSUME NEW lba \in Nat, NEW e \in Nat, NEW n \in Nat, NEW start \in Nat,
           NEW b \in start..(start + n - 1), Within(lba, e, n)
    PROVE  FileBlock(data + b - start) = disk[lba + e + b - start]
  <1>1. PICK size1 \in Nat, short \in Nat \ {0} : size1 = Size /\ short = Short /\ size1 < short
    BY StorageAssumption
  <1>2. PICK x \in Nat : x = data + b - start /\ x = lba + e + b - start /\ x < size1
    BY <1>1 DEF Within
  <1>3. x % short = x
    <2>1. -short <= x /\ x < short /\ x \in Int /\ ~(x < 0)
      BY <1>1, <1>2
    <2> QED BY <2>1, ModSmall
  <1> QED BY <1>1, <1>2, <1>3 DEF FileBlock

\* One more item is copied as the request has it.
LEMMA CopiesItem ==
    ASSUME DeviceInv, ContentInv, CopyItem, NoWrap(request)
    PROVE  Copying'
  <1>1. epc = "copy" /\ next <= Len(items)
    BY DEF CopyItem
  <1>place. PICK its \in Seq(Item), e \in Nat, n \in Nat, start \in Nat :
              NextIs(its, e, n, start)
    BY <1>1, NextItem
  <1>2. /\ request \in Request /\ its = Flatten(request.list)
             /\ next \in 1..Len(its) /\ next + 1 \in 1..(Len(its) + 1)
             /\ e = Ends(its)[next - 1] /\ e + n = Ends(its)[(next + 1) - 1]
             /\ e + n <= request.count /\ request.count \in Nat /\ request.lba \in Nat
             /\ offset = e /\ left = request.count - e /\ data = request.lba + e
             /\ items[next] = [start |-> start, size |-> n, offset |-> e]
             /\ \A k \in (e + 1)..(e + n) : Blocks(request.list)[k] = start + (k - e) - 1
    BY <1>place DEF NextIs
  <1>3. Part(items[next]) = n /\ From(items[next]) = start
    <2>1. PICK count \in Nat : count = request.count
      BY <1>2
    <2>2. e + n <= count /\ offset = e /\ left = count - e
      BY <1>2, <2>1
    <2>3. /\ e + (count - e) > e + n \/ count - e = n
          /\ start + e - e = start /\ e + n - e = n
      BY <2>2
    <2> QED BY <1>2, <2>2, <2>3 DEF Part, From
  <1>4. /\ start..(start + n - 1) \subseteq Memory
        /\ IF transfer.write
           THEN /\ disk' = [b \in DOMAIN disk |-> IF Behind(b) < n
                                                  THEN memory[start + Behind(b)]
                                                  ELSE disk[b]]
                /\ UNCHANGED memory
           ELSE /\ memory' = [b \in Memory |-> IF b \in start..(start + n - 1)
                                               THEN FileBlock(data + b - start)
                                               ELSE memory[b]]
                /\ UNCHANGED disk
        /\ data' = data + n /\ left' = left - n /\ offset' = offset + n
        /\ next' = next + 1
        /\ UNCHANGED <<status, transfer, items, events, epc, before, request, gpc>>
    BY <1>3 DEF CopyItem, buffer, hist, Emulates
  <1>5. Copying /\ Full(memory, disk)
    BY <1>1 DEF ContentInv
  <1>6. transfer.write = request.write /\ request.write \in BOOLEAN
    BY <1>1, <1>2, RequestType DEF ContentInv, Busy
  <1>7. PICK m0, d0 : /\ before = <<m0, d0>> /\ Full(m0, d0)
                      /\ memory = Filled(request, m0, d0, e)
                      /\ disk = Stored(request, m0, d0, e)
    BY <1>2, <1>5 DEF Copying
  <1>8. DOMAIN disk = 0..(Size - 1)
    BY <1>5 DEF Full
  <1>item. /\ request \in Request
         /\ \A k \in (e + 1)..(e + n) : Blocks(request.list)[k] = start + (k - e) - 1
    BY <1>2
  <1>fits. PICK lba \in Nat : lba = request.lba /\ data = lba + e /\ lba + e + n <= Size
    <2>1. PICK lba \in Nat, count \in Nat : lba = request.lba /\ count = request.count
      BY <1>2
    <2>2. lba + count <= Size /\ e + n <= count
      BY <1>2, <1>5, <2>1 DEF Copying, Fits
    <2>3. lba + e + n <= Size
      BY <2>2, StorageAssumption
    <2> QED BY <1>2, <2>1, <2>3
  <1>9. memory' = Filled(request, m0, d0, e + n) /\ disk' = Stored(request, m0, d0, e + n)
    <2>1. CASE request.write
      <3>1. memory = m0 /\ memory' = m0 /\ Filled(request, m0, d0, e + n) = m0
        BY <1>2, <1>4, <1>6, <1>7, <2>1, NoneCopied
      <3>2. disk' = [b \in 0..(Size - 1) |->
                       IF b \in (request.lba + e)..(request.lba + e + n - 1)
                       THEN m0[start + b - (request.lba + e)] ELSE disk[b]]
        <4>1. disk' = [b \in 0..(Size - 1) |-> IF Behind(b) < n
                                              THEN m0[start + Behind(b)] ELSE disk[b]]
          BY <1>4, <1>6, <1>8, <2>1, <3>1
        <4>2. ASSUME NEW b \in 0..(Size - 1)
              PROVE  Same(lba, e, n, start, b)
          <5>1. Within(lba, e, n)
            BY <1>fits DEF Within
          <5> QED BY <5>1, PlaceBehind
        <4> QED BY <1>fits, <4>1, <4>2 DEF Same, Wanted
      <3>3. Stored(request, m0, d0, e + n) =
             [b \in 0..(Size - 1) |->
                IF request.write /\ b \in (request.lba + e)..(request.lba + e + n - 1)
                THEN m0[start + b - (request.lba + e)] ELSE Stored(request, m0, d0, e)[b]]
        <4>1. StoresItem(request, m0, d0, e, n, start)
          BY <1>item, StoredMore
        <4> QED BY <4>1 DEF StoresItem
      <3> QED BY <1>7, <2>1, <3>1, <3>2, <3>3
    <2>2. CASE ~request.write
      <3>1. disk = d0 /\ disk' = d0 /\ Stored(request, m0, d0, e + n) = d0
        BY <1>2, <1>4, <1>6, <1>7, <2>2, NoneCopied
      <3>2. memory' = [b \in Memory |->
                         IF b \in start..(start + n - 1)
                         THEN d0[request.lba + e + b - start] ELSE memory[b]]
        <4>1. memory' = [b \in Memory |-> IF b \in start..(start + n - 1)
                                          THEN FileBlock(data + b - start)
                                          ELSE memory[b]]
          BY <1>4, <1>6, <2>2
        <4>2. ASSUME NEW b \in Memory, b \in start..(start + n - 1)
              PROVE  FileBlock(data + b - start) = d0[lba + e + b - start]
          <5>1. FileBlock(data + b - start) = disk[lba + e + b - start]
            <6>1. Within(lba, e, n)
              BY <1>fits DEF Within
            <6> QED BY <4>2, <6>1, BlockOfFile
          <5> QED BY <3>1, <5>1
        <4> QED BY <1>fits, <4>1, <4>2
      <3>3. Filled(request, m0, d0, e + n) =
             [a \in Memory |->
                IF ~request.write /\ a \in start..(start + n - 1)
                THEN d0[request.lba + e + a - start] ELSE Filled(request, m0, d0, e)[a]]
        <4>1. FillsItem(request, m0, d0, e, n, start)
          BY <1>item, FilledMore
        <4> QED BY <4>1 DEF FillsItem
      <3> QED BY <1>7, <2>2, <3>1, <3>2, <3>3
    <2> QED BY <1>6, <2>1, <2>2
  <1>10. Copying'
    <2>1. next' \in 1..(Len(its) + 1) /\ offset' = Ends(its)[next' - 1] /\ offset' = e + n
      BY <1>2, <1>4
    <2>2. data' = request.lba + offset' /\ left' = request.count - offset'
      <3>1. offset' = e + n /\ data' = data + n /\ left' = left - n
        BY <1>4, <2>1
      <3>2. data = request.lba + e /\ left = request.count - e
        BY <1>2
      <3>3. PICK first \in Nat, length \in Nat : first = request.lba /\ length = request.count
        BY <1>item, RequestType
      <3>4. (first + e) + n = first + (e + n) /\ (length - e) - n = length - (e + n)
        OBVIOUS
      <3> QED BY <3>1, <3>2, <3>3, <3>4, Zenon
    <2>3. /\ request' = request /\ items' = items
          /\ before' = <<m0, d0>> /\ before'[1] = m0 /\ before'[2] = d0
      BY <1>4, <1>7
    <2> QED BY <1>2, <1>5, <1>7, <1>9, <2>1, <2>2, <2>3 DEF Copying, Fits
  <1> QED BY <1>10

LEMMA CopyContent ==
    ASSUME DeviceInv, ContentInv, CopyItem
    PROVE  ContentInv'
  <1>1. /\ epc = "copy" /\ DOMAIN disk = 0..(Size - 1)
        /\ UNCHANGED <<status, transfer, events, epc, before, request, gpc>>
    BY DEF CopyItem, hist, Emulates, ContentInv, Full
  <1>2. \/ \E f : memory' = [b \in Memory |-> f[b]] /\ disk' = disk
        \/ \E f : disk' = [b \in 0..(Size - 1) |-> f[b]] /\ memory' = memory
    <2>1. \/ disk' = [b \in 0..(Size - 1) |-> disk'[b]] /\ memory' = memory
          \/ memory' = [b \in Memory |-> memory'[b]] /\ disk' = disk
      BY <1>1 DEF CopyItem
    <2> QED BY <2>1
  <1>3. Full(memory, disk)'
    BY <1>2 DEF Full, ContentInv
  <1>4. ~Begins' /\ ~status'.rdy /\ transfer'.write = request'.write /\ ~Waiting'
    BY <1>1 DEF DeviceInv, TransferInv, Busy, Begins, ContentInv, Waiting
  <1>5. NoWrap(request') => Copying'
    BY <1>1, CopiesItem
  <1> QED BY <1>1, <1>3, <1>4, <1>5 DEF ContentInv

LEMMA FinishContent ==
    ASSUME DeviceInv, ContentInv, Finish
    PROVE  ContentInv'
  <1>1. /\ epc = "copy" /\ next > Len(items) /\ epc' = "test"
        /\ status' = [status EXCEPT !.trn = FALSE, !.err = FALSE, !.rdy = TRUE]
        /\ UNCHANGED <<contents, transfer, events, before, request, gpc>>
    BY DEF Finish, Emulates, hist
  <1>0. ~Begins /\ Full(memory, disk)
    BY <1>1 DEF ContentInv, DeviceInv, TransferInv, Busy
  <1>2. ASSUME NoWrap(request)
        PROVE  Moved'
    <2>1. Copying
      BY <1>1, <1>2 DEF ContentInv
    <2>2. PICK its \in Seq(Item) : its = Flatten(request.list)
      BY <2>1, RequestType, FlattenType DEF Copying
    <2>3. Len(its) \in Nat /\ DOMAIN its = 1..Len(its)
      BY LenProperties
    <2>4. items = WithOffsets(its) /\ next \in 1..(Len(its) + 1)
          /\ offset = Ends(its)[next - 1]
      BY <2>1, <2>2 DEF Copying
    <2>5. Len(items) = Len(its)
      BY <2>3, <2>4 DEF WithOffsets
    <2>6. next - 1 = Len(its)
      BY <1>1, <2>3, <2>4, <2>5
    <2>7. offset = request.count
      BY <2>1, <2>2, <2>4, <2>6 DEF Copying, Total
    <2>8. status'.err = FALSE
      BY <1>1 DEF DeviceInv, ControlOK, Bits
    <2> QED BY <1>1, <2>1, <2>7, <2>8 DEF Moved, Copying, contents
  <1>3. ~Waiting' /\ ~Busy' /\ ~Begins' /\ epc' # "copy" /\ Full(memory, disk)'
    BY <1>0, <1>1 DEF Waiting, Busy, Begins, contents
  <1>4. NoWrap(request') => Moved'
    BY <1>1, <1>2
  <1>5. gpc' # "raise"
    BY <1>3 DEF Begins
  <1> QED BY <1>3, <1>4, <1>5 DEF ContentInv

LEMMA EmulatorContent ==
    ASSUME DeviceInv, ContentInv, StartTransfer, ~lost'
    PROVE  ContentInv'
  <1>1. CASE TakeEvent
    <2>1. Waiting /\ Waiting' /\ epc' = "parse" /\ Busy /\ ~Begins /\ ~status.rdy
      BY <1>1 DEF TakeEvent, Waiting, Busy, DeviceInv, OneEvent, TransferInv
    <2> QED BY <1>1, <2>1 DEF TakeEvent, Emulates, ContentInv, Prepared, Fits, NoWrap,
               Begins, contents, buffer, hist
  <1>2. CASE ParseFails
    <2>1. /\ Waiting /\ before = <<memory, disk>> /\ ~Begins /\ events = 1
          /\ Full(memory, disk)
      BY <1>2 DEF ParseFails, Waiting, Busy, DeviceInv, OneEvent, TransferInv, ContentInv,
         contents
    <2>2. /\ status'.err /\ ~Begins' /\ epc' = "idle" /\ events' = 0
          /\ memory' = memory /\ disk' = disk /\ before' = before
      BY <1>2, <2>1 DEF ParseFails, Return, Emulates, Begins, contents, DeviceInv, ControlOK, Bits
    <2>3. ~Waiting' /\ ~Busy'
      BY <2>2 DEF Waiting, Busy
    <2> QED BY <2>1, <2>2, <2>3 DEF ContentInv, Moved, Begins
  <1>3. CASE ParseList
    BY <1>3, ParseContent
  <1>4. CASE SkipItem
    BY <1>4, SkipContent
  <1>5. CASE CopyItem
    BY <1>5, CopyContent
  <1>6. CASE CopyFaults
    <2>1. ~Begins /\ ~status.rdy /\ Busy
      BY <1>6 DEF CopyFaults, DeviceInv, TransferInv, Busy
    <2> QED BY <1>6, <2>1 DEF CopyFaults, Emulates, ContentInv, Waiting, Busy, Begins, contents, hist
  <1>7. CASE Finish
    BY <1>7, FinishContent
  <1>8. ASSUME epc \in {"test", "pending", "interrupt"},
               epc' \in {"pending", "interrupt"} \/ (epc' = "idle" /\ events' = 0),
               status'.rdy = status.rdy, status'.err = status.err,
               UNCHANGED <<contents, transfer, buffer, before, request, gpc>>
        PROVE  ContentInv'
    <2>1. ~Busy' /\ ~Waiting' /\ epc' # "copy"
      BY <1>8 DEF Busy, Waiting
    <2> QED BY <1>8, <2>1 DEF ContentInv, Prepared, Fits, NoWrap, Begins, Moved, contents, buffer
  <1>9. ASSUME epc \in {"test", "pending", "interrupt"}, Return
        PROVE  epc' = "idle" /\ events' = 0
    BY <1>9 DEF Return, DeviceInv, OneEvent
  <1>10. CASE NoInterrupt
    BY <1>8, <1>9, <1>10 DEF NoInterrupt, Emulates, hist
  <1>11. CASE ReadStatus
    BY <1>8, <1>11 DEF ReadStatus, Emulates, hist
  <1>12. CASE SetPending
    <2>1. status'.rdy = status.rdy /\ status'.err = status.err
      <3>1. status' = [status EXCEPT !.intp = TRUE]
        BY <1>12 DEF SetPending
      <3> QED BY <3>1 DEF DeviceInv, ControlOK, Bits
    <2> QED BY <1>8, <1>12, <2>1 DEF SetPending, Emulates
  <1>13. CASE NotMapped
    BY <1>8, <1>9, <1>13 DEF NotMapped, Emulates
  <1>14. CASE Deliver
    BY <1>8, <1>9, <1>14 DEF Deliver, Emulates
  <1> QED
    BY <1>1, <1>2, <1>3, <1>4, <1>5, <1>6, <1>7, <1>10, <1>11, <1>12, <1>13, <1>14
       DEF StartTransfer

LEMMA StutterContent ==
    ASSUME ContentInv, UNCHANGED vars
    PROVE  ContentInv'
  BY DEF ContentInv, Prepared, Fits, NoWrap, Waiting, Busy, Begins, Copying, Moved, vars,
     contents, buffer, loop, hist

Kept == lost \/ (DeviceInv /\ ContentInv)

\* What the contents are while a transfer is under way and when it is done,
\* for every memory, file and list of regions, and a guest that issues its
\* commands at RDY: for requests that do not wrap around, until both threads
\* write the status at once (StartTransfer, ParseList, Write, Read).
THEOREM ContentInvariance == Spec => []Kept
<1>1. Init => Kept
  BY InitInv, InitContent DEF Kept
<1>2. Kept /\ [Next]_vars => Kept'
  BY CommandStep, EmulatorStep, OtherStep, StutterInv, CommandContent, EmulatorContent,
     OtherContent, StutterContent, LostStays DEF Next, Kept
<1> QED  BY <1>1, <1>2, PTL DEF Spec

\* When the guest sees RDY, memory and the file are what the request says,
\* block by block in the order of its list, and nothing else has changed: for
\* requests that do not wrap around, until both threads write the status at
\* once.
THEOREM TransferCorrect == Spec => []TransferExact
<1>1. Kept => TransferExact
  <2> SUFFICES ASSUME ContentInv, before # <<>>, status.rdy, NoWrap(request)
               PROVE  TransferExact
    BY DEF TransferExact, Kept
  <2>1. Moved /\ Full(memory, disk)
    BY DEF ContentInv
  <2>2. CASE status.err
    BY <2>1, <2>2 DEF Moved, Full, TransferExact
  <2>3. CASE ~status.err
    <3>1. /\ request \in Request /\ Total(Flatten(request.list)) = request.count
          /\ memory = Filled(request, before[1], before[2], request.count)
          /\ disk = Stored(request, before[1], before[2], request.count)
      BY <2>1, <2>3 DEF Moved
    <3>2. DOMAIN Blocks(request.list) = 1..request.count
      BY <3>1, RequestType, BlocksProperties, LenProperties
    <3> QED BY <2>3, <3>1, <3>2 DEF TransferExact, Filled, Stored
  <2> QED BY <2>2, <2>3
<1> QED  BY <1>1, ContentInvariance, PTL
=============================================================================
