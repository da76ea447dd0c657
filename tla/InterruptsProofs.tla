--------------------------- MODULE InterruptsProofs ---------------------------
(***************************************************************************)
(* Privilege and the delivery of exceptions for every stack, memory, table *)
(* of descriptors and set of devices.  The argument for the delivery: the  *)
(* guest's stack had room for what is pushed, each push takes one word of  *)
(* it, and UNHANDLED_INTERRUPT starts over with what its own frame takes.  *)
(***************************************************************************)
EXTENDS Interrupts, Integers, TLAPS, FiniteSetTheorems

USE InterruptsAssumption

-----------------------------------------------------------------------------
(* Addresses.                                                              *)

LEMMA ModRange ==
  ASSUME NEW a \in Int, NEW m \in Nat \ {0}
  PROVE  a % m \in 0..(m - 1)
  OBVIOUS

LEMMA MulGrows ==
  ASSUME NEW k \in Int, NEW m \in Nat \ {0}, k >= 1
  PROVE  m * k >= m
  OBVIOUS

LEMMA MulFalls ==
  ASSUME NEW k \in Int, NEW m \in Nat \ {0}, k <= -1
  PROVE  m * k <= -m
  OBVIOUS

\* The word above an aligned one is aligned.
LEMMA Aligned ==
  ASSUME NEW a \in Nat, NEW m \in Nat \ {0}, a % m = 0
  PROVE  (a + m) % m = 0
  <1> DEFINE p == a \div m
             q == (a + m) \div m
             r == (a + m) % m
  <1>1. a = m * p /\ p \in Int
    OBVIOUS
  <1>2. a + m = m * q + r /\ q \in Int /\ r \in 0..(m - 1)
    OBVIOUS
  <1> HIDE DEF p, q, r
  <1>3. m * (p + 1 - q) = m * p + m - m * q
    BY <1>1, <1>2
  <1>4. m * (p + 1 - q) = r
    BY <1>1, <1>2, <1>3
  <1>5. p + 1 - q = 0
    BY <1>1, <1>2, <1>4, MulGrows, MulFalls
  <1>6. r = 0
    BY <1>1, <1>2, <1>4, <1>5
  <1> QED
    BY <1>6 DEF r

LEMMA AddrFacts ==
  /\ Addr \subseteq Nat
  /\ \A a \in Int : a % AddrMod \in Addr
  /\ \A a \in Addr : Up(a) \in Addr /\ Down(a) \in Addr
  <1>1. AddrMod \in Nat \ {0}
    OBVIOUS
  <1>2. \A a \in Int : a % AddrMod \in Addr
    BY <1>1, ModRange DEF Addr
  <1> QED
    BY <1>1, <1>2 DEF Addr, Up, Down

-----------------------------------------------------------------------------
(* Types.                                                                  *)

\* The word d words above or below SCP.
LEMMA AtType ==
  ASSUME TypeOK, NEW d \in Nat
  PROVE  (scp + d * Unit) % AddrMod \in Addr /\ (scp - d * Unit) % AddrMod \in Addr
  <1>1. scp \in Int
    BY DEF TypeOK, Addr
  <1>2. scp + d * Unit \in Int /\ scp - d * Unit \in Int
    BY <1>1
  <1> QED
    BY <1>2, AddrFacts

LEMMA CodesType == \A v \in Vector : Codes(v) \in 0..2
  BY DEF Codes

LEMMA PushType ==
  ASSUME TypeOK, NEW w \in Word, NEW to, NEW n \in 0..2, Push(w, to, n)
  PROVE  /\ pc' \in {to, "raise"}
         /\ scp' \in Addr
         /\ mem' \in [Mapped -> Word]
         /\ exc' \in Vector
         /\ codes' \in 0..2
         /\ thread' \in {"execution", "emulator", "failed"}
  <1>1. CASE Violates
    BY <1>1 DEF Push, Raise, TypeOK, Vector, Exception
  <1>2. CASE ~Violates
    <2>1. Up(scp) \in Addr
      BY AddrFacts DEF TypeOK
    <2> QED
      BY <1>2, <2>1 DEF Push, Raise, TypeOK, Vector, Exception
  <1> QED
    BY <1>1, <1>2

LEMMA FailureType ==
  ASSUME TypeOK, NEW v, HandleFailure(v)
  PROVE  /\ pc' \in {"crashed", "raise"}
         /\ exc' \in Vector
         /\ codes' \in 0..2
         /\ thread' \in {"execution", "emulator", "failed"}
  BY DEF HandleFailure, Raise, TypeOK, Vector, Exception

LEMMA RaiseType ==
  ASSUME TypeOK, NEW e \in Exception, Raise(e)
  PROVE  /\ pc' = "raise"
         /\ exc' \in Vector
         /\ codes' \in 0..2
         /\ thread' \in {"execution", "emulator", "failed"}
  BY DEF Raise, TypeOK, Vector

LEMMA TablesType ==
  /\ NoDescriptors \in [Vector -> Descriptor]
  /\ \A paged : Tables(paged) \subseteq [Vector -> Descriptor]
  BY DEF Tables, NoDescriptors, Descriptor

LEMMA LowerType ==
  ASSUME TypeOK, NEW a \in Addr, Lower(a)
  PROVE  scp' \in Addr /\ mem' \in [Mapped -> Word]
  BY DEF Lower, TypeOK, Word

LEMMA ForgottenType ==
  Forgotten => /\ retIP' \in Code /\ sound' \in BOOLEAN /\ exc' \in Vector /\ codes' \in 0..2
               /\ thread' \in {"execution", "emulator", "failed"}
  <1> SUFFICES ASSUME Forgotten
               PROVE  /\ retIP' \in Code /\ sound' \in BOOLEAN /\ exc' \in Vector /\ codes' \in 0..2
                      /\ thread' \in {"execution", "emulator", "failed"}
    OBVIOUS
  <1>1. sound' \in BOOLEAN /\ retIP' \in Code /\ exc' \in Vector
    BY Zenon DEF Forgotten, Vector, Exception
  <1>2. codes' \in 0..2
    BY DEF Forgotten
  <1> QED
    BY <1>1, <1>2 DEF Forgotten

\* A new delivery is typed.
LEMMA BeginType ==
  ASSUME NEW v \in Vector, NEW from \in Code, NEW by \in {"execution", "emulator"}, NEW at,
         Begin(v, from, by, at)
  PROVE  /\ retIP' \in Code /\ sound' \in BOOLEAN /\ exc' \in Vector /\ codes' \in 0..2
         /\ thread' \in {"execution", "emulator", "failed"}
  BY DEF Begin, Sound

LEMMA ThrowType ==
  ASSUME TypeOK, NEW e \in Exception, NEW at, ThrowAt(e, at)
  PROVE  /\ pc' = "raise" /\ ip' \in Code
         /\ retIP' \in Code /\ sound' \in BOOLEAN /\ exc' \in Vector /\ codes' \in 0..2
         /\ thread' \in {"execution", "emulator", "failed"}
  BY BeginType DEF ThrowAt, TypeOK, Vector

LEMMA DoneType ==
  ASSUME TypeOK, NEW w \in Code, Done(w)
  PROVE  /\ pc' = "run" /\ ip' \in Code
         /\ retIP' \in Code /\ sound' \in BOOLEAN /\ exc' \in Vector /\ codes' \in 0..2
         /\ thread' \in {"execution", "emulator", "failed"}
  BY DEF Done, call, TypeOK

\* How many words of a run of n are reached: a number, whatever the test.
LEMMA CountType ==
  ASSUME NEW n \in Nat, NEW S, S \subseteq 1..n
  PROVE  Cardinality(S) \in Nat
  <1>1. IsFiniteSet(1..n)
    BY FS_Interval
  <1>2. IsFiniteSet(S)
    BY <1>1, FS_Subset
  <1> QED
    BY <1>2, FS_CardinalityType

LEMMA InitType == Init => TypeOK
  <1> SUFFICES ASSUME Init PROVE TypeOK
    OBVIOUS
  <1>1. {scp, stp} \subseteq Addr /\ codes \in 0..2
    BY DEF Init
  <1>2. {prot, user, paging, sound} \subseteq BOOLEAN
    BY Zenon DEF Init
  <1>3. mem \in [Mapped -> Word] /\ exc \in Vector /\ idt \in [Vector -> Descriptor]
    BY TablesType DEF Init, Word, Vector, Exception
  <1> QED
    BY <1>1, <1>2, <1>3 DEF Init, TypeOK, Status

LEMMA DeliveryType == TypeOK /\ Delivery => TypeOK'
  <1> SUFFICES ASSUME TypeOK, Delivery PROVE TypeOK'
    OBVIOUS
  <1>1. CASE RaiseException
    <2> USE <1>1 DEF RaiseException
    <2>0. CASE Tests /\ StackRaises
      <3>1. "PHYS_MEM_VIOLATION" \in Exception
        BY DEF Exception
      <3> QED
        BY <2>0, <3>1, RaiseType DEF TypeOK, regs, modes
    <2>1. CASE Tests /\ ~StackRaises /\ ~StackUsable
      BY <2>1, FailureType DEF TypeOK, regs, modes
    <2>2. CASE codes < Codes(exc) /\ ~(Tests /\ (StackRaises \/ ~StackUsable))
      <3>1. "code" \in Word /\ codes + 1 \in 0..2
        BY <2>2, CodesType DEF TypeOK, Word
      <3>2. Push("code", "raise", codes + 1)
        BY <2>2
      <3> QED
        BY <3>1, <3>2, PushType DEF TypeOK, regs, modes
    <2>3. CASE ~(codes < Codes(exc))
      BY <2>3 DEF TypeOK, regs, modes, Tests
    <2> QED
      BY <2>0, <2>1, <2>2, <2>3 DEF Tests
  <1>2. CASE LoadDescriptor
    <2>1. "PHYS_MEM_VIOLATION" \in Exception
      BY DEF Exception
    <2> QED
      BY <1>2, <2>1, FailureType, RaiseType DEF LoadDescriptor, ExitUserMode, TypeOK, regs
  <1>3. CASE PushIP
    <2>1. retIP \in Word
      BY DEF TypeOK, Word
    <2> QED
      BY <1>3, <2>1, FailureType, PushType DEF PushIP, TypeOK, regs, modes
  <1>4. CASE PushStatus
    <2>1. "status" \in Word
      BY DEF Word
    <2> QED
      BY <1>4, <2>1, FailureType, PushType DEF PushStatus, TypeOK, regs, modes
  <1>5. CASE JumpToHandler
    BY <1>5, ForgottenType DEF JumpToHandler, TypeOK, regs, modes
  <1> QED
    BY <1>1, <1>2, <1>3, <1>4, <1>5 DEF Delivery

LEMMA PushesType ==
  ASSUME TypeOK, NEW w \in Word, NEW n \in Nat, NEW target \in Code,
         Pushes(w, n, target), UNCHANGED <<regs, modes, idt>>
  PROVE  TypeOK'
  <1> DEFINE At(j)    == (scp + j * Unit) % AddrMod
             Lands(j) == Base <= At(j) /\ At(j) < stp /\ At(j) % Unit = 0 /\ At(j + 1) \in Mapped
             reached  == {k \in 1..n : \A j \in 0..(k - 1) : Lands(j)}
             done     == Cardinality(reached)
             at       == At(done)
  <1>1. done \in Nat
    BY CountType
  <1>2. at \in Addr /\ Up(at) \in Addr
    <2> HIDE DEF done
    <2>1. at \in Addr
      BY <1>1, AtType
    <2> QED
      BY <2>1, AddrFacts
  <1>3. mem' \in [Mapped -> Word]
    BY DEF Pushes, TypeOK
  <1> HIDE DEF at
  <1>4. \/ scp' = at /\ Done(target)
        \/ scp' = at /\ ThrowAt("STACK_VIOLATION", at)
        \/ scp' = Up(at) /\ ThrowAt("PHYS_MEM_VIOLATION", Up(at))
    BY DEF Pushes, at
  <1> QED
    BY <1>2, <1>3, <1>4, DoneType, ThrowType DEF TypeOK, regs, modes, Exception

LEMMA PopsType ==
  ASSUME TypeOK, NEW n \in Nat, Pops(n), UNCHANGED <<regs, modes, idt>>
  PROVE  TypeOK'
  <1> DEFINE At(j)    == (scp - j * Unit) % AddrMod
             Rises(j) == Base <= At(j) /\ At(j) < stp /\ At(j) % Unit = 0 /\ At(j) \in Mapped
             reached  == {k \in 1..n : \A j \in 0..(k - 1) : Rises(j)}
             done     == Cardinality(reached)
             at       == At(done)
  <1>1. done \in Nat
    BY CountType
  <1>2. at \in Addr
    <2> HIDE DEF done
    <2> QED
      BY <1>1, AtType
  <1> HIDE DEF at
  <1>3. /\ Lower(at)
        /\ \/ Done(After[ip])
           \/ ThrowAt("STACK_VIOLATION", at)
           \/ ThrowAt("PHYS_MEM_VIOLATION", at)
    BY DEF Pops, at
  <1>4. After[ip] \in Code
    BY DEF TypeOK
  <1> QED
    BY <1>2, <1>3, <1>4, LowerType, DoneType, ThrowType DEF TypeOK, regs, modes, Exception

LEMMA GuardedType ==
  ASSUME TypeOK, Throw("USER_MODE_VIOLATION"), UNCHANGED <<regs, scp, modes, mem, idt>>
  PROVE  TypeOK'
  BY ThrowType DEF Throw, TypeOK, regs, modes, Exception

LEMMA PopType ==
  ASSUME TypeOK
  PROVE  /\ \A e \in PopThrows : e \in Exception
         /\ \A w \in IF mem[scp] \in Code THEN {mem[scp]} ELSE Code : w \in Code
         /\ Down(scp) \in Addr
  BY AddrFacts DEF PopThrows, Exception, TypeOK

LEMMA ReturnType == TypeOK /\ (Iret \/ IretJump \/ Ret) => TypeOK'
  <1> SUFFICES ASSUME TypeOK, Iret \/ IretJump \/ Ret PROVE TypeOK'
    OBVIOUS
  <1>0. "STACK_VIOLATION" \in Exception /\ "USER_MODE_VIOLATION" \in Exception
    BY DEF Exception
  <1>1. CASE Ret
    BY <1>1, PopType, LowerType, ThrowType, DoneType DEF Ret, Throw, TypeOK, regs, modes
  <1>2. CASE Iret
    <2>1. \A e \in Exception : Throw(e) /\ UNCHANGED <<sts, scp, mem>> /\ UNCHANGED <<cr1, stp, modes, idt>>
                              => TypeOK'
      BY ThrowType DEF Throw, TypeOK, modes
    <2>2. CASE ~InUser /\ ~WillUnderflowOnPop /\ PopThrows = {}
      BY <1>2, <2>2, PopType, LowerType DEF Iret, TypeOK, modes, call, Status
    <2> QED
      BY <1>0, <1>2, <2>1, <2>2, PopType DEF Iret
  <1>3. CASE IretJump
    <2>1. \A e \in Exception : Throw(e) /\ UNCHANGED <<scp, mem>> /\ UNCHANGED <<regs, modes, idt>> => TypeOK'
      BY ThrowType DEF Throw, TypeOK, regs, modes
    <2>2. CASE ~WillUnderflowOnPop /\ PopThrows = {}
      BY <1>3, <2>2, PopType, LowerType DEF IretJump, TypeOK, regs, modes, call
    <2> QED
      BY <1>0, <1>3, <2>1, <2>2, PopType DEF IretJump
  <1> QED
    BY <1>1, <1>2, <1>3

\* Instructions that push or pop data.
LEMMA StackType == TypeOK /\ (PushData \/ PushAll \/ Call \/ PopRegister \/ PopAll) => TypeOK'
  <1> SUFFICES ASSUME TypeOK, PushData \/ PushAll \/ Call \/ PopRegister \/ PopAll PROVE TypeOK'
    OBVIOUS
  <1>1. After[ip] \in Code /\ "data" \in Word /\ After[ip] \in Word
    BY DEF TypeOK, Word
  <1>2. Registers \in Nat /\ 1 \in Nat
    OBVIOUS
  <1>3. CASE PushData
    BY <1>1, <1>2, <1>3, PushesType DEF PushData
  <1>4. CASE PushAll
    BY <1>1, <1>2, <1>4, PushesType DEF PushAll
  <1>5. CASE Call
    <2>1. PICK target \in Code : Pushes(After[ip], 1, target)
      BY <1>5 DEF Call
    <2> QED
      BY <1>1, <1>2, <1>5, <2>1, PushesType DEF Call
  <1>6. CASE PopRegister
    BY <1>2, <1>6, PopsType DEF PopRegister
  <1>7. CASE PopAll
    BY <1>2, <1>7, PopsType DEF PopAll
  <1> QED
    BY <1>3, <1>4, <1>5, <1>6, <1>7

\* Instructions that change registers, the mode or the table.
LEMMA ModeType ==
  TypeOK /\ (Compute \/ Halt \/ LoadPointer \/ LoadIDT \/ Syscall \/ Sysret \/ EnterUser
              \/ MoveToCR1 \/ MoveToCR0) => TypeOK'
  <1> SUFFICES ASSUME TypeOK,
                      Compute \/ Halt \/ LoadPointer \/ LoadIDT \/ Syscall \/ Sysret \/ EnterUser
                        \/ MoveToCR1 \/ MoveToCR0
               PROVE  TypeOK'
    OBVIOUS
  <1>0. /\ {"USER_MODE_VIOLATION", "SUPERVISOR_MODE_VIOLATION", "INVALID_INSTRUCTION"} \subseteq Exception
        /\ After[ip] \in Code /\ Sentry \in Code
    BY DEF Exception, TypeOK
  <1>1. CASE Compute
    BY <1>1, DoneType DEF Compute, TypeOK, modes
  <1>2. CASE Halt
    BY <1>2 DEF Halt, TypeOK, regs, modes, call
  <1>3. CASE LoadPointer
    <2>1. PICK a \in Pointers : Lower(a)
      BY <1>3 DEF LoadPointer
    <2> QED
      BY <1>0, <1>3, <2>1, LowerType, DoneType DEF LoadPointer, TypeOK, regs, modes
  <1>4. CASE LoadIDT
    BY <1>0, <1>4, ThrowType, DoneType, TablesType DEF LoadIDT, Throw, TypeOK, regs, modes
  <1>5. CASE Syscall
    BY <1>0, <1>5, ThrowType, DoneType DEF Syscall, Throw, TypeOK, regs
  <1>6. CASE Sysret
    <2>1. CASE InUser
      BY <1>0, <1>6, <2>1, ThrowType DEF Sysret, Throw, TypeOK
    <2>2. CASE ~InUser
      <3>1. PICK a \in Pointers : Lower(a)
        BY <1>6, <2>2 DEF Sysret
      <3> QED
        BY <1>6, <2>2, <3>1, LowerType, DoneType DEF Sysret, TypeOK
    <2> QED
      BY <2>1, <2>2
  <1>7. CASE EnterUser
    BY <1>0, <1>7, ThrowType, DoneType DEF EnterUser, Throw, TypeOK, Status
  <1>8. CASE MoveToCR1
    BY <1>0, <1>8, ThrowType, DoneType DEF MoveToCR1, Throw, TypeOK, modes
  <1>9. CASE MoveToCR0
    <2>1. CASE InUser
      BY <1>0, <1>9, <2>1, ThrowType DEF MoveToCR0, Throw, TypeOK, regs, modes
    <2>2. CASE ~InUser
      <3>1. PICK pe, pg, refused \in BOOLEAN :
               IF pg = paging
               THEN prot' = pe /\ Done(After[ip]) /\ UNCHANGED <<user, paging, idt>>
               ELSE IF pg /\ refused
               THEN /\ prot' = (prot /\ pe) /\ Throw("INVALID_INSTRUCTION")
                    /\ UNCHANGED <<user, paging, idt>>
               ELSE /\ prot' = pe /\ paging' = pg /\ user' = user
                    /\ idt' \in Tables(pg)
                    /\ pc' = "run" /\ ip' = ip /\ UNCHANGED call
        BY <1>9, <2>2 DEF MoveToCR0
      <3>2. prot' \in BOOLEAN
        BY <3>1
      <3> QED
        BY <1>0, <1>9, <3>1, <3>2, ThrowType, DoneType, TablesType DEF MoveToCR0, Throw, TypeOK, regs, call
    <2> QED
      BY <2>1, <2>2
  <1> QED
    BY <1>1, <1>2, <1>3, <1>4, <1>5, <1>6, <1>7, <1>8, <1>9

LEMMA EntryType ==
  ASSUME TypeOK
  PROVE  /\ \A e \in Exception : Fault(e) => TypeOK'
         /\ \A v \in Numbers : InsInt(v) \/ RaiseInterruptExternal(v) => TypeOK'
  <1>1. ASSUME NEW e \in Exception, Fault(e) PROVE TypeOK'
    BY <1>1, ThrowType DEF Fault, Throw, TypeOK, regs, modes
  <1>2. ASSUME NEW v \in Numbers, InsInt(v) PROVE TypeOK'
    <2>1. v \in Vector /\ After[ip] \in Code
      BY DEF Vector, TypeOK
    <2>2. CASE InUser
      BY <1>2, <2>2, GuardedType DEF InsInt, Guarded
    <2>3. CASE ~InUser
      BY <1>2, <2>1, <2>3, BeginType DEF InsInt, Guarded, TypeOK, regs, modes
    <2> QED
      BY <2>2, <2>3
  <1>3. ASSUME NEW v \in Numbers, RaiseInterruptExternal(v) PROVE TypeOK'
    <2>1. v \in Vector
      BY DEF Vector
    <2> QED
      BY <1>3, <2>1, BeginType DEF RaiseInterruptExternal, TypeOK, regs, modes
  <1> QED
    BY <1>1, <1>2, <1>3

LEMMA NextType == TypeOK /\ [Next]_vars => TypeOK'
  <1> SUFFICES ASSUME TypeOK, [Next]_vars PROVE TypeOK'
    OBVIOUS
  <1>1. CASE Delivery
    BY <1>1, DeliveryType
  <1>2. CASE IretJump \/ Iret \/ Ret
    BY <1>2, ReturnType
  <1>3. CASE PushData \/ PushAll \/ Call \/ PopRegister \/ PopAll
    BY <1>3, StackType
  <1>4. CASE Compute \/ Halt \/ LoadPointer \/ LoadIDT \/ Syscall \/ Sysret \/ EnterUser
             \/ MoveToCR1 \/ MoveToCR0
    BY <1>4, ModeType
  <1>5. CASE \E v \in Numbers : InsInt(v) \/ RaiseInterruptExternal(v)
    BY <1>5, EntryType
  <1>6. CASE \E e \in {"DIV_BY_ZERO", "PHYS_MEM_VIOLATION", "PAGING_VIOLATION"} : Fault(e)
    BY <1>6, EntryType DEF Exception
  <1>7. CASE UNCHANGED vars
    BY <1>7 DEF vars, regs, modes, call, TypeOK
  <1> QED
    BY <1>1, <1>2, <1>3, <1>4, <1>5, <1>6, <1>7 DEF Next, Instruction

\* The processor keeps its shape through every instruction, frame and failure.
THEOREM TypeCorrect == Spec => []TypeOK
  BY InitType, NextType, PTL DEF Spec

-----------------------------------------------------------------------------
(* Where a delivery starts and where it may be.                            *)

\* A delivery that starts with this step, on the stack as it is after it.
Started ==
    /\ pc' \in {"raise", "vector"}
    /\ \E v \in Vector : \E from, by : Begin(v, from, by, scp')
    /\ UNCHANGED <<stp, paging, idt>>

LEMMA ThrowStarts ==
  ASSUME NEW e \in Exception, NEW at, ThrowAt(e, at), scp' = at, UNCHANGED <<stp, paging, idt>>
  PROVE  Started
  BY Zenon DEF ThrowAt, Started, Vector

LEMMA PushesStart ==
  ASSUME NEW w, NEW n, NEW target, Pushes(w, n, target), UNCHANGED <<regs, modes, idt>>
  PROVE  pc' = "run" \/ Started
  <1> DEFINE At(j)    == (scp + j * Unit) % AddrMod
             Lands(j) == Base <= At(j) /\ At(j) < stp /\ At(j) % Unit = 0 /\ At(j + 1) \in Mapped
             at       == At(Cardinality({k \in 1..n : \A j \in 0..(k - 1) : Lands(j)}))
  <1> HIDE DEF at
  <1>1. \/ Done(target)
        \/ scp' = at /\ ThrowAt("STACK_VIOLATION", at)
        \/ scp' = Up(at) /\ ThrowAt("PHYS_MEM_VIOLATION", Up(at))
    BY DEF Pushes, at
  <1>2. UNCHANGED <<stp, paging, idt>>
    BY DEF regs, modes
  <1> QED
    BY <1>1, <1>2, ThrowStarts DEF Done, Exception

LEMMA PopsStart ==
  ASSUME NEW n, Pops(n), UNCHANGED <<regs, modes, idt>>
  PROVE  pc' = "run" \/ Started
  <1> DEFINE At(j)    == (scp - j * Unit) % AddrMod
             Rises(j) == Base <= At(j) /\ At(j) < stp /\ At(j) % Unit = 0 /\ At(j) \in Mapped
             at       == At(Cardinality({k \in 1..n : \A j \in 0..(k - 1) : Rises(j)}))
  <1> HIDE DEF at
  <1>1. /\ Lower(at)
        /\ \/ Done(After[ip])
           \/ ThrowAt("STACK_VIOLATION", at)
           \/ ThrowAt("PHYS_MEM_VIOLATION", at)
    BY DEF Pops, at
  <1>2. UNCHANGED <<stp, paging, idt>> /\ scp' = at
    BY <1>1 DEF regs, modes, Lower
  <1> QED
    BY <1>1, <1>2, ThrowStarts DEF Done, Exception

\* An instruction goes on, or starts a delivery.
LEMMA InstructionStarts ==
  ASSUME Instruction \/ IretJump \/ \E v \in Numbers : RaiseInterruptExternal(v)
  PROVE  pc' \in {"run", "iret", "halted"} \/ Started
  <1>0. /\ {"USER_MODE_VIOLATION", "SUPERVISOR_MODE_VIOLATION", "INVALID_INSTRUCTION",
            "DIV_BY_ZERO", "PHYS_MEM_VIOLATION", "PAGING_VIOLATION", "STACK_VIOLATION"} \subseteq Exception
        /\ PopThrows \subseteq Exception
    BY DEF Exception, PopThrows
  <1>1. ASSUME NEW e \in Exception, Throw(e), UNCHANGED <<stp, scp, paging, idt>> PROVE Started
    BY <1>1, ThrowStarts DEF Throw
  <1>2. CASE Compute \/ Halt \/ LoadPointer
    BY <1>2 DEF Compute, Halt, LoadPointer, Done
  <1>3. CASE PushData \/ PushAll \/ Call
    BY <1>3, PushesStart DEF PushData, PushAll, Call
  <1>4. CASE PopRegister \/ PopAll
    BY <1>4, PopsStart DEF PopRegister, PopAll
  <1>5. CASE Ret
    BY <1>0, <1>1, <1>5 DEF Ret, Done, regs, modes
  <1>6. CASE Iret
    BY <1>0, <1>1, <1>6 DEF Iret, modes
  <1>7. CASE IretJump
    BY <1>0, <1>1, <1>7 DEF IretJump, regs, modes
  <1>8. CASE LoadIDT
    BY <1>0, <1>1, <1>8 DEF LoadIDT, Done, regs, modes
  <1>9. CASE Syscall
    BY <1>0, <1>1, <1>9 DEF Syscall, Done, regs
  <1>10. CASE Sysret \/ EnterUser
    BY <1>0, <1>1, <1>10 DEF Sysret, EnterUser, Done
  <1>11. CASE MoveToCR1
    BY <1>0, <1>1, <1>11 DEF MoveToCR1, Done, modes
  <1>12. CASE MoveToCR0
    BY <1>0, <1>1, <1>12 DEF MoveToCR0, Done, regs, modes
  <1>13. CASE \E e \in {"DIV_BY_ZERO", "PHYS_MEM_VIOLATION", "PAGING_VIOLATION"} : Fault(e)
    BY <1>0, <1>1, <1>13 DEF Fault, regs, modes
  <1>14. ASSUME NEW v \in Numbers, InsInt(v) PROVE Started
    BY <1>0, <1>1, <1>14 DEF InsInt, Guarded, Started, Vector, regs, modes
  <1>15. ASSUME NEW v \in Numbers, RaiseInterruptExternal(v) PROVE Started
    BY <1>15 DEF RaiseInterruptExternal, Started, Vector, regs, modes
  <1> QED
    BY <1>2, <1>3, <1>4, <1>5, <1>6, <1>7, <1>8, <1>9, <1>10, <1>11, <1>12, <1>13, <1>14, <1>15
       DEF Instruction

LEMMA OtherStages ==
  ASSUME RaiseException \/ JumpToHandler \/ Instruction \/ IretJump
           \/ \E v \in Numbers : RaiseInterruptExternal(v)
  PROVE  pc' \in {"run", "raise", "vector", "iret", "halted", "crashed", "stuck"}
  <1>1. CASE RaiseException
    BY <1>1 DEF RaiseException, HandleFailure, Push, Raise
  <1>2. CASE JumpToHandler
    BY <1>2 DEF JumpToHandler
  <1>3. CASE ~RaiseException /\ ~JumpToHandler
    BY <1>3, InstructionStarts DEF Started
  <1> QED
    BY <1>1, <1>2, <1>3

-----------------------------------------------------------------------------
(* Privilege.                                                              *)

\* Whatever leaves the modes alone leaves user mode alone.
LEMMA ModesStay == UNCHANGED modes => InUser' = InUser
  BY DEF modes, InUser

LEMMA LeavingStep ==
  ASSUME Next, InUser, ~InUser'
  PROVE  /\ pc' = "pushIP" \/ (pc' = "run" /\ ip' = Sentry)
         /\ cr1' = sts /\ sts' = cr1
  <1>1. CASE LoadDescriptor
    <2>1. idt[exc] = "present"
      BY <1>1 DEF LoadDescriptor, InUser
    <2> QED
      BY <1>1, <2>1 DEF LoadDescriptor, ExitUserMode
  <1>2. CASE Syscall
    BY <1>2 DEF Syscall, Done, InUser
  <1>3. CASE LoadIDT \/ Sysret \/ EnterUser \/ MoveToCR1 \/ MoveToCR0
    BY <1>3, ModesStay DEF LoadIDT, Sysret, EnterUser, MoveToCR1, MoveToCR0, InUser
  <1>4. CASE RaiseException \/ PushIP \/ PushStatus \/ JumpToHandler \/ IretJump
    BY <1>4, ModesStay DEF RaiseException, PushIP, PushStatus, JumpToHandler, IretJump
  <1>5. CASE Compute \/ PushData \/ PushAll \/ Call \/ PopRegister \/ PopAll \/ Halt \/ Ret
             \/ LoadPointer \/ Iret
    BY <1>5, ModesStay
       DEF Compute, PushData, PushAll, Call, PopRegister, PopAll, Halt, Ret, LoadPointer, Iret
  <1>6. CASE \/ \E v \in Numbers : InsInt(v) \/ RaiseInterruptExternal(v)
             \/ \E e \in {"DIV_BY_ZERO", "PHYS_MEM_VIOLATION", "PAGING_VIOLATION"} : Fault(e)
    BY <1>6, ModesStay DEF InsInt, RaiseInterruptExternal, Fault
  <1> QED
    BY <1>1, <1>2, <1>3, <1>4, <1>5, <1>6 DEF Next, Instruction, Delivery

\* User mode ends only in a delivery or at the entry the supervisor chose, and
\* keeps the user's status.
THEOREM PrivilegeCorrect == Spec => UserLeaves
  <1>1. [Next]_vars => [InUser /\ ~InUser' =>
                          /\ pc' = "pushIP" \/ (pc' = "run" /\ ip' = Sentry)
                          /\ cr1' = sts /\ sts' = cr1]_vars
    BY LeavingStep
  <1> QED
    BY <1>1, PTL DEF Spec, UserLeaves

\* A handler is entered in supervisor mode: no step of a delivery before its
\* frame is complete returns to user mode.
THEOREM HandlersPrivileged == Spec => []KernelHandles
  <1>1. Init => KernelHandles
    BY DEF Init, KernelHandles
  <1>2. ASSUME KernelHandles, [Next]_vars PROVE KernelHandles'
    <2>1. CASE UNCHANGED vars
      BY <1>2, <2>1 DEF vars, modes, InUser, KernelHandles
    <2>2. CASE LoadDescriptor
      <3>1. CASE idt[exc] = "present"
        BY <2>2, <3>1 DEF LoadDescriptor, ExitUserMode, InUser, KernelHandles
      <3>2. CASE idt[exc] # "present"
        BY <2>2, <3>2 DEF LoadDescriptor, HandleFailure, Raise, KernelHandles
      <3> QED
        BY <3>1, <3>2
    <2>3. CASE PushIP \/ PushStatus
      BY <1>2, <2>3, ModesStay DEF PushIP, PushStatus, KernelHandles
    <2>4. CASE RaiseException \/ JumpToHandler \/ Instruction \/ IretJump
               \/ \E v \in Numbers : RaiseInterruptExternal(v)
      <3>1. pc' \in {"run", "raise", "vector", "iret", "halted", "crashed", "stuck"}
        BY <2>4, OtherStages
      <3> QED
        BY <3>1 DEF KernelHandles
    <2> QED
      BY <1>2, <2>1, <2>2, <2>3, <2>4 DEF Next, Delivery
  <1> QED
    BY <1>1, <1>2, PTL DEF Spec

-----------------------------------------------------------------------------
(* Crashes.                                                                *)

\* The words a push and the test before it may use.
Usable == IF paging THEN Mapped \cap Validated ELSE Mapped

\* k words fit between SCP = at and STP = top.
Fits(at, top, words, k) ==
    /\ at % Unit = 0 /\ Base <= at /\ at + k * Unit <= top
    /\ \A n \in 1..k : at + n * Unit \in words

\* The stack takes k more words.
Room(k) == Fits(scp, stp, Usable, k)

\* What finding the handler of v and its frame may still push: a missing
\* descriptor adds the code of UNHANDLED_INTERRUPT, one that cannot be validated
\* that of PHYS_MEM_VIOLATION, whose own descriptor may be missing.
Finding(v) ==
    CASE v = "UNHANDLED_INTERRUPT" -> 2
      [] v = "PHYS_MEM_VIOLATION"  -> 3
      [] OTHER                     -> 4

\* What a delivery still pushes: the error codes that are left and those.
Need ==
    CASE pc = "raise"   -> Codes(exc) - codes + Finding(exc)
      [] pc = "vector"  -> Finding(exc)
      [] pc = "pushIP"  -> 2
      [] pc = "pushSTS" -> 1
      [] OTHER          -> 0

Delivering == pc \in {"raise", "vector", "pushIP", "pushSTS"}

\* The descriptors that failures lead to.
Answers == idt["UNHANDLED_INTERRUPT"] = "present" /\ idt["PHYS_MEM_VIOLATION"] # "beyond"

\* The inductive invariant.
Provided ==
    /\ sound /\ Delivering => Answers /\ Room(Need)
    /\ pc = "raise" => codes <= Codes(exc)
    /\ CrashNeedsCause

LEMMA ModSmall ==
  ASSUME NEW m \in Nat \ {0}, NEW a \in 0..(m - 1)
  PROVE  a % m = a
  OBVIOUS

LEMMA Distributes ==
  ASSUME NEW n \in Nat, NEW u \in Nat
  PROVE  (n + 1) * u = n * u + u /\ n * u \in Nat
  OBVIOUS

LEMMA TimesMonotone ==
  ASSUME NEW j \in Nat, NEW k \in Nat, j <= k, NEW u \in Nat
  PROVE  j * u <= k * u
  OBVIOUS

\* Room for more is room for less.
LEMMA FitsLess ==
  ASSUME NEW at \in Addr, NEW top \in Addr, NEW words,
         NEW j \in Nat, NEW k \in Nat, j <= k, Fits(at, top, words, k)
  PROVE  Fits(at, top, words, j)
  <1>1. j * Unit <= k * Unit /\ j * Unit \in Nat /\ k * Unit \in Nat
    BY TimesMonotone, Distributes
  <1>2. at + j * Unit <= top
    BY <1>1 DEF Fits, Addr
  <1>3. \A n \in 1..j : n \in 1..k
    OBVIOUS
  <1> QED
    BY <1>2, <1>3 DEF Fits

\* The first of the words there is room for: the next push takes it.
LEMMA RoomAbove ==
  ASSUME TypeOK, NEW k \in Nat, Room(k + 1)
  PROVE  /\ Up(scp) = scp + Unit /\ Up(scp) \in Usable
         /\ ~Violates /\ ~WillOverflowOnPush /\ ~WillUnderflowOnPop
         /\ StackUsable /\ ~StackRaises
  <1>1. (k + 1) * Unit = k * Unit + Unit /\ k * Unit \in Nat
    BY Distributes
  <1>2. scp \in Nat /\ stp \in 0..(AddrMod - 1) /\ scp + Unit <= stp
    BY <1>1 DEF Room, Fits, TypeOK, Addr
  <1>3. Up(scp) = scp + Unit
    BY <1>2, ModSmall DEF Up
  <1>4. 1 \in 1..(k + 1) /\ 1 * Unit = Unit
    OBVIOUS
  <1>5. Up(scp) \in Usable
    BY <1>3, <1>4 DEF Room, Fits
  <1>6. ~WillOverflowOnPush /\ ~WillUnderflowOnPop /\ scp % Unit = 0
    BY <1>2 DEF Room, Fits, WillOverflowOnPush, WillUnderflowOnPop, Addr
  <1>7. ~Violates
    BY <1>2, <1>6 DEF Violates, WillUnderflowOnPop, WillOverflowOnPush, Addr
  <1>8. StackUsable
    BY <1>5, <1>6 DEF StackUsable, StackInBounds, Usable
  <1>9. ~StackRaises
    BY <1>5 DEF StackRaises, Usable
  <1> QED
    BY <1>3, <1>5, <1>6, <1>7, <1>8, <1>9

\* A push takes one word of the room.
LEMMA RoomTaken ==
  ASSUME TypeOK, NEW k \in Nat, Room(k + 1), scp' = Up(scp), UNCHANGED <<stp, paging>>
  PROVE  Room(k)'
  <1>1. scp' = scp + Unit /\ scp \in Nat /\ stp \in Nat
    BY RoomAbove DEF TypeOK, Addr
  <1>2. scp' % Unit = 0
    BY <1>1, Aligned DEF Room, Fits
  <1>3. (k + 1) * Unit = k * Unit + Unit /\ k * Unit \in Nat
    BY Distributes
  <1>4. Base <= scp' /\ scp' + k * Unit <= stp
    BY <1>1, <1>3 DEF Room, Fits, Addr
  <1>5. ASSUME NEW n \in 1..k PROVE scp' + n * Unit \in Usable'
    <2>1. (n + 1) * Unit = n * Unit + Unit /\ n * Unit \in Nat
      BY Distributes
    <2>2. scp + (n + 1) * Unit \in Usable
      <3>1. n + 1 \in 1..(k + 1)
        OBVIOUS
      <3> QED
        BY <3>1 DEF Room, Fits
    <2>3. scp' + n * Unit = scp + (n + 1) * Unit
      BY <1>1, <2>1
    <2>4. Usable' = Usable
      BY DEF Usable
    <2> QED
      BY <2>2, <2>3, <2>4
  <1> QED
    BY <1>2, <1>4, <1>5 DEF Room, Fits

\* With room above, Stack::push succeeds.
LEMMA PushSucceeds ==
  ASSUME TypeOK, NEW k \in Nat, Room(k + 1), NEW w, NEW to, NEW n, Push(w, to, n),
         UNCHANGED <<stp, paging>>
  PROVE  pc' = to /\ codes' = n /\ exc' = exc /\ Room(k)'
  <1>1. ~Violates /\ Up(scp) \in Mapped
    BY RoomAbove DEF Usable
  <1>2. scp' = Up(scp) /\ pc' = to /\ codes' = n /\ exc' = exc
    BY <1>1 DEF Push
  <1> QED
    BY <1>2, RoomTaken

\* What the guest is entitled to is more than any delivery needs.
LEMMA StartProvided ==
  ASSUME TypeOK, TypeOK', Started PROVE Provided'
  <1>1. PICK v \in Vector : \E from, by : Begin(v, from, by, scp')
    BY DEF Started
  <1>2. exc' = v /\ codes' = 0 /\ sound' = Sound(v, scp')
    BY <1>1 DEF Begin
  <1>3. Codes(v) \in 0..2 /\ Words(v) \in Nat
    BY CodesType DEF Words
  <1>4. ASSUME sound' PROVE Answers' /\ Room(Words(v))'
    BY <1>2, <1>4 DEF Sound, Words, Room, Fits, Usable, Started, Answers, Codes
  <1>5. Need' \in Nat /\ Need' <= Words(v)
    <2>1. Need' = IF pc' = "raise" THEN Codes(v) + Finding(v) ELSE Finding(v)
      BY <1>2, <1>3 DEF Need, Started, Finding, Codes
    <2>2. Finding(v) \in 2..4
      BY DEF Finding
    <2> QED
      BY <1>3, <2>1, <2>2 DEF Words
  <1>6. ASSUME sound' PROVE Room(Need)'
    <2>1. scp' \in Addr /\ stp' \in Addr
      BY DEF TypeOK
    <2>2. Fits(scp', stp', Usable', Words(v))
      BY <1>4, <1>6 DEF Room
    <2>3. Fits(scp', stp', Usable', Need')
      BY <1>3, <1>5, <2>1, <2>2, FitsLess
    <2> QED
      BY <2>3 DEF Room
  <1>7. codes' <= Codes(exc)'
    BY <1>2, <1>3
  <1> QED
    BY <1>4, <1>6, <1>7 DEF Provided, CrashNeedsCause, Started

\* A nested failure of a provided delivery raises UNHANDLED_INTERRUPT.
LEMMA DeliveryProvided == TypeOK /\ Provided /\ Delivery => Provided'
  <1> SUFFICES ASSUME TypeOK, Provided, Delivery PROVE Provided'
    OBVIOUS
  <1>0. /\ Codes("UNHANDLED_INTERRUPT") = 1
        /\ Codes("PHYS_MEM_VIOLATION") = 1
        /\ Codes(exc) \in 0..2 /\ codes \in 0..2
        /\ Finding(exc) \in 2..4
    BY CodesType DEF Codes, TypeOK, Finding
  <1>1. CASE RaiseException
    <2>0. UNCHANGED <<stp, paging, idt, sound>> /\ pc = "raise" /\ codes <= Codes(exc)
      BY <1>1 DEF RaiseException, regs, modes, Provided
    <2>1. CASE ~sound
      <3>1. pc' = "raise" => codes' <= Codes(exc)'
        BY <1>0, <1>1, <2>0 DEF RaiseException, HandleFailure, Push, Raise, Codes, Tests
      <3> QED
        BY <2>0, <2>1, <3>1 DEF Provided, CrashNeedsCause
    <2>2. CASE sound /\ codes < Codes(exc)
      <3>0. Need - 1 \in Nat /\ Need = (Need - 1) + 1 /\ Room(Need)
        BY <1>0, <2>0, <2>2 DEF Provided, Delivering, Need
      <3>1. PICK k \in Nat : k = Need - 1 /\ Room(k + 1)
        BY <3>0
      <3>2. Push("code", "raise", codes + 1)
        BY <1>1, <2>2, <3>1, RoomAbove DEF RaiseException
      <3>3. pc' = "raise" /\ codes' = codes + 1 /\ exc' = exc /\ Room(k)'
        BY <2>0, <3>1, <3>2, PushSucceeds
      <3>4. Need' = k
        BY <2>0, <3>1, <3>3, <1>0 DEF Need, Finding
      <3> QED
        BY <2>0, <2>2, <3>3, <3>4, <1>0 DEF Provided, CrashNeedsCause, Delivering, Room, Answers
    <2>3. CASE sound /\ ~(codes < Codes(exc))
      <3>1. pc' = "vector" /\ UNCHANGED <<scp, exc>>
        BY <1>1, <2>3 DEF RaiseException, Tests
      <3>2. Need' = Need
        BY <1>0, <2>0, <2>3, <3>1 DEF Need, Finding
      <3> QED
        BY <2>0, <2>3, <3>1, <3>2 DEF Provided, CrashNeedsCause, Delivering, Room, Usable, Answers
    <2> QED
      BY <2>1, <2>2, <2>3
  <1>2. CASE LoadDescriptor
    <2>0. UNCHANGED <<scp, stp, paging, idt, sound>> /\ pc = "vector"
      BY <1>2 DEF LoadDescriptor, ExitUserMode, regs
    <2>1. CASE idt[exc] = "present"
      <3>1. pc' = "pushIP"
        BY <1>2, <2>1 DEF LoadDescriptor
      <3>2. sound => Room(2)
        <4> SUFFICES ASSUME sound PROVE Room(2)
          OBVIOUS
        <4>1. Room(Need) /\ Need \in 2..4
          BY <1>0, <2>0 DEF Provided, Delivering, Need
        <4>2. scp \in Addr /\ stp \in Addr /\ 2 <= Need
          BY <4>1 DEF TypeOK
        <4> QED
          BY <4>1, <4>2, FitsLess DEF Room
      <3>3. Need' = 2
        BY <3>1 DEF Need
      <3> QED
        BY <2>0, <3>1, <3>2, <3>3 DEF Provided, CrashNeedsCause, Delivering, Room, Usable, Answers
    <2>2. CASE idt[exc] = "absent"
      <3>1. HandleFailure(exc)
        BY <1>2, <2>2 DEF LoadDescriptor
      <3>2. CASE ~sound
        <4>1. pc' = "raise" => codes' <= Codes(exc)'
          BY <1>0, <3>1 DEF HandleFailure, Raise
        <4> QED
          BY <2>0, <3>2, <4>1 DEF Provided, CrashNeedsCause
      <3>3. CASE sound
        <4>0. exc # "UNHANDLED_INTERRUPT" /\ Room(Need) /\ Need \in 3..4
          BY <2>0, <2>2, <3>3 DEF Provided, Delivering, Need, Finding, Answers
        <4>1. exc # "UNHANDLED_INTERRUPT" /\ Room(3)
          <5>1. scp \in Addr /\ stp \in Addr /\ 3 <= Need
            BY <4>0 DEF TypeOK
          <5> QED
            BY <4>0, <5>1, FitsLess DEF Room
        <4>2. pc' = "raise" /\ exc' = "UNHANDLED_INTERRUPT" /\ codes' = 0
          BY <3>1, <4>1 DEF HandleFailure, Raise
        <4>3. Need' = 3
          BY <1>0, <4>2 DEF Need, Finding
        <4> QED
          BY <1>0, <2>0, <3>3, <4>1, <4>2, <4>3
             DEF Provided, CrashNeedsCause, Delivering, Room, Usable, Answers
      <3> QED
        BY <3>2, <3>3
    <2>3. CASE idt[exc] = "beyond"
      <3>1. pc' = "raise" /\ exc' = "PHYS_MEM_VIOLATION" /\ codes' = 0
        BY <1>2, <2>3 DEF LoadDescriptor, Raise
      <3>2. CASE ~sound
        BY <1>0, <2>0, <3>1, <3>2 DEF Provided, CrashNeedsCause
      <3>3. CASE sound
        <4>1. Need = 4 /\ Room(Need)
          BY <2>0, <2>3, <3>3 DEF Provided, Delivering, Need, Finding, Answers
        <4>2. Need' = 4
          BY <1>0, <3>1 DEF Need, Finding
        <4> QED
          BY <1>0, <2>0, <3>1, <3>3, <4>1, <4>2
             DEF Provided, CrashNeedsCause, Delivering, Room, Usable, Answers
      <3> QED
        BY <3>2, <3>3
    <2> QED
      BY <1>2, <2>1, <2>2, <2>3 DEF LoadDescriptor
  <1>3. CASE PushIP \/ PushStatus
    <2>0. UNCHANGED <<stp, paging, idt, sound>> /\ pc \in {"pushIP", "pushSTS"}
      BY <1>3 DEF PushIP, PushStatus, regs, modes
    <2>1. CASE ~sound
      <3>1. pc' = "raise" => codes' <= Codes(exc)'
        BY <1>0, <1>3 DEF PushIP, PushStatus, HandleFailure, Push, Raise, Codes
      <3> QED
        BY <2>0, <2>1, <3>1 DEF Provided, CrashNeedsCause
    <2>2. CASE sound /\ PushIP
      <3>1. Room(1 + 1)
        BY <2>2 DEF Provided, Delivering, Need, PushIP
      <3>2. Push(retIP, "pushSTS", codes)
        BY <2>2, <3>1, RoomAbove DEF PushIP
      <3>3. pc' = "pushSTS" /\ Room(1)'
        BY <2>0, <3>1, <3>2, PushSucceeds
      <3>4. Need' = 1
        BY <3>3 DEF Need
      <3> QED
        BY <2>0, <2>2, <3>3, <3>4 DEF Provided, CrashNeedsCause, Delivering, Room, Answers
    <2>3. CASE sound /\ PushStatus
      <3>1. Room(0 + 1)
        BY <2>3 DEF Provided, Delivering, Need, PushStatus
      <3>2. Push("status", "jump", codes)
        BY <2>3, <3>1, RoomAbove DEF PushStatus
      <3>3. pc' = "jump"
        BY <2>0, <3>1, <3>2, PushSucceeds
      <3> QED
        BY <2>0, <2>3, <3>3 DEF Provided, CrashNeedsCause, Delivering
    <2> QED
      BY <1>3, <2>1, <2>2, <2>3
  <1>4. CASE JumpToHandler
    BY <1>4 DEF JumpToHandler, Provided, CrashNeedsCause, Delivering
  <1> QED
    BY <1>1, <1>2, <1>3, <1>4 DEF Delivery

\* A guest whose stack had room when the delivery began, and that handles
\* UNHANDLED_INTERRUPT, is never crashed by an exception, an interrupt or a
\* missing descriptor, for every stack, memory and table.
THEOREM CrashCorrect == Spec => []CrashNeedsCause
  <1>1. Init => TypeOK /\ Provided
    BY InitType DEF Init, Provided, Delivering, CrashNeedsCause
  <1>2. ASSUME TypeOK /\ Provided, [Next]_vars PROVE (TypeOK /\ Provided)'
    <2>0. TypeOK'
      BY <1>2, NextType
    <2>1. CASE UNCHANGED vars
      BY <1>2, <2>0, <2>1
         DEF vars, regs, modes, call, Provided, CrashNeedsCause, Delivering, Need, Finding,
             Room, Usable, Answers
    <2>2. CASE Delivery
      BY <1>2, <2>0, <2>2, DeliveryProvided
    <2>3. CASE Instruction \/ IretJump \/ \E v \in Numbers : RaiseInterruptExternal(v)
      <3>1. CASE Started
        BY <1>2, <2>0, <3>1, StartProvided
      <3>2. CASE pc' \in {"run", "iret", "halted"}
        BY <2>0, <3>2 DEF Provided, CrashNeedsCause, Delivering
      <3> QED
        BY <2>3, <3>1, <3>2, InstructionStarts
    <2> QED
      BY <1>2, <2>1, <2>2, <2>3 DEF Next
  <1>3. Provided => CrashNeedsCause
    BY DEF Provided
  <1> QED
    BY <1>1, <1>2, <1>3, PTL DEF Spec

-----------------------------------------------------------------------------
(* Frames.                                                                 *)

\* The address n words below a.
Back(a, n) == (a + AddrMod - n * Unit) % AddrMod

\* The error codes of this delivery stand k words below SCP.
Stacked(k) ==
    \A n \in 0..(codes - 1) : Back(scp, n + k) \in Mapped /\ mem[Back(scp, n + k)] = "code"

\* The inductive invariant: what has been pushed so far is where it was pushed.
Laid ==
    /\ pc \in {"raise", "vector", "pushIP"} => Stacked(0)
    /\ pc = "pushSTS" => Stacked(1) /\ scp \in Mapped /\ mem[scp] = retIP
    /\ pc = "jump" =>
         /\ Stacked(2) /\ scp \in Mapped /\ mem[scp] = "status"
         /\ Back(scp, 1) \in Mapped /\ mem[Back(scp, 1)] = retIP

LEMMA ModOnce ==
  ASSUME NEW m \in Nat \ {0}, NEW a \in m..(2 * m - 1)
  PROVE  a % m = a - m
  OBVIOUS

\* A push moves every word one further from SCP and overwrites none of the
\* three below it.
LEMMA BackUp ==
  ASSUME NEW a \in Addr, NEW n \in 0..2
  PROVE  Back(Up(a), n + 1) = Back(a, n) /\ Back(a, n) # Up(a)
  <1> DEFINE d == n * Unit
  <1>1. (n + 1) * Unit = d + Unit /\ d \in Nat /\ d <= 2 * Unit
    OBVIOUS
  <1> HIDE DEF d
  <1>2. AddrMod \in Nat \ {0} /\ a \in 0..(AddrMod - 1)
    BY DEF Addr
  <1>3. Back(a, n) = IF a < d THEN a + AddrMod - d ELSE a - d
    <2>1. CASE a < d
      <3>1. a + AddrMod - d \in 0..(AddrMod - 1)
        BY <1>1, <1>2, <2>1
      <3> QED
        BY <1>2, <2>1, <3>1, ModSmall DEF Back, d
    <2>2. CASE ~(a < d)
      <3>1. a + AddrMod - d \in AddrMod..(2 * AddrMod - 1)
        BY <1>1, <1>2, <2>2
      <3>2. (a + AddrMod - d) % AddrMod = (a + AddrMod - d) - AddrMod
        BY <1>2, <3>1, ModOnce
      <3>3. Back(a, n) = (a + AddrMod - d) % AddrMod
        BY DEF Back, d
      <3> QED
        BY <1>1, <1>2, <2>2, <3>2, <3>3
    <2> QED
      BY <2>1, <2>2
  <1>4. Up(a) = IF a + Unit < AddrMod THEN a + Unit ELSE a + Unit - AddrMod
    <2>1. CASE a + Unit < AddrMod
      BY <1>2, <2>1, ModSmall DEF Up
    <2>2. CASE ~(a + Unit < AddrMod)
      <3>1. a + Unit \in AddrMod..(2 * AddrMod - 1)
        BY <1>2, <2>2
      <3>2. (a + Unit) % AddrMod = (a + Unit) - AddrMod
        BY <1>2, <3>1, ModOnce
      <3> QED
        BY <1>2, <2>2, <3>2 DEF Up
    <2> QED
      BY <2>1, <2>2
  <1>5. Back(Up(a), n + 1) = (Up(a) + AddrMod - (d + Unit)) % AddrMod
    BY <1>1 DEF Back
  <1>6. Up(a) \in 0..(AddrMod - 1)
    BY AddrFacts DEF Addr
  <1>7. Back(Up(a), n + 1) = IF Up(a) < d + Unit THEN Up(a) + AddrMod - (d + Unit) ELSE Up(a) - (d + Unit)
    <2> DEFINE u == Up(a)
    <2> HIDE DEF u
    <2>0. u \in 0..(AddrMod - 1)
      BY <1>6 DEF u
    <2>1. CASE u < d + Unit
      <3>1. u + AddrMod - (d + Unit) \in 0..(AddrMod - 1)
        BY <1>1, <1>2, <2>0, <2>1
      <3> QED
        BY <1>2, <1>5, <2>1, <3>1, ModSmall DEF u
    <2>2. CASE ~(u < d + Unit)
      <3>1. u + AddrMod - (d + Unit) \in AddrMod..(2 * AddrMod - 1)
        BY <1>1, <1>2, <2>0, <2>2
      <3> QED
        BY <1>1, <1>2, <1>5, <1>6, <2>2, <3>1, ModOnce DEF u
    <2> QED
      BY <2>1, <2>2 DEF u
  <1> QED
    BY <1>1, <1>2, <1>3, <1>4, <1>6, <1>7

LEMMA BackNone == \A a \in Addr : Back(a, 0) = a
  <1> SUFFICES ASSUME NEW a \in Addr PROVE Back(a, 0) = a
    OBVIOUS
  <1>1. AddrMod \in Nat \ {0} /\ a + AddrMod \in AddrMod..(2 * AddrMod - 1) /\ 0 * Unit = 0
    BY DEF Addr
  <1>2. (a + AddrMod) % AddrMod = (a + AddrMod) - AddrMod
    BY <1>1, ModOnce
  <1>3. Back(a, 0) = (a + AddrMod) % AddrMod
    BY <1>1 DEF Back
  <1> QED
    BY <1>1, <1>2, <1>3 DEF Addr

\* Stack::push starts a new exception or puts its word on top.
Stored(w) == Up(scp) \in Mapped /\ scp' = Up(scp) /\ mem' = [mem EXCEPT ![Up(scp)] = w]

LEMMA PushOutcome ==
  ASSUME NEW w, NEW to, NEW n, Push(w, to, n)
  PROVE  (pc' = "raise" /\ codes' = 0) \/ (pc' = to /\ codes' = n /\ Stored(w))
  BY DEF Push, Raise, Stored

\* A word below SCP is where it was, one further down.
LEMMA StoredKeeps ==
  ASSUME TypeOK, NEW w, Stored(w), NEW n \in 0..2, Back(scp, n) \in Mapped
  PROVE  /\ Back(scp, n + 1)' \in Mapped
         /\ mem'[Back(scp, n + 1)'] = mem[Back(scp, n)]
         /\ scp' \in Mapped /\ mem'[scp'] = w
  <1>1. Back(scp', n + 1) = Back(scp, n) /\ Back(scp, n) # Up(scp)
    BY BackUp DEF Stored, TypeOK
  <1>2. Back(scp, n + 1)' = Back(scp', n + 1)
    BY DEF Back
  <1>3. mem'[Back(scp, n)] = mem[Back(scp, n)]
    BY <1>1 DEF Stored, TypeOK
  <1> QED
    BY <1>1, <1>2, <1>3 DEF Stored, TypeOK

LEMMA StoredOnTop ==
  ASSUME TypeOK, NEW w, Stored(w)
  PROVE  scp' \in Mapped /\ mem'[scp'] = w
  BY DEF Stored, TypeOK

LEMMA StackedKeeps ==
  ASSUME TypeOK, NEW w, Stored(w), NEW k \in {0, 1}, Stacked(k), codes' = codes
  PROVE  Stacked(k + 1)'
  <1> SUFFICES ASSUME NEW n \in 0..(codes - 1)
               PROVE  Back(scp', n + k + 1) \in Mapped /\ mem'[Back(scp', n + k + 1)] = "code"
    BY DEF Stacked, Back
  <1>1. n + k \in 0..2
    BY DEF TypeOK
  <1>2. Back(scp, n + k) \in Mapped /\ mem[Back(scp, n + k)] = "code"
    BY DEF Stacked
  <1>3. Back(scp, n + k + 1)' = Back(scp', n + k + 1)
    BY DEF Back
  <1> QED
    BY <1>1, <1>2, <1>3, StoredKeeps

\* An error code joins those below it.
LEMMA StackedGrows ==
  ASSUME TypeOK, Stored("code"), Stacked(0), codes' = codes + 1
  PROVE  Stacked(0)'
  <1> SUFFICES ASSUME NEW n \in 0..codes
               PROVE  Back(scp', n) \in Mapped /\ mem'[Back(scp', n)] = "code"
    BY DEF Stacked, Back, TypeOK
  <1>0. scp' \in Addr
    BY AddrFacts DEF Stored, TypeOK
  <1>1. CASE n = 0
    BY <1>0, <1>1, BackNone, StoredOnTop
  <1>2. CASE n > 0
    <2>1. n - 1 \in 0..(codes - 1) /\ n - 1 \in 0..2 /\ (n - 1) + 0 = n - 1 /\ (n - 1) + 1 = n
      BY <1>2 DEF TypeOK
    <2>2. Back(scp, n - 1) \in Mapped /\ mem[Back(scp, n - 1)] = "code"
      BY <2>1 DEF Stacked
    <2>3. Back(scp, (n - 1) + 1)' = Back(scp', n)
      BY <2>1 DEF Back
    <2> QED
      BY <2>1, <2>2, <2>3, StoredKeeps
  <1> QED
    BY <1>1, <1>2 DEF TypeOK

LEMMA NoneStacked == codes' = 0 /\ pc' \in {"raise", "vector"} => Laid'
  BY DEF Laid, Stacked

LEMMA DeliveryLaid == TypeOK /\ Laid /\ Delivery => Laid'
  <1> SUFFICES ASSUME TypeOK, Laid, Delivery PROVE Laid'
    OBVIOUS
  <1>0. Codes(exc) \in 0..2 /\ codes \in 0..2 /\ scp \in Addr
    BY CodesType DEF TypeOK
  <1>1. ASSUME NEW v, HandleFailure(v) PROVE Laid'
    BY <1>1, NoneStacked DEF HandleFailure, Raise, Laid
  <1>6. ASSUME NEW e, Raise(e) PROVE Laid'
    BY <1>6, NoneStacked DEF Raise
  <1>2. CASE RaiseException
    <2>0. Stacked(0)
      BY <1>2 DEF RaiseException, Laid
    <2>1. CASE Tests /\ (StackRaises \/ ~StackUsable)
      BY <1>1, <1>2, <1>6, <2>1 DEF RaiseException
    <2>2. CASE codes < Codes(exc) /\ ~(Tests /\ (StackRaises \/ ~StackUsable))
      <3>1. Push("code", "raise", codes + 1)
        BY <1>2, <2>2 DEF RaiseException
      <3>2. CASE pc' = "raise" /\ codes' = 0
        BY <3>2, NoneStacked
      <3>3. CASE pc' = "raise" /\ codes' = codes + 1 /\ Stored("code")
        BY <2>0, <3>3, StackedGrows DEF Laid
      <3> QED
        BY <3>1, <3>2, <3>3, PushOutcome
    <2>3. CASE ~(codes < Codes(exc))
      BY <1>2, <2>0, <2>3 DEF RaiseException, Laid, Stacked, Back, Tests
    <2> QED
      BY <2>1, <2>2, <2>3 DEF Tests
  <1>3. CASE LoadDescriptor
    <2>1. CASE idt[exc] = "present"
      BY <1>3, <2>1 DEF LoadDescriptor, Laid, Stacked, Back
    <2>2. CASE idt[exc] # "present"
      BY <1>1, <1>3, <1>6, <2>2 DEF LoadDescriptor
    <2> QED
      BY <2>1, <2>2
  <1>4. CASE PushIP
    <2>0. Stacked(0) /\ retIP' = retIP
      BY <1>4 DEF PushIP, Laid
    <2>1. CASE WillOverflowOnPush
      BY <1>1, <1>4, <2>1 DEF PushIP
    <2>2. CASE ~WillOverflowOnPush
      <3>1. Push(retIP, "pushSTS", codes)
        BY <1>4, <2>2 DEF PushIP
      <3>2. CASE pc' = "raise" /\ codes' = 0
        BY <3>2, NoneStacked
      <3>3. CASE pc' = "pushSTS" /\ codes' = codes /\ Stored(retIP)
        <4>1. Stacked(0 + 1)'
          BY <2>0, <3>3, StackedKeeps
        <4>2. scp' \in Mapped /\ mem'[scp'] = retIP
          BY <3>3, StoredOnTop
        <4> QED
          BY <2>0, <3>3, <4>1, <4>2 DEF Laid
      <3> QED
        BY <3>1, <3>2, <3>3, PushOutcome
    <2> QED
      BY <2>1, <2>2
  <1>5. CASE PushStatus
    <2>0. Stacked(1) /\ scp \in Mapped /\ mem[scp] = retIP /\ retIP' = retIP
      BY <1>5 DEF PushStatus, Laid
    <2>1. CASE WillOverflowOnPush
      BY <1>1, <1>5, <2>1 DEF PushStatus
    <2>2. CASE ~WillOverflowOnPush
      <3>1. Push("status", "jump", codes)
        BY <1>5, <2>2 DEF PushStatus
      <3>2. CASE pc' = "raise" /\ codes' = 0
        BY <3>2, NoneStacked
      <3>3. CASE pc' = "jump" /\ codes' = codes /\ Stored("status")
        <4>1. Stacked(1 + 1)'
          BY <2>0, <3>3, StackedKeeps
        <4>2. Back(scp, 0) = scp
          BY <1>0, BackNone
        <4>3. /\ Back(scp, 0 + 1)' \in Mapped /\ mem'[Back(scp, 0 + 1)'] = retIP
              /\ scp' \in Mapped /\ mem'[scp'] = "status"
          BY <2>0, <3>3, <4>2, StoredKeeps
        <4> QED
          BY <2>0, <3>3, <4>1, <4>3 DEF Laid
      <3> QED
        BY <3>1, <3>2, <3>3, PushOutcome
    <2> QED
      BY <2>1, <2>2
  <1>7. CASE JumpToHandler
    BY <1>7 DEF JumpToHandler, Laid
  <1> QED
    BY <1>2, <1>3, <1>4, <1>5, <1>7 DEF Delivery

\* When the handler is entered the frame on the stack is whole and is that of
\* the exception being delivered, whatever failed on the way.
THEOREM FrameCorrect == Spec => []FrameWhole
  <1>1. Init => TypeOK /\ Laid
    BY InitType DEF Init, Laid
  <1>2. ASSUME TypeOK /\ Laid, [Next]_vars PROVE (TypeOK /\ Laid)'
    <2>0. TypeOK'
      BY <1>2, NextType
    <2>1. CASE UNCHANGED vars
      BY <1>2, <2>0, <2>1 DEF vars, call, Laid, Stacked, Back
    <2>2. CASE Delivery
      BY <1>2, <2>0, <2>2, DeliveryLaid
    <2>3. CASE Instruction \/ IretJump \/ \E v \in Numbers : RaiseInterruptExternal(v)
      <3>1. CASE Started
        BY <2>0, <3>1, NoneStacked DEF Started, Begin
      <3>2. CASE pc' \in {"run", "iret", "halted"}
        BY <2>0, <3>2 DEF Laid
      <3> QED
        BY <2>3, <3>1, <3>2, InstructionStarts
    <2> QED
      BY <1>2, <2>1, <2>2, <2>3 DEF Next
  <1>3. TypeOK /\ Laid => FrameWhole
    <2> SUFFICES ASSUME TypeOK, Laid, pc = "jump" PROVE FrameWhole
      BY DEF FrameWhole
    <2>1. Down(scp) = Back(scp, 1)
      <3>1. 1 * Unit = Unit
        OBVIOUS
      <3> QED
        BY <3>1 DEF Down, Back
    <2>2. ASSUME NEW n \in 1..codes
          PROVE  mem[(scp + AddrMod - (n + 1) * Unit) % AddrMod] = "code"
      <3>1. n - 1 \in 0..(codes - 1) /\ (n - 1) + 2 = n + 1
        BY DEF TypeOK
      <3>2. mem[Back(scp, n + 1)] = "code"
        BY <3>1 DEF Laid, Stacked
      <3> QED
        BY <3>2 DEF Back
    <2> QED
      BY <2>1, <2>2 DEF FrameWhole, Laid
  <1> QED
    BY <1>1, <1>2, <1>3, PTL DEF Spec

=============================================================================
