----------------------------- MODULE Interrupts -----------------------------
(***************************************************************************)
(* The processor as the guest sees it at an interrupt, an exception or a   *)
(* change of privilege (src/Emulator/src/Interrupts.cpp, Exceptions.cpp,   *)
(* Stack.cpp, Emulator.cpp:398-537, Instruction/Instruction.cpp:579-824).  *)
(*                                                                         *)
(* One action is one C++ call that can itself raise an exception, so a     *)
(* delivery that fails half way is visible: pc says which call is next.    *)
(* Between instructions pc is "run".                                       *)
(*                                                                         *)
(* Abstracted: a word on the stack is what it was pushed as, an address of *)
(* code, a status, an error code or other data, and a word above SCP is    *)
(* forgotten (data that is read again is anything); the status is one      *)
(* flag; a general register (r14 and r15 of syscall, sysret and a delivery  *)
(* in user mode) may hold anything the guest can have put there; CR2 holds *)
(* Sentry.                                                                 *)
(* The stack is byte addressed with words of Unit bytes (8 in the code).   *)
(***************************************************************************)
EXTENDS Integers, FiniteSets

CONSTANTS
    Device,      \* numbers that are not exceptions
    Numbers,     \* numbers that the program and the devices raise
    Code,        \* addresses of instructions
    After,       \* After[a]: the instruction behind a
    Sentry,      \* the value of CR2
    Handler,     \* Handler[v]: the address in descriptor v
    Unit,        \* bytes of a word
    AddrMod,     \* addresses wrap around here (2^64 in the code)
    Base, Tops,  \* SBP, and what the guest may have set STP to
    Pointers,    \* what the guest loads into SCP
    Mapped,      \* words of physical memory, which Stack accesses
    Validated,   \* words the MMU of the interrupt handler can read under paging
    Unwalkable,  \* words with a page table entry outside physical memory: to
                 \* validate them raises PHYS_MEM_VIOLATION
    Registers,   \* general registers: 16
    Descriptors  \* the tables of descriptors that the guest may load

Exception == {"DIV_BY_ZERO", "PHYS_MEM_VIOLATION", "UNHANDLED_INTERRUPT",
              "INVALID_INSTRUCTION", "STACK_VIOLATION", "USER_MODE_VIOLATION",
              "SUPERVISOR_MODE_VIOLATION", "PAGING_VIOLATION",
              "INTEGER_OVERFLOW"}
Vector == Exception \cup Device
Addr   == 0..(AddrMod - 1)
Status == {"flagged", "plain"}
Word   == Code \cup {"status", "code", "data"}

\* What ReadDescriptor finds: a descriptor with the present bit, none that it
\* can read, or, under paging, one that it cannot even validate (Unwalkable).
Descriptor == {"present", "absent", "beyond"}

ASSUME InterruptsAssumption ==
    /\ Code \cap {"status", "code", "data"} = {}
    /\ After \in [Code -> Code] /\ Sentry \in Code
    /\ Numbers \subseteq Vector /\ Handler \in [Vector -> Code]
    /\ Unit \in Nat \ {0} /\ AddrMod \in Nat /\ 4 * Unit < AddrMod
    /\ Base \in Addr /\ Tops \subseteq Addr /\ Pointers \subseteq Addr
    /\ Mapped \subseteq Addr /\ Validated \subseteq Addr
    /\ Unwalkable \cap Validated = {}
    /\ Registers \in Nat /\ Descriptors \subseteq [Vector -> Descriptor]

VARIABLES
    pc,        \* the call in progress
    ip,        \* IP
    sts,       \* STS
    cr1,       \* CR1, the status of the other privilege level
    scp, stp,  \* SCP, STP
    prot,      \* g_privilegeMode is PROTECTED_MODE
    user,      \* g_isInUserMode
    paging,    \* g_isPagingEnabled
    mem,       \* the words of the stack
    idt,       \* the descriptors that m_IDT holds or will load
    exc,       \* the interrupt or exception being raised
    retIP,     \* the address that is pushed for it
    thread,    \* who delivers: the execution thread, or the emulator thread
    codes,     \* history: error codes pushed for it
    sound      \* history: the guest's stack had room, was aligned and mapped
               \* and UNHANDLED_INTERRUPT could be delivered when it began

regs  == <<sts, cr1, stp>>
modes == <<prot, user, paging>>
call  == <<exc, retIP, thread, codes, sound>>
vars  == <<pc, ip, regs, scp, modes, mem, idt, call>>

InUser == prot /\ user

\* No delivery is under way; its variables mean nothing.
Forgotten ==
    exc' = "DIV_BY_ZERO" /\ retIP' = Sentry /\ thread' = "execution" /\ codes' = 0 /\ sound' = FALSE

NoDescriptors == [v \in Vector |-> "absent"]

\* The tables a guest loads.  Without paging, to validate never raises.
Tables(paged) ==
    {t \in Descriptors \cup {NoDescriptors} : paged \/ \A v \in Vector : t[v] # "beyond"}

Init ==
    /\ pc = "run" /\ ip \in Code
    /\ sts = "plain" /\ cr1 = "plain" /\ scp = Base /\ stp \in Tops
    /\ prot = FALSE /\ user = FALSE /\ paging = FALSE
    /\ mem = [a \in Mapped |-> "data"]
    /\ idt = NoDescriptors
    /\ exc = "DIV_BY_ZERO" /\ retIP = Sentry /\ thread = "execution"
    /\ codes = 0 /\ sound = FALSE

-----------------------------------------------------------------------------
(* Stack.                                                                  *)

\* SCP moves to a.
Lower(a) == scp' = a /\ mem' = [b \in Mapped |-> IF b > a THEN "data" ELSE mem[b]]
Up(a)   == (a + Unit) % AddrMod
Down(a) == (a + AddrMod - Unit) % AddrMod

\* The test at the head of push and of pop: they share it.
Violates == scp < Base \/ scp >= stp \/ scp % Unit > 0

WillOverflowOnPush == scp >= stp
WillUnderflowOnPop == scp < Base

\* Enter RaiseException.
Raise(e) ==
    /\ pc' = "raise" /\ exc' = e
    /\ thread' = IF thread = "emulator" THEN "failed" ELSE thread
    /\ codes' = 0

\* Stack::push in the middle of a call, which goes on at "to" with n codes pushed.
Push(w, to, n) ==
    \/ Violates /\ Raise("STACK_VIOLATION") /\ UNCHANGED <<scp, mem>>
    \/ /\ ~Violates
       /\ scp' = Up(scp)
       /\ IF Up(scp) \in Mapped
          THEN mem' = [mem EXCEPT ![Up(scp)] = w] /\ pc' = to /\ codes' = n /\ UNCHANGED <<exc, thread>>
          ELSE mem' = mem /\ Raise("PHYS_MEM_VIOLATION")

-----------------------------------------------------------------------------
(* Exceptions and interrupts.                                              *)

\* Mutant: a missing handler of UNHANDLED_INTERRUPT is an unhandled interrupt too.
HandleFailureAgain(v) == Raise("UNHANDLED_INTERRUPT")

\* Mutant: an exception without a handler ends the machine at once.
HandleFailureAtOnce(v) ==
    IF v \in Exception
    THEN pc' = "crashed" /\ UNCHANGED <<exc, thread, codes>>
    ELSE Raise("UNHANDLED_INTERRUPT")

\* HandleFailure, and the same decision in RaiseException.
HandleFailure(v) ==
    IF v = "UNHANDLED_INTERRUPT"
    THEN pc' = "crashed" /\ UNCHANGED <<exc, thread, codes>>
    ELSE Raise("UNHANDLED_INTERRUPT")

\* How many error codes RaiseException pushes.
Codes(e) ==
    IF e = "PAGING_VIOLATION" THEN 2
    ELSE IF e \in {"PHYS_MEM_VIOLATION", "UNHANDLED_INTERRUPT", "STACK_VIOLATION"} THEN 1 ELSE 0

\* The test of RaiseException: the guest's stack can take an error code.  Its
\* last part, ValidateRead, comes to run only behind the others, and may itself
\* raise: TranslateAddress tells a page table it cannot read to nobody else.
StackInBounds == ~WillOverflowOnPush /\ ~WillUnderflowOnPop /\ scp % Unit = 0
StackRaises   == StackInBounds /\ paging /\ Up(scp) \in Unwalkable
StackUsable   == StackInBounds /\ Up(scp) \in IF paging THEN Validated ELSE Mapped

\* The test is about to be made.
Tests == pc = "raise" /\ codes = 0 /\ codes < Codes(exc)

\* ExceptionHandler::RaiseException.  If StackRaises holds of PHYS_MEM_VIOLATION
\* itself, the call repeats itself, deeper in the host's stack each time.
RaiseException ==
    /\ pc = "raise"
    /\ IF Tests /\ StackRaises THEN Raise("PHYS_MEM_VIOLATION") /\ UNCHANGED <<scp, mem>>
       ELSE IF Tests /\ ~StackUsable THEN HandleFailure(exc) /\ UNCHANGED <<scp, mem>>
       ELSE IF codes < Codes(exc) THEN Push("code", "raise", codes + 1)
       ELSE pc' = "vector" /\ UNCHANGED <<scp, mem, exc, thread, codes>>
    /\ retIP' = ip
    /\ UNCHANGED <<ip, regs, modes, idt, sound>>

\* Mutant: the user's status is lost.
ExitUserModeLosing ==
    /\ user' = FALSE
    /\ sts' = cr1 /\ cr1' = cr1
    /\ stp' = stp

\* Emulator::ExitUserMode.
ExitUserMode ==
    /\ user' = FALSE
    /\ sts' = cr1 /\ cr1' = sts
    /\ stp' = stp

\* RaiseInterruptCommon up to the first push.
LoadDescriptor ==
    /\ pc = "vector"
    /\ \/ /\ idt[exc] = "present" /\ pc' = "pushIP"
          /\ IF InUser THEN ExitUserMode ELSE UNCHANGED <<user, regs>>
          /\ UNCHANGED <<exc, thread, codes>>
       \/ idt[exc] = "absent" /\ HandleFailure(exc) /\ UNCHANGED <<user, regs>>
       \/ idt[exc] = "beyond" /\ Raise("PHYS_MEM_VIOLATION") /\ UNCHANGED <<user, regs>>
    /\ UNCHANGED <<ip, scp, prot, paging, mem, idt, retIP, sound>>

\* Mutant: the frame is built upside down.
PushStatusFirst ==
    /\ pc = "pushIP"
    /\ IF WillOverflowOnPush THEN HandleFailure(exc) /\ UNCHANGED <<scp, mem>>
       ELSE Push("status", "pushSTS", codes)
    /\ UNCHANGED <<ip, regs, modes, idt, retIP, sound>>

PushIP ==
    /\ pc = "pushIP"
    /\ IF WillOverflowOnPush THEN HandleFailure(exc) /\ UNCHANGED <<scp, mem>>
       ELSE Push(retIP, "pushSTS", codes)
    /\ UNCHANGED <<ip, regs, modes, idt, retIP, sound>>

PushStatus ==
    /\ pc = "pushSTS"
    /\ IF WillOverflowOnPush THEN HandleFailure(exc) /\ UNCHANGED <<scp, mem>>
       ELSE Push("status", "jump", codes)
    /\ UNCHANGED <<ip, regs, modes, idt, retIP, sound>>

\* JumpToIP, or JumpToIPExternal on the emulator thread.  An exception raised
\* while the emulator thread delivers ends in JumpToIP there, which spins on
\* the lock of g_events that this thread holds (module EventLoop).
JumpToHandler ==
    /\ pc = "jump"
    /\ IF thread = "failed" THEN pc' = "stuck" /\ ip' = ip
       ELSE pc' = "run" /\ ip' = Handler[exc]
    /\ Forgotten
    /\ UNCHANGED <<regs, scp, modes, mem, idt>>

Delivery == RaiseException \/ LoadDescriptor \/ PushIP \/ PushStatus \/ JumpToHandler

-----------------------------------------------------------------------------
(* How an instruction ends.                                                *)

\* The words above SCP = at that the codes of v, the codes of a
\* PHYS_MEM_VIOLATION and an UNHANDLED_INTERRUPT behind it, and a frame take.
Words(v) == Codes(v) + 4

\* History: what the guest is entitled to when a delivery begins.
Sound(v, at) ==
    /\ at % Unit = 0 /\ Base <= at /\ at + Words(v) * Unit <= stp
    /\ \A n \in 1..Words(v) :
          at + n * Unit \in IF paging THEN Mapped \cap Validated ELSE Mapped
    /\ idt["UNHANDLED_INTERRUPT"] = "present" /\ idt["PHYS_MEM_VIOLATION"] # "beyond"

Begin(v, from, by, at) ==
    /\ exc' = v /\ retIP' = from /\ thread' = by /\ codes' = 0 /\ sound' = Sound(v, at)

\* An exception in the instruction at ip, with SCP = at by then.
ThrowAt(e, at) ==
    /\ pc' = "raise" /\ Begin(e, ip, "execution", at) /\ ip' = ip
Throw(e) == ThrowAt(e, scp)

\* The instruction is done and goes on at w.
Done(w) == ip' = w /\ pc' = "run" /\ UNCHANGED call

Running == pc = "run"

\* A supervisor instruction in user mode.
Guarded(A) == IF InUser THEN Throw("USER_MODE_VIOLATION") ELSE A

-----------------------------------------------------------------------------
(* Instructions.                                                           *)

\* Anything that changes at most flags, or jumps.
Compute ==
    /\ Running
    /\ \E w \in Code, s \in Status : Done(w) /\ sts' = s
    /\ UNCHANGED <<cr1, stp, scp, modes, mem, idt>>

\* An instruction that divides by zero, is invalid, or touches memory it may not.
Fault(e) ==
    /\ Running
    /\ Throw(e)
    /\ UNCHANGED <<regs, scp, modes, mem, idt>>

\* Pushing n words, the last at scp', as one instruction (push, call, pusha).
Pushes(w, n, target) ==
    LET At(j)    == (scp + j * Unit) % AddrMod
        Lands(j) == Base <= At(j) /\ At(j) < stp /\ At(j) % Unit = 0 /\ At(j + 1) \in Mapped
        done     == Cardinality({k \in 1..n : \A j \in 0..(k - 1) : Lands(j)})
        at       == At(done)
        strange  == at < Base \/ at >= stp \/ at % Unit > 0
    IN  /\ mem' = [a \in Mapped |-> IF \E k \in 1..done : a = At(k) THEN w ELSE mem[a]]
        /\ IF done = n THEN scp' = at /\ Done(target)
           ELSE IF strange THEN scp' = at /\ ThrowAt("STACK_VIOLATION", at)
           ELSE scp' = Up(at) /\ ThrowAt("PHYS_MEM_VIOLATION", Up(at))

PushData ==
    /\ Running
    /\ Pushes("data", 1, After[ip])
    /\ UNCHANGED <<regs, modes, idt>>

PushAll ==
    /\ Running
    /\ Pushes("data", Registers, After[ip])
    /\ UNCHANGED <<regs, modes, idt>>

Call ==
    /\ Running
    /\ \E target \in Code : Pushes(After[ip], 1, target)
    /\ UNCHANGED <<regs, modes, idt>>

\* Stack::pop: what it throws, if anything.
PopThrows ==
    IF Violates THEN {"STACK_VIOLATION"}
    ELSE IF scp \notin Mapped THEN {"PHYS_MEM_VIOLATION"} ELSE {}

\* n pops as one instruction (pop, popa); the registers are not modelled.
Pops(n) ==
    LET At(j)    == (scp - j * Unit) % AddrMod
        Rises(j) == Base <= At(j) /\ At(j) < stp /\ At(j) % Unit = 0 /\ At(j) \in Mapped
        done     == Cardinality({k \in 1..n : \A j \in 0..(k - 1) : Rises(j)})
        at       == At(done)
    IN  /\ Lower(at)
        /\ IF done = n THEN Done(After[ip])
           ELSE IF at < Base \/ at >= stp \/ at % Unit > 0 THEN ThrowAt("STACK_VIOLATION", at)
           ELSE ThrowAt("PHYS_MEM_VIOLATION", at)

PopRegister ==
    /\ Running
    /\ Pops(1)
    /\ UNCHANGED <<regs, modes, idt>>

PopAll ==
    /\ Running
    /\ Pops(Registers)
    /\ UNCHANGED <<regs, modes, idt>>

\* HandleHalt: no test of the privilege level.
Halt ==
    /\ Running
    /\ pc' = "halted"
    /\ UNCHANGED <<ip, regs, scp, modes, mem, idt, call>>

Ret ==
    /\ Running
    /\ IF PopThrows # {}
       THEN (\E e \in PopThrows : Throw(e)) /\ UNCHANGED <<scp, mem>>
       ELSE Lower(Down(scp)) /\ \E w \in IF mem[scp] \in Code THEN {mem[scp]} ELSE Code : Done(w)
    /\ UNCHANGED <<regs, modes, idt>>

\* mov to SCP.
LoadPointer ==
    /\ Running
    /\ \E a \in Pointers : Lower(a)
    /\ Done(After[ip])
    /\ UNCHANGED <<regs, modes, idt>>

\* "int" with any number: one of an exception has no error code then.
InsInt(v) ==
    /\ Running
    /\ Guarded(pc' = "vector" /\ Begin(v, After[ip], "execution", scp) /\ ip' = ip)
    /\ UNCHANGED <<regs, scp, modes, mem, idt>>

\* InterruptHandler::SetIDTR: a new table, from which ReadDescriptor loads each
\* descriptor at its first use and then keeps it.  A table that cannot be read
\* has no descriptors.
LoadIDT ==
    /\ Running
    /\ IF InUser THEN Throw("USER_MODE_VIOLATION") /\ idt' = idt
       ELSE idt' \in Tables(paging) /\ Done(After[ip])
    /\ UNCHANGED <<regs, scp, modes, mem>>

\* The first half of ReturnFromInterrupt: SetCPUStatus adds the flags.
Iret ==
    /\ Running
    /\ IF InUser THEN Throw("USER_MODE_VIOLATION") /\ UNCHANGED <<sts, scp, mem>>
       ELSE IF WillUnderflowOnPop THEN Throw("STACK_VIOLATION") /\ UNCHANGED <<sts, scp, mem>>
       ELSE IF PopThrows # {} THEN (\E e \in PopThrows : Throw(e)) /\ UNCHANGED <<sts, scp, mem>>
       ELSE /\ Lower(Down(scp))
            /\ sts' \in IF sts = "flagged" THEN {"flagged"} ELSE Status
            /\ pc' = "iret" /\ ip' = ip /\ UNCHANGED call
    /\ UNCHANGED <<cr1, stp, modes, idt>>

\* The second half: pop the address and JumpToIP; g_NextIP stays.
IretJump ==
    /\ pc = "iret"
    /\ IF WillUnderflowOnPop THEN Throw("STACK_VIOLATION") /\ UNCHANGED <<scp, mem>>
       ELSE IF PopThrows # {} THEN (\E e \in PopThrows : Throw(e)) /\ UNCHANGED <<scp, mem>>
       ELSE /\ Lower(Down(scp)) /\ pc' = "run"
            /\ ip' \in IF mem[scp] \in Code THEN {mem[scp]} ELSE Code
            /\ UNCHANGED call
    /\ UNCHANGED <<regs, modes, idt>>

Syscall ==
    /\ Running
    /\ IF prot /\ ~user THEN Throw("SUPERVISOR_MODE_VIOLATION") /\ UNCHANGED <<user, regs>>
       ELSE /\ user' = FALSE /\ sts' = cr1 /\ cr1' = sts
            /\ stp' = stp /\ Done(Sentry)
    /\ UNCHANGED <<scp, prot, paging, mem, idt>>

\* EnterUserMode().
Sysret ==
    /\ Running
    /\ IF InUser THEN Throw("USER_MODE_VIOLATION") /\ UNCHANGED <<user, sts, cr1, scp, mem>>
       ELSE /\ user' = TRUE /\ sts' = cr1 /\ cr1' = sts /\ (\E a \in Pointers : Lower(a)) /\ \E w \in Code : Done(w)
    /\ UNCHANGED <<stp, prot, paging, idt>>

\* EnterUserMode(address).
EnterUser ==
    /\ Running
    /\ IF InUser THEN Throw("USER_MODE_VIOLATION") /\ UNCHANGED <<user, sts>>
       ELSE user' = TRUE /\ sts' = "plain" /\ \E w \in Code : Done(w)
    /\ UNCHANGED <<cr1, stp, scp, prot, paging, mem, idt>>

\* SafeSyncingRegister::SetValue on CR1.
MoveToCR1 ==
    /\ Running
    /\ IF InUser THEN Throw("USER_MODE_VIOLATION") /\ cr1' = cr1
       ELSE (\E s \in Status : cr1' = s) /\ Done(After[ip])
    /\ UNCHANGED <<sts, stp, scp, modes, mem, idt>>

\* A write to CR0 and SyncRegisters after it.  A change of paging goes to the
\* emulator thread (NewMMU), which drops the loaded descriptors and starts a
\* thread at IP, the write itself: IP is not writable, so SetValue refuses.
\* Pages of 64KiB with five levels are refused with an exception.
MoveToCR0 ==
    /\ Running
    /\ IF InUser THEN Throw("USER_MODE_VIOLATION") /\ UNCHANGED <<modes, idt>>
       ELSE \E pe, pg, refused \in BOOLEAN :
              IF pg = paging
              THEN prot' = pe /\ Done(After[ip]) /\ UNCHANGED <<user, paging, idt>>
              ELSE IF pg /\ refused
              THEN /\ prot' = (prot /\ pe) /\ Throw("INVALID_INSTRUCTION")
                   /\ UNCHANGED <<user, paging, idt>>
              ELSE /\ prot' = pe /\ paging' = pg /\ user' = user
                   /\ idt' \in Tables(pg)
                   /\ pc' = "run" /\ ip' = ip /\ UNCHANGED call
    /\ UNCHANGED <<regs, scp, mem>>

\* RaiseInterruptExternal, with any number but 0 (IOBus.cpp:108): the execution
\* thread has stopped between two instructions (module ExecKill).
RaiseInterruptExternal(v) ==
    /\ Running
    /\ pc' = "vector" /\ Begin(v, ip, "emulator", scp)
    /\ UNCHANGED <<ip, regs, scp, modes, mem, idt>>

Instruction ==
    \/ Compute \/ PushData \/ PushAll \/ Call \/ PopRegister \/ PopAll \/ Halt \/ Ret
    \/ LoadPointer \/ LoadIDT \/ Iret \/ Syscall \/ Sysret \/ EnterUser
    \/ MoveToCR1 \/ MoveToCR0
    \/ \E v \in Numbers : InsInt(v)
    \/ \E e \in {"DIV_BY_ZERO", "PHYS_MEM_VIOLATION", "PAGING_VIOLATION"} : Fault(e)

Next ==
    \/ Instruction \/ IretJump \/ Delivery
    \/ \E v \in Numbers \ {"DIV_BY_ZERO"} : RaiseInterruptExternal(v)

Spec == Init /\ [][Next]_vars

\* The execution thread completes the call it is in.
FairSpec == Spec /\ WF_vars(Delivery \/ IretJump)
-----------------------------------------------------------------------------
(* Properties.                                                             *)

\* Type invariant.
TypeOK ==
    /\ pc \in {"run", "raise", "vector", "pushIP", "pushSTS", "jump", "iret",
               "crashed", "stuck", "halted"}
    /\ {ip, retIP} \subseteq Code
    /\ {sts, cr1} \subseteq Status
    /\ {scp, stp} \subseteq Addr
    /\ {prot, user, paging, sound} \subseteq BOOLEAN
    /\ mem \in [Mapped -> Word]
    /\ idt \in [Vector -> Descriptor] /\ exc \in Vector /\ codes \in 0..2
    /\ thread \in {"execution", "emulator", "failed"}

\* However a delivery fails, half a frame or error codes left behind, a guest
\* whose stack was sound when it began, whose UNHANDLED_INTERRUPT handler is
\* present and whose descriptors can be validated as far as PHYS_MEM_VIOLATION
\* does not crash: a second failure takes a second cause.
CrashNeedsCause == pc = "crashed" => ~sound

\* The frame under a handler is whole and its own: the status on top, the
\* return address below it, and below that the error codes of exactly this
\* exception, whatever failed attempts have left further down.  (The document
\* puts the codes on the other side: CodesOnTop below.)
FrameWhole ==
    pc = "jump" =>
      /\ mem[scp] = "status"
      /\ mem[Down(scp)] = retIP
      /\ \A n \in 1..codes : mem[(scp + AddrMod - (n + 1) * Unit) % AddrMod] = "code"

\* docs/design.md "Interrupts are always handled in kernel mode": user mode
\* ends only in a delivery or at the entry the supervisor chose, with the
\* user's status kept in CR1.
UserLeaves ==
    [][InUser /\ ~InUser' =>
         /\ pc' = "pushIP" \/ (pc' = "run" /\ ip' = Sentry)
         /\ cr1' = sts /\ sts' = cr1]_vars
KernelHandles == pc \in {"pushIP", "pushSTS", "jump"} => ~InUser

\* Every interrupt and exception reaches a handler or ends the machine, the
\* nested calls of RaiseException and RaiseInterrupt come to an end, unless
\* the word that an error code would go to has no page table that can be read.
Delivers == pc \in {"raise", "vector"}
DeliveryEnds == Delivers ~> (pc \in {"run", "crashed", "stuck"} \/ (Tests /\ StackRaises))

-----------------------------------------------------------------------------
(* What documents and comments promise and the code does not keep.         *)

\* Exceptions.cpp:44 "check that the stack can be accessed" before a code is
\* pushed: a stack that cannot be accessed is answered like any other failure.
DeliveryReturns == Delivers ~> pc \in {"run", "crashed", "stuck"}

\* docs/design.md:90 "The error code is pushed to the stack after the other
\* arguments" and :91 "It must be popped off the stack before the iret": a
\* handler finds the codes of its exception on top.
CodesOnTop == pc = "jump" /\ codes > 0 => mem[scp] = "code"

\* docs/design.md:494 "iret returns from an interrupt": with a frame of a
\* handler on top of a stack that held it, iret can pop it.
FrameReturns ==
    (Running /\ ~InUser /\ scp \in Mapped /\ mem[scp] = "status") => PopThrows = {}
=============================================================================
