---------------------------- MODULE DecodeCache ----------------------------
(***************************************************************************)
(* How ExecutionLoop finds the instruction at IP: the decoded instructions *)
(* it keeps in g_InstructionDataCache, and the line of InstructionCache    *)
(* from which it decodes the others                                        *)
(* (src/Emulator/src/Instruction/Instruction.cpp:149-178, 300-350,         *)
(*  430-481, 594-686, 806-825,                                             *)
(*  src/Emulator/src/Instruction/InstructionCache.cpp:32-186,              *)
(*  src/Emulator/src/Emulator.cpp:168-183, 438-480, 514-537).              *)
(*                                                                         *)
(* A byte is named by its physical address; an instruction, by that of its *)
(* opcode, and its other bytes follow.  What instructions compute is left  *)
(* out: one goes on with the next, branches, changes the mode with the IP, *)
(* leaves for a handler, or writes CR0.  The hand-over to a new execution  *)
(* thread is one action (module EventLoop has its steps), and memory does  *)
(* not change.                                                             *)
(*                                                                         *)
(* A definition marked "Mutant" is a faulty variant of the one after it.   *)
(***************************************************************************)
EXTENDS Integers, FiniteSetsExt

CONSTANTS
    Line,    \* INSTRUCTION_CACHE_SIZE
    Slots,   \* the length of g_InstructionDataCache
    MMU,     \* the physical MMU and a virtual one
    Physical,\* the first of them
    Reset,   \* where execution starts
    Last,    \* the last address, of a byte or in a program
    Mapped,  \* the physical addresses that can be read
    Through, \* Through[m][a]: what m translates the address a to
    Size,    \* Size[b]: the size of the instruction with opcode b
    Mode,    \* Mode[b]: the MMU it selects if it writes CR0, else "same"
    Target,  \* where a jump may go
    Handler  \* the handler of exceptions and device interrupts

Byte == 0..Last

ASSUME DecodeAssumption ==
    /\ Line \in Nat \ {0} /\ Slots \in Nat \ {0, 1}
    /\ Last \in Nat /\ Mapped \subseteq Byte
    /\ Physical \in MMU /\ Through \in [MMU -> [0..Last -> Nat]]
    /\ \A a \in 0..Last : Through[Physical][a] = a
    /\ Size \in [Byte -> 1..Line]
    /\ Mode \in [Byte -> MMU \cup {"same"}] /\ "same" \notin MMU
    /\ Target \subseteq Nat /\ Handler \in Nat
    /\ Reset \in Nat /\ \A k \in 0..(Line - 1) : Reset + k \in Mapped

VARIABLES
    pc,       \* where ExecutionLoop is
    ip,       \* the register IP
    next,     \* g_NextIP, or the target of the jump under way
    inHand,   \* the opcode of the instruction in hand
    slot,     \* g_InstructionDataCache
    cur,      \* g_currentCacheOffset
    missed,   \* g_cacheJustMissed
    mmu,      \* g_CurrentMMU, and m_mmu of the line
    base,     \* m_base_address
    offset,   \* m_cacheOffset
    data,     \* m_cache
    torn,     \* history: the last fill of the line ended in an exception
    doubt     \* history: "loose" after a miss whose instruction changed IP
              \* but not the line, "strayed" once one was decoded from there,
              \* "stale" once a torn line was used or the MMU changed

line      == <<base, offset, data>>
cache     == <<slot, cur, missed>>
hist      == <<torn, doubt>>
fetchVars == <<pc, ip, next, inHand, cache, mmu, line, hist>>

Index == 0..(Slots - 1)
Cell  == 0..(Line - 1)

-----------------------------------------------------------------------------
(* InstructionCache.                                                       *)

Where(m, a) == IF a \in 0..Last THEN Through[m][a] ELSE a

\* ReadBuffer raises no exception.  That of VirtualMMU translates the address
\* of the first byte only.
Readable(m, a) == \A k \in Cell : Where(m, a) + k \in Mapped

\* The line after ReadBuffer: up to the first byte that is not mapped.
Filled(m, a) ==
    [k \in Cell |-> IF \A j \in 0..k : Where(m, a) + j \in Mapped
                    THEN Where(m, a) + k ELSE data[k]]

\* CacheMiss, with the line from a on read through m.
CacheMiss(m, a) ==
    /\ base' = a
    /\ offset' = 0
    /\ data' = Filled(m, a)
    /\ torn' = ~Readable(m, a)

\* History: line and IP are together again.
Together == IF doubt = "loose" THEN "none" ELSE doubt

\* MaybeSetBaseAddress: the line stays if it holds a.
MaybeSetBaseAddress(a) ==
    IF a \in base..(base + Line - 1)
    THEN /\ offset' = a - base
         /\ doubt' = IF torn THEN "stale" ELSE Together
         /\ UNCHANGED <<base, data, torn>>
    ELSE CacheMiss(mmu, a) /\ doubt' = Together

Succeeds(a) == a \in base..(base + Line - 1) \/ Readable(mmu, a)

-----------------------------------------------------------------------------
(* ExecutionLoop.                                                          *)

Empty == [used |-> FALSE, ip |-> 0, from |-> 0]

Holds(i, a) == slot[i].used /\ slot[i].ip = a

\* Mutant: the slots after the current one are not compared.
ComparedBefore == {cur} \cup (1..(cur - 1))

\* FindIPInInsCache: the slots it compares.  Slot 0 is one of them only when
\* it is the current one.
Compared == {cur} \cup (Index \ {0})
Hits(a)  == {i \in Compared : Holds(i, a)}

\* The order it compares them in: the current one, down to 1, from the last
\* one down.
Found(a) ==
    IF cur \in Hits(a) THEN cur
    ELSE IF \E i \in Hits(a) : i < cur
         THEN Max({i \in Hits(a) : i < cur}) ELSE Max(Hits(a))

\* Mutant: no wrap around when every slot is used.
VictimPastEnd ==
    LET unused == {i \in Index : ~slot[i].used}
    IN  IF cur \in unused THEN cur
        ELSE IF unused # {} THEN Min(unused) ELSE cur + 1

\* The slot for a new instruction.
Victim ==
    LET unused == {i \in Index : ~slot[i].used}
        later  == {i \in unused : i > cur}
    IN  IF cur \in unused THEN cur
        ELSE IF later # {} THEN Min(later)
        ELSE IF unused # {} THEN Min(unused)
        ELSE (cur + 1) % Slots

FetchInit ==
    /\ pc = "head" /\ ip = Reset /\ next = 0
    /\ mmu = Physical /\ inHand = Reset
    /\ slot = [i \in Index |-> Empty] /\ cur = 0 /\ missed = TRUE
    /\ base = Reset /\ offset = 0 /\ data = [k \in Cell |-> Reset + k]
    /\ torn = FALSE /\ doubt = "none"

\* RaiseException: ReadStream and DecodeInstruction do not return.
Raise == pc' = "jump" /\ next' = Handler

\* The instruction in slot i is executed; the next slot becomes current.
Take(i, opcode) ==
    /\ pc' = "execute"
    /\ next' = ip + Size[opcode]
    /\ cur' = (i + 1) % Slots

\* Mutant: the line is taken to follow IP after a hit as well.
HitStillMissed ==
    /\ pc = "head" /\ Hits(ip) # {}
    /\ inHand' = slot[Found(ip)].from
    /\ Take(Found(ip), inHand')
    /\ doubt' = Together
    /\ UNCHANGED <<ip, mmu, slot, missed, line, torn>>

Hit ==
    /\ pc = "head" /\ Hits(ip) # {}
    /\ inHand' = slot[Found(ip)].from
    /\ Take(Found(ip), inHand')
    /\ missed' = FALSE
    /\ doubt' = Together
    /\ UNCHANGED <<ip, mmu, slot, line, torn>>

Miss ==
    /\ pc = "head" /\ Hits(ip) = {}
    /\ cur' = Victim
    /\ slot' = [slot EXCEPT ![Victim] = Empty]
    /\ pc' = IF missed THEN "opcode" ELSE "seek"
    /\ doubt' = IF doubt = "loose" THEN "strayed" ELSE doubt
    /\ UNCHANGED <<ip, next, inHand, missed, mmu, line, torn>>

\* The line is moved to IP after an instruction that was not decoded.
Seek ==
    /\ pc = "seek"
    /\ MaybeSetBaseAddress(ip)
    /\ IF Succeeds(ip)
       THEN missed' = TRUE /\ pc' = "opcode" /\ UNCHANGED next
       ELSE Raise /\ UNCHANGED missed
    /\ UNCHANGED <<ip, inHand, slot, cur, mmu>>

\* ReadStream8 at the end of the line.
NextLine ==
    /\ pc = "opcode" /\ offset = Line
    /\ CacheMiss(mmu, base + Line)
    /\ IF Readable(mmu, base + Line) THEN UNCHANGED <<pc, next>> ELSE Raise
    /\ UNCHANGED <<ip, inHand, cache, mmu, doubt>>

ReadOpcode ==
    /\ pc = "opcode" /\ offset < Line
    /\ inHand' = data[offset]
    /\ offset' = offset + 1
    /\ pc' = "operands"
    /\ UNCHANGED <<ip, next, cache, mmu, base, data, hist>>

\* The instruction is complete.
Decoded ==
    /\ slot' = [slot EXCEPT ![cur] = [used |-> TRUE, ip |-> ip, from |-> inHand]]
    /\ Take(cur, inHand)

\* The operands, within the line; or reading one of up to 8 bytes moves the
\* line to some byte n of it first.
ReadOperands ==
    /\ pc = "operands"
    /\ LET end == offset + Size[inHand] - 1
       IN  IF end <= Line
           THEN /\ offset' = end
                /\ Decoded
                /\ UNCHANGED <<base, data, torn>>
           ELSE \E n \in offset..Line :
                  /\ base' = base + n
                  /\ data' = Filled(mmu, base + n)
                  /\ torn' = ~Readable(mmu, base + n)
                  /\ IF Readable(mmu, base + n)
                     THEN offset' = end - n /\ Decoded
                     ELSE offset' = 0 /\ Raise /\ UNCHANGED <<slot, cur>>
    /\ UNCHANGED <<ip, inHand, missed, mmu, doubt>>

\* DecodeInstruction refuses the opcode or an operand.
Invalid ==
    /\ pc = "operands"
    /\ Raise
    /\ UNCHANGED <<ip, inHand, cache, mmu, line, hist>>

Writes(m) == Mode[inHand] = m

\* The instruction is over.
Advance ==
    /\ pc = "execute" /\ (Writes("same") \/ Writes(mmu))
    /\ ip' = next
    /\ pc' = "head"
    /\ UNCHANGED <<next, inHand, cache, mmu, line, hist>>

\* It raises an exception or an interrupt, or returns from one: JumpToIP.
Jump ==
    /\ pc = "execute"
    /\ \E a \in Target \cup {Handler} : next' = a /\ (a = Handler \/ Writes("same"))
    /\ pc' = "jump"
    /\ UNCHANGED <<ip, inHand, cache, mmu, line, hist>>

\* SwitchToIP, on the emulator thread.  If the line cannot be filled, that
\* thread stops in RaiseEvent (module EventLoop).
SwitchToIP ==
    /\ pc = "jump"
    /\ ip' = next
    /\ MaybeSetBaseAddress(next)
    /\ pc' = IF Succeeds(next) THEN "head" ELSE "stuck"
    /\ UNCHANGED <<next, inHand, cache, mmu>>

\* jmp, a conditional jump that is taken, call or ret: the execution thread
\* moves the line, and a fault there is an exception like any other.
Branch ==
    /\ pc = "execute" /\ Writes("same")
    /\ \E a \in Target :
         /\ MaybeSetBaseAddress(a)
         /\ IF Succeeds(a)
            THEN ip' = a /\ next' = a /\ pc' = "head"
            ELSE Raise /\ UNCHANGED ip
    /\ UNCHANGED <<inHand, cache, mmu>>

\* syscall, sysret or enteruser: ExitUserMode and EnterUserMode set IP and
\* nothing else.
ChangeMode ==
    /\ pc = "execute" /\ Writes("same")
    /\ \E a \in Target : ip' = a /\ next' = a
    /\ pc' = "head"
    /\ doubt' = IF doubt = "none" /\ missed THEN "loose" ELSE doubt
    /\ UNCHANGED <<inHand, cache, mmu, line, torn>>

\* JumpToIPExternal: a device interrupt stops the loop at its head.
Interrupt ==
    /\ pc = "head"
    /\ ip' = Handler
    /\ MaybeSetBaseAddress(Handler)
    /\ pc' = IF Succeeds(Handler) THEN "head" ELSE "stuck"
    /\ UNCHANGED <<next, inHand, cache, mmu>>

\* SyncRegisters after a write to CR0 that switches paging, and NewMMU.  IP
\* cannot be written, so it stays at the instruction that wrote CR0; the line
\* is read again from its base.
NewMMU ==
    /\ pc = "execute"
    /\ \E m \in MMU \ {mmu} :
         /\ Writes(m)
         /\ mmu' = m
         /\ CacheMiss(m, base)
         /\ pc' = IF Readable(m, base) THEN "head" ELSE "stuck"
    /\ doubt' = "stale"
    /\ UNCHANGED <<ip, next, inHand, cache>>

FetchNext ==
    \/ Hit \/ Miss \/ Seek \/ NextLine \/ ReadOpcode \/ ReadOperands \/ Invalid
    \/ Advance \/ Jump \/ SwitchToIP \/ Branch \/ ChangeMode \/ Interrupt
    \/ NewMMU

FetchSpec == FetchInit /\ [][FetchNext]_fetchVars

-----------------------------------------------------------------------------
(* Properties.                                                             *)

PC == {"head", "seek", "opcode", "operands", "execute", "jump", "stuck"}

FetchTypeOK ==
    /\ pc \in PC /\ ip \in Nat /\ next \in Nat /\ inHand \in Byte
    /\ slot \in [Index -> [used : BOOLEAN, ip : Nat, from : Byte]]
    /\ cur \in Index /\ missed \in BOOLEAN /\ mmu \in MMU
    /\ base \in Nat /\ offset \in 0..Line /\ data \in [Cell -> Byte]
    /\ torn \in BOOLEAN /\ doubt \in {"none", "loose", "strayed", "stale"}

\* What executes is the instruction at IP, whether it was decoded now, from a
\* line that is moved only after a hit, or at any time before: until paging
\* is switched, a line whose fill failed is used as if it had been filled, or
\* an instruction is decoded after a change of mode that was decoded itself.
RightInstruction ==
    pc = "execute" /\ doubt = "none" => inHand = ip

\* No instruction is kept twice, except by the slot FindIPInInsCache does not
\* compare.
KeptOnce ==
    \A i, j \in Index : slot[i].used /\ Holds(j, slot[i].ip) => i = j \/ 0 \in {i, j}

\* Claim of the source that the code does not keep (see README, findings).

\* Instruction.cpp:479 "Set the IP to the next instruction": after a change
\* of mode, too, it is the instruction at IP that executes next.
RightAfterModeChange == pc = "execute" /\ doubt # "stale" => inHand = ip
=============================================================================
