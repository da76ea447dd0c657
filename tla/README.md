# Frost64: TLA+ models and proofs

Frost64 is a 64-bit machine of its own design with an assembler, a disassembler
and an emulator. Two parts carry the logic that is hard to test. In the emulator
three host threads share run-control words without a lock, the guest rearranges
its own address map and its own page tables, and an exception may fail half way
through its own frame. In the toolchain a source text goes through four stages that
rewrite it in place, point into lists that close up later, and pack operands into
nibbles that another program unpacks. These modules model both, access by access where
threads interleave, call by call where a call may fail, and token by token or
item by item in the toolchain.

Paths without a directory are under `src/Emulator/src`.

## The system

| Component | State it keeps | Operations | Hard part |
|---|---|---|---|
| Run control (`Instruction/Instruction.cpp`) | four atomic words, the breakpoint table, the breakpoint that was hit | pause, allow, allow one, stop, add and remove a breakpoint, the head of `ExecutionLoop` | every pair of accesses interleaves |
| Debugger (`DebugInterface.cpp`) | event queue, `m_eventPending`, `m_handlingEvents` | `MainLoop`, its commands, `RaiseEvent`, SIGINT | waits on words another thread may already have left |
| Emulator thread (`Emulator.cpp`) | `g_events`, `g_eventWait`, `ExecutionThread` | `RaiseEvent`, `WaitForOperation`, `JumpToIP`, `KillCurrentInstruction` | replaces the execution thread, holding a lock the other one spins on |
| Fetch and decode caches (`Instruction/InstructionCache.cpp`) | one line of 256 bytes, 128 decoded instructions | decode, seek, refill, look up | the line must follow IP through every kind of jump |
| Physical address map (`MMU/MMU.cpp`, `MMU/MemoryControlSystem.cpp`) | the list of regions | map RAM, cut out and put back a segment, validate an access | the order of the list decides who serves an address |
| Virtual memory (`MMU/VirtualMMU.cpp`, `SyncRegisters`) | root, page size, levels | page walk, validation, buffer accesses | large pages, accesses across a page |
| Interrupts, exceptions, stack, privilege (`Interrupts.cpp`, `Exceptions.cpp`, `Stack.cpp`) | IDT cache, status, user mode, stack | raise, iret, syscall, sysret, user entry, push, pop, call | a failure while a frame is pushed |
| Storage device (`IO/Devices/Storage`) | status, region list, transfer flags | configure, device info, read, write, transfer | two threads, one status byte, a list in guest memory |
| I/O bus and other devices (`IO`) | registers, interrupt numbers, regions | commands, mode changes | a refused move |
| Operands and registers (`Instruction/Operand.cpp`) | registers and flags | operand access, arithmetic | thirteen forms of operand |
| LibArch | none | encode and decode an instruction | two functions that know each other only by the bytes |
| Assembler (`src/Assembler`) | buffers, reference points, tokens, sections | preprocess, tokenize, parse, assemble | offsets and pointers into data that is being rewritten |
| Disassembler (`src/Disassembler`) | its offset | walk and print | must print what it read |
| LibExec | tables of an ELF file | write, read back | offsets worked out in three passes |
| LibCommon | list, tree, block buffer, bitmap | container operations | m_count, block boundaries |
| Host layer (`OSSpecific`, `Main.cpp`) | none of its own | system calls | out of scope |

How they interact. The execution thread runs `ExecutionLoop`. A jump, an
exception or a change of MMU ends its part: it queues an event in `g_events` and
waits for good, and the emulator thread starts a successor. A storage command is
queued the same way; the emulator thread performs the transfer, and its
interrupt stops and joins the execution thread before the handler starts. The
debugger thread writes the run-control words and is woken by events of the
execution thread and of SIGINT. The devices call the MMU to move their regions.
The assembler's stages follow one another: `PreProcessor` hands one buffer and a
list of reference points to `Lexer`, which hands tokens to `Parser`, which hands
sections of labels of blocks to `Assembler`, which calls `EncodeInstruction` of
LibArch for each instruction and writes a flat file or an ELF file. The emulator
and the disassembler read the bytes back with `DecodeInstruction`.

`PROJECT.json` lists every component with what is modelled of it, and the
hazards of the code at their lines.

## The modules

A definition marked "Mutant", or named after the definition after it with the
mistake it makes, is a faulty variant; no specification uses it. It documents which
mistake a property detects. The modules named `MC...` give the constants their values,
those named `...Proofs` hold the theorems.

### The emulator

**ExecControl** models run control and the debugger. `epc`, `dpc`, `spc` say
where the execution thread, the debugger and the SIGINT handler are; one action
is one access to a shared word. Addresses are opaque and `Succ` is the program.
A section under a lock is one action unless it touches an atomic word.
`executed` and `escaped` are history: instructions since the last command, and
whether one was already past the test of `g_ExecutionAllowed` at that moment.
Both count to 2, which is enough for "at most one". An instruction may raise an event
for the emulator thread (a jump, a change of MMU, a storage command): it then waits
with `g_ExecutionRunning` 1, and nothing is assumed of when, or whether, it is
answered. `Unanswered` says that it is not, and the liveness properties exempt it.

**ExecKill** extends it with `KillCurrentInstruction`: the emulator thread saves
the words, asks for termination, spins, joins, restores and starts a thread at
the handler, interleaved with everything in ExecControl. It holds `g_events`
meanwhile, so it answers no event: an instruction that raises one keeps it spinning.

**EventLoop** models the emulator thread and the threads it creates. `tpc` has
one execution thread per name, `empc` the emulator thread; in the states of
`Holding` it owns `g_events`. The run control words of the debugger are left to
the two modules above. `Faults` lets an interrupt have no handler and a jump
have a target that cannot be read.

**Interrupts** models the processor between two instructions and inside a
delivery: one action is one C++ call that can itself raise an exception, and `pc`
names the call that is next. The stack is byte addressed with words of `Unit`
bytes, and a word is what it was pushed as. A delivery pushes its error codes,
looks up the descriptor, leaves user mode (exchanging STS and CR1), pushes IP and
status and jumps; each push may find the stack full, misaligned or unmapped, and then
the delivery of STACK_VIOLATION, or of what the push raised, begins on what is
left. `int` raises any of `Numbers`, those of exceptions included. The stack is tested
before an error code is pushed (`StackUsable`); where the page table of that word cannot
be read (`Unwalkable`), the test itself raises the exception it is made for, and so on
without end. `codes` and `sound` are history: what was pushed, and whether there was
room for everything when the delivery began.

**DecodeCache** models how the instruction at IP is found: `slot`, `cur`,
`missed` are the decoded instructions, `base`, `offset`, `data` the line. A byte
is named by its physical address, so a byte fetched from the wrong place is a
different value. `Through` is the translation of an MMU; `ReadBuffer` of
VirtualMMU applies it to the first byte only. What an instruction computes is
left out: it goes on, branches, changes the mode, raises an exception or selects an MMU.
A branch moves the line itself (`MaybeSetBaseAddress`) and may fault there; `syscall`,
`sysret` and `enteruser` only set the next IP, and the loop moves the line after a hit
only. `doubt` is history: whether slots or line may be those of another MMU or of a fill
that failed, or an instruction is decoded after a change of mode that was itself decoded.
Memory does not change. `Mapped` does not depend on where an access starts, although a line
that crosses regions may fault in the code when the list is out of order.

**MemoryMap** models the list of regions and the commands that change it. A
region is its bounds and its kind. `slot` is what the I/O bus and the video device
remember: base, region pointer, replaced segment. Address arithmetic is modulo
`AddrMod`. `count` is kept apart from the length of the list because the code
decrements it for a region that was not listed. `blind` is history: a region was
appended to a list whose count said that it is empty (`MMU.cpp:281`).

**VirtualMemory** models `TranslateAddress` with one iteration of its loop as a
step, the Validate functions and the accesses after them, and `SyncRegisters`.
The unit of addresses is one page table entry. The guest's tables are not fixed in
advance: an entry is chosen when it is first read, so one run covers every
table that can be built of `Entry`, and `Rewrite` lets the guest change it. That a
page is returned one iteration late, and through which mask, is kept as in the code.

**Storage** models the storage device on its two threads: the commands on
the execution thread up to `RaiseEvent`, and `StartTransfer` on the emulator thread
with the lock of `g_events` held. Memory and file are arrays of blocks;
`list` holds the request's region list until `ParseList` reads it into `items`.
The guest issues a command when it has seen RDY, which says that the one before is
done (docs/design.md:992), whether or not it asked for an interrupt that has yet to
come; the device does not enforce it. Of its other instructions those matter that raise
an event, because they wait for the emulator thread. LBA + COUNT wraps around at `Wrap`
in the test against the file, as the 64-bit sum does. Both threads read and write the status byte in
steps. `before` and `owed` are history: the contents when the transfer was accepted, and
the interrupt that is to come; `lost` says that one thread has written back a status
the other had changed.

### The toolchain

**PreProcessor** and **Lexer** model the text: a text is a sequence of cells,
`at` is the offset a pass has reached in the text it reads and `out` what it has
written. Includes, comments, the collection of macros, their removal and their
replacement are passes of their own, with the reference points moved as the code
moves them. `Lexer` has one action per branch of `tokenize` and the
classification of `AddToken`. A cell carries the line it was written on, for the
properties only.

**Expressions** is `SimplifyExpression`: the passes over a list of tokens, one per
group of operators, with the sizes of the numbers and what lies in memory behind a
number that is shorter than the result. **Parser** models the two scans of
`parse()`, with the pointers and flags that live from token to token
(`currentData`, `currentOperand`, `inInstruction`, `inOperand`, `inDirective`) and
`CleanUp`, which deletes what stayed empty. A pointer to a block is its position, so
`CleanUp` moves it to where the block is afterwards (`Place`), unless it is deleted. A
directive at the end of the text whose argument never comes leaves an item without data
(`Awaited`); `Program` has no such item, because the assembler reads its null pointer.

**Encoding** is `EncodeInstruction` and `DecodeInstruction` as functions between
instructions and bytes; **Operands** is what an operand means to the emulator, to the
programmer and to the disassembler that prints it; **Buffer** is the block
buffer of LibCommon; **Executable** is LibExec's file. **Assembler** puts
them together: the first pass lays out the sections and leaves room for
addresses, the second fills the room in, then the file is written and read again by
the disassembler.

**Program** is the parsed program that `Assembler` and `Linking` both speak of, with what
may be relied on in it (`GoodProgram`). **Linking** is the abstract specification of the assembler: sections and blocks have
places, and wherever a program names a block the bytes are its address. It does
not say how the places are found. `Assembler` implements it: `ImplementsLinking`
is `Linking!Spec` under a refinement mapping in which nothing is laid out until
the last place is filled in; all steps of both passes before that are stutters.

## The runs

| Run | Specification | What it shows |
|---|---|---|
| exec_control | ExecControl, fair | pause, step and breakpoint promises; no event and no continue forgotten |
| exec_kill | ExecKill, fair, no debugger | an interrupt ends, unless the instruction it stops raises an event, with run control as before and instructions going on |
| event_loop | EventLoop, fair, all events, three threads | one active thread, one successor per hand-over; jumps alone always complete |
| interrupts | Interrupts, fair | a handler starts on its whole frame; the machine crashes only for a cause; user mode is left only through a gate with the user's status kept; no delivery recurses for ever, unless the page table of the word for an error code cannot be read |
| decode_cache | DecodeCache | the instruction executed is the one at IP, until a change of mode that was itself decoded, a torn line or another MMU; none kept twice |
| memory_map | MemoryMap | control registers are served and the newest mapping is in force, until a region is appended to a list whose count has fallen to 0; no deleted region is listed |
| virtual_memory | VirtualMemory | accesses and validations are answered as the tables say |
| storage | Storage, fair | a transfer that does not wrap around moves exactly what its request named; RDY means done and an interrupt answers its own request, until both threads write the status at once; a transfer ends, unless the guest is in another event when its interrupt is delivered |
| source_text | Lexer on PreProcessor | the tokens are those meant, where no literal, string, longer word or macro falls under a finding below; a token has its own line |
| parser | Parser | sections, blocks and operands are those written; names stand for blocks that survive; expressions have their value, if it does not hang on the bytes behind a number |
| assembler | Assembler on Encoding, Operands, Buffer, Executable | implements Linking; decoder, emulator and disassembler read back what was written |
| lost_event | EventLoop, fair, small | a finding, see below |

Bounds, and why they are enough.

- ExecControl, ExecKill: two instructions. The second branches to either, so two
  breakpoints may be consecutive, and one may sit on a loop of one instruction.
  The words are bits and the queue is a set, so the state space is finite.
- EventLoop: three names for threads. A name is reused once its thread is done or
  parked for good, so three bounds only the detached threads that are still
  between the insertion of their event and their park; one is the usual case and
  two already overlap with a successor. `QueueBound` 3 lets storage commands be
  left behind twice by the loop.
- Interrupts: words of two bytes and a stack of five, so that a pointer may be
  misaligned and a frame with two error codes just fits, just does not fit, or meets
  a word that is not mapped, not valid, or without a page table that can be read (the
  last word, `Unwalkable`); two registers for pusha; `int` with the number of an
  exception and with that of a device; three tables: all descriptors, only that of UNHANDLED_INTERRUPT,
  and those of devices beyond physical memory.
- DecodeCache: lines of four bytes, instructions of one to three, three slots:
  instructions cross the end of a line, the slots overflow, a fill fails in the
  middle, a line crosses a page.
- MemoryMap: twelve addresses and pages of two. `MaxRegions` 5 leaves room for the
  two fixed regions, RAM cut in two, and a device. `MaxDrift` 2 is how far
  the count may fall behind the list: with the two fixed regions that is down to 0 with
  a list that is not empty, and a region is appended to it.
- VirtualMemory: two bits per level (ten in the code), pages of two or eight units, three
  and four levels; six entries: a table, a table closed to the user, a large page that is
  aligned and one that is not, a table that may only be read, and one that is absent. Four operations (`Operations`)
  suffice to switch paging on, enter user mode, rewrite an entry and access.
  The two lengths and three addresses put a buffer inside a page, across its end and
  at its last unit. A validation whose end wraps around the address space looks at no
  page; the address 1024 is far from that.
- Storage: five blocks of memory, a file of three, eighteen requests: lists of
  several nodes, empty and overlapping items, lists too short, unreadable, unmapped
  or behind the end of the file, and two requests whose LBA and COUNT wrap around (`Wrap` 8,
  and `Short` 4 for the bytes of COUNT), with and without an interrupt. Four commands let a
  transfer follow a refused one, another transfer or a reconfiguration of the device.
- source_text: all texts of up to two lines of sixteen kinds, and texts of up to
  four with a macro. The widths of the markers (`%include`, `/*`) are 1.
- parser: every form of operand and of directive; well-formed programs of two sections with
  two labels each and up to three blocks per label; up to four arbitrary tokens after an
  instruction; expressions of up to three operators with bytes of two bits, with numbers of one size
  (two bytes) and of all four.
- assembler: every pair of the 25 forms of operand, triples of seven of them, and
  programs of three sections that name each other in both directions; blocks of the
  buffer are four bytes, so that most items cross one; words are counted modulo 4096.

Deadlock is checked in no run, because each of the systems may really stop: the
prompt of a debugger that gets no command, an interrupt that waits for an instruction which
waits for it, the deadlocks that are findings, a fetch that faults on the emulator thread,
an address map no command can change, the operations or commands of a bound used up, a
program that is assembled.

Fairness. Every host thread is weakly fair as a whole, because the host schedules
it: the execution thread, the debugger's own loop, a SIGINT handler once it has
begun, the emulator thread. In Interrupts the steps of a delivery and the jump of an
iret are weakly fair: once begun they are calls of one thread. In Storage the
rest of a command (`SetFlags`, `RaiseEvent`) and `StartTransfer` are weakly fair, each on
its own thread. Commands of the user, signals, device interrupts and
what the guest executes have no fairness: they may never happen. A thread that
spins on a lock can always take its next step while the lock is free, but a lock
that is taken and released for ever could starve it; no liveness property rests on
that case. The toolchain has no fairness and no liveness property: its stages are
loops over data that is finite.

## What is proved

TLAPS proves these for every value of the constants, under the assumption each
module names.

- **ExecControlProofs** (`ProgramAssumption`): type correctness, `PauseHolds`,
  `StepBound`, `NoStaleRequest`, `BreakpointStops`, `OnlyOverwritten`. None of them
  is inductive: the invariant adds, for each point of the debugger, which values
  the words may have given where the execution thread is (for instance that while
  a step waits for `g_AllowOneInstruction`, either the word is still 1 or one
  instruction is in flight and `g_ExecutionAllowed` is about to be cleared). For
  `KillSpec`, where the emulator thread is added, it proves `OneExecutionThread` and
  `TerminateWithdrawn` under every interleaving with the debugger; that invariant ties
  the point of the kill to whether an execution thread exists.
- **ExecutionProofs**, on the event loop (`EventLoopAssumption`): `OneActive`, `HandOverPending`,
  `StoppedForInterrupt`, `ReplacedWhenStopped`, for every set of threads and every
  queue bound. The invariant says the queue holds exactly one hand-over while the
  current thread waits, and none otherwise.
  On the decode cache (`DecodeAssumption`): `RightInstruction` and `KeptOnce`, for
  every program, every size of line and slots. The invariant: an untorn line
  holds the bytes from its base on; after a miss the line stands at IP when the
  next instruction begins, unless that is decoded after a change of mode that was itself
  decoded, its line is torn, or another MMU was selected; used slots hold the
  instruction of their address; the instruction being decoded is in no compared slot.
- **InterruptsProofs** (`InterruptsAssumption`, of which `4 * Unit < AddrMod` says that
  the largest frame does not go once around the address space): type correctness;
  `UserLeaves`; that no step between the descriptor and the handler is in user mode;
  `CrashNeedsCause`; `FrameWhole`, also for `int` with the number of an exception and for
  descriptors behind the end of memory. The last two rest on lemmas about what a push takes:
  the words a delivery may still push fit between the bottom of the stack and SCP
  (`Provided`, `Room`, `Need`), and what it has pushed lies above SCP in order
  (`Laid`), also where SCP wraps around. `Need` counts the descriptors that may yet turn out
  to be missing or behind the end of memory (`Finding`).
- **MemoryProofs**, on the address map (`MapAssumption`): type correctness, `ListedAreLive`,
  `DeletedTwiceAfterError`, `ValidatedIsMapped`, for every map and all devices. The
  invariant: each owner has at most one listed region, exactly the owners with a live
  pointer may have one, and a dangling pointer implies a refused command. It is carried
  through the list operations by lemmas on removal and insertion. `ValidatedIsMapped`
  is an induction along the walk of `ValidateRead` from region to region, for every list
  and every length. With `SpaceAssumption` also `ControlServes` and `NewestServes`, from
  `LayoutInv`: the control region heads the list and all others begin below it (`Topped`,
  in `Settled`), a segment kept for a device is not empty and does not wrap around
  (`Whole`), and a region that was just added is second (`NewestSecond`). All of that
  holds whatever the count says, also while it is below the length of the list, until a region is
  appended to a list whose count is 0 (`blind`); what follows is the finding
  `AcceptedServes`. `SpaceAssumption` says that a device put behind
  RAM or another device does not reach the end of the address space: the control region
  ends at 2^32, addresses have 64 bits, and the host has to allocate what is mapped. A
  region that wraps around would be taken for one below the control region.
  On virtual memory (`VirtualAssumption`): `OnlyAllowed`, for all tables: no
  address is translated through an entry that denies the access. A large page is returned
  without a test at its own level, so the invariant must say that the entry in hand
  passed the tests one iteration before, for the same access and in the same mode.
  `RootInUse`: under paging the tables in use are those CR3 names. `AccessAsTabled` and
  `ValidatesAsTabled`, for all tables, addresses and lengths: the loop of
  `TranslateAddress`, which masks and shifts as it goes, ends where the
  definition that looks at all levels at once (`Reference`) says. `TablesInv` says that the levels above have let the
  walk pass (`PathInv`) and that the pages of the buffer before this one may be used
  (`CheckInv`). The properties are exact for pages of the lowest level and for
  large pages that are aligned and in the middle level, the only ones the code masks
  correctly, and for buffers whose end does not wrap around. `PowerAssumption` and
  `OrAssumption` say what the prover does not know of `^` and of the operator given for
  `|`: a power of two is positive, and an OR with bits below the lowest bit of a
  number is a sum. TLC evaluates both.
- **StorageProofs** (`StorageAssumption`): `ReadyMeansDone` and
  `InterruptAnswers`, for every memory, file and set of requests, with and without an
  interrupt, and a guest that goes on as soon as it sees RDY. The invariant `DeviceInv`
  says that the guest has gone on only where the rest of `StartTransfer` touches nothing
  the next command sets (`Over`), and that the number owed is that of the
  request under way until it is delivered. It holds until a command and the emulator
  thread write the status at the same time and one of them is `lost`; the finding
  `ReadyAlwaysMeansDone` shows what comes of that. `TransferExact`: with RDY, the blocks are
  those the request named, in the order of its list, and nothing else changed, unless LBA + COUNT
  wraps around (the finding `WithinFile`).
  `ContentInv` says what memory and file hold after each item of the list (the first
  blocks of the request, up to the end of the item, are moved). The lemmas under it say that
  the items of the list, read with their running offsets, make up the request's blocks.
- **ParserProofs** (no assumption): `PointersFresh`, for every stream of tokens. The
  lists are well formed and what the parser points to exists (`StructureInv`); only the
  second scan puts items into blocks (`Fresh`); the item at the cursor is the last one of the
  current block, and while an operand is read it is the last of that item (`CursorInv`).
  `ReferencesSurvive`: no operand and no directive points to a block that is deleted at the end.
  Whatever is pointed to is a label that is counted or a block with a name (`Good`);
  each token keeps that; cleaning up keeps what is good, and the pointer finds it
  where it has moved. The theorem asks that no sub-label is named by nothing
  (`NamedSources`), because there the code does delete the block (see the findings).
- **AssemblerProofs** (`ProgramsAssumption`: what the parser hands over is well formed,
  `Stale` has two bits): `ListingReads`, for any program and any bytes the file may hold.
  It rests on what `DecodeInstruction` can return, whatever it reads (`DecodedOperands`).
  `DecodesBack` is the round trip of LibArch, for instructions with any number of operands in
  all thirteen forms: if the bytes of `EncodeInstruction`, with
  its addresses filled in, stand anywhere in a stream, `DecodeInstruction` finds there the opcode
  and the operands, with addresses for the blocks, and ends behind the last byte. The
  encoder and the decoder take different paths through a table of forms; the proof goes by
  the fields both mean. The bytes are the opcode, the infos and the fields (`Laid`); the decoder finds the
  infos (`InfosFound`), from an info the kinds of the fields that were written
  (`ShapeOf`), and in each field what was put there (`OperandReadsBack`). Two more lemmas
  speak of what lies under the passes: `Write` at an offset replaces those bytes of the
  block buffer and no other, wherever its blocks end (`WriteWrites`), and a file that LibExec
  has written gives back sections and names (`ElfRead`).
- **LinkingProofs** (the same assumption): `ImplementsLinking`, `DecodesAsWritten` and
  `AddressAsWritten`, for every program and every length of a block. The proof names the layout a
  program has to get (`LaidOut`; `LayoutExists`), the place of each section, block and
  item. `AssemblerInv` says, phase by phase, how the passes approach it: while the first pass runs, the
  sections before the current one have their places and bytes (`LaidState`); while the
  second runs, the places of addresses before the current one are filled in (`FillState`);
  then all are (`FilledState`). The refinement follows step by step: a refused program is
  refused by `Linking`, the end of the second pass is its `Link`, the last write its `WriteFile`,
  and all else stutters. `FileCarried` cuts a flat file into its items; each instruction
  is read back by `DecodesBack` from where the one before ends (`DecodedInv`), and its
  operands compute what was written (`OperandWritten`).

Only model-checked:

- liveness: `EventsReachPrompt`, `ContinueProgresses`, `KillCompletes`, `ExecutionResumes`,
  `JumpsComplete`, `DeliveryEnds`, `TransferEnds`. It rests on fairness and ENABLED,
  which are out of the prover's reach;
- the properties that compare a result with the program that a constant says was written:
  `ParsesAsWritten`, `ExpressionValue`, `TokensAsWritten`, `LinesReported`. To prove them
  would be an induction over the program that was printed.

## Findings

lost_event is a run whose counterexample follows the code: the loop over the events
handles half of them and then waits, so a jump queued behind a storage command never
happens (`Emulator.cpp:165`).

The others are definitions beside the invariants that TLC refutes; they state what
a document, a comment or the code's own intent says. To see one, run the module with the
configuration and the changes given.

| Property | Module, configuration | What the code does instead |
|---|---|---|
| `DeletedStaysDeleted` | MCExecControl, DeletedStaysDeleted.cfg | `delete` misses a breakpoint that was hit and waits to be put back; it comes back (`Instruction/Instruction.cpp:294`) |
| `StepIgnoresBreakpoints` | MCExecControl, ExecControl.cfg with this PROPERTY | "don't check on single step": the word tested there was cleared before, so a step stops at a breakpoint on its instruction and executes nothing (`Instruction/Instruction.cpp:269`) |
| `StepReturns` | MCExecControl, StepReturns.cfg | a step given while a hit is under way loses its permission and waits for ever (`Instruction/Instruction.cpp:276`) |
| `InterruptsEnd` | MCExecKill, ExecKill.cfg with this PROPERTY | "wait for current instruction to finish": if it raises an event, it spins on `g_events`, which the emulator thread holds while it waits, or stays parked (`Emulator.cpp:545`, 144, 438) |
| `KillEnds` | MCExecKill, KillEnds.cfg | `continue` during an interrupt resets `g_TerminateExecution`; the emulator thread spins on (`Instruction/Instruction.cpp:213`) |
| `InterruptStops` | EventLoop, InterruptDeadlock.cfg | a transfer interrupts with `g_events` locked while the execution thread spins on it (`Instruction/Instruction.cpp:191`) |
| `JumpAnswered` | EventLoop, JumpFault.cfg | the target of a jump is read with `g_events` locked; if it cannot be, the exception raises an event and spins on its own lock (`Emulator.cpp:173`) |
| `RightAfterModeChange` | MCDecodeCache, DecodeCache.cfg with this INVARIANT | `syscall`, `sysret` and `enteruser` set the next IP without moving the line, and the loop moves it after a hit only: after one that was decoded, the bytes behind it are executed as if they stood at IP (`Instruction/Instruction.cpp:339`, `Emulator.cpp:514`) |
| `AcceptedServes` | MCMemoryMap, MemoryMap.cfg with this INVARIANT | `remove` of a region that is not listed still lowers `m_count` (`src/LibCommon/LinkedList.hpp:205`); when it is 0 with a list that is not empty, the next region is appended behind older ones that overlap it (`MMU/MMU.cpp:281`) |
| `RegionsDisjoint` | MCMemoryMap, RegionsDisjoint.cfg | `HasRegion` stops at the control region, which heads the list, so overlapping RAM is accepted (`MMU/MMU.cpp:404`) |
| `DeliveryReturns` | MCInterrupts, Interrupts.cfg with this PROPERTY | the test of the stack before an error code is pushed raises PHYS_MEM_VIOLATION itself, also in safe mode, if its page table cannot be read; that exception makes the same test (`Exceptions.cpp:45`, `MMU/VirtualMMU.cpp:220`) |
| `CodesOnTop` | MCInterrupts, Interrupts.cfg with this INVARIANT | the error code is pushed before IP and status, not "after the other arguments" (docs/design.md:90), so a handler cannot pop it "before the iret" (docs/design.md:91) (`Exceptions.cpp:50`) |
| `FrameReturns` | MCInterrupts, FrameReturns.cfg | pop refuses what push allowed: `iret` cannot return from a frame that ends at STP (`Stack.cpp:43`) |
| `LargePagesExact` | MCVirtualMemory, VirtualMemory.cfg with this INVARIANT | every large page but that of the middle level of three or five is masked to the wrong size (`MMU/VirtualMMU.cpp:230`; docs/design.md:202) |
| `BufferAsTabled` | MCVirtualMemory, VirtualMemory.cfg with this INVARIANT | a buffer is translated at its first byte only (`MMU/VirtualMMU.cpp:36`) |
| `ReadyAlwaysMeansDone` | MCStorage, Storage.cfg with this INVARIANT | a command that the guest begins when it sees RDY and the emulator thread that sets INTP write one status byte in two steps each: the RDY of the last request comes back during this one (docs/design.md:992; `IO/Devices/Storage/StorageDevice.cpp:113`) |
| `InterruptComes` | MCStorage, Storage.cfg with this PROPERTY | the flag for the interrupt is read after RDY was set; a request begun in between decides for the last one (docs/design.md:988; `IO/Devices/Storage/StorageDevice.cpp:113`) |
| `WithinFile` | MCStorage, Storage.cfg with this INVARIANT | LBA + COUNT wraps around in 64 bits, so a request far behind the end is taken for one inside the file (docs/design.md:993; `IO/Devices/Storage/StorageDevice.cpp:169`, 206) |
| `TransferReturns` | MCStorage, Storage.cfg with this PROPERTY | an interrupt that is delivered while the guest raises an event waits for an instruction that waits for the lock (docs/design.md:988; `Emulator.cpp:144`) |
| `ExpressionsEvaluate` | MCParser, ExpressionOrder.cfg | expressions with two operators of one group are refused (docs/design.md:676) |
| `ExpressionDefined` | MCParser, Parser.cfg with this INVARIANT | a number is read at the size of the larger operand, with the bytes that lie behind it (`src/Assembler/src/Parser.cpp:1811`) |
| `ExpressionValue` | MCParser, Parser.cfg with `Sources <- MCWide` | `(5 * 5)` is computed at the size of its numbers and wraps around, where C (docs/design.md:676) would not (`src/Assembler/src/Parser.cpp:1797`) |
| `ReferencesSurvive` | MCParser, Parser.cfg with `Sources <- MCDot` | a dot alone is taken for a sub-label with an empty name (`src/Assembler/src/Lexer.cpp:357`); it names the label's first block, which is deleted when it stays empty though an operand points to it (`src/Assembler/src/Parser.cpp:1058`) |
| `CommentsRemovable` | MCLexer, CommentFirst.cfg | a program that starts with a comment loses its first reference point; an error or a token behind it ends in an internal error |
| `MacrosExpand` | MCLexer, Lexer.cfg with `Sources <- MCMacroPrograms` | a macro that makes the text longer is taken for an overlap of its own uses (`src/Assembler/src/PreProcessor.cpp:280`) |
| `TokensMeant` | MCLexer, Lexer.cfg with this INVARIANT and `Sources <- MCLiteralPrograms` | the character behind a character literal is skipped (`src/Assembler/src/Lexer.cpp:156`) |
| `TokensMeant` | the same with `Sources <- MCStringPrograms` | the mark of a comment in a string begins a comment (`src/Assembler/src/PreProcessor.cpp:76`, 118; docs/design.md:629) |
| `TokensMeant` | the same with `Sources <- MCWordPrograms` | the name of a macro is replaced inside a longer word (`src/Assembler/src/PreProcessor.cpp:271`) |
| `NegativeAsWritten` | MCAssembler, Assembler.cfg with `Programs <- MCNegative` | a number below zero is stored in one byte and read back without its sign |

Met on the way, without a property of their own.

Emulator:

- A pause lets the instruction that passed the test execute
  (`Instruction/Instruction.cpp:197`); `PauseHolds` allows for it.
- A step given while such an instruction is in flight may leave execution allowed
  (`Instruction/Instruction.cpp:221`); `NoStaleRequest` excludes it with `escaped < 2`.
- An interrupt restores `g_ExecutionAllowed` and so undoes a pause given meanwhile
  (`Instruction/Instruction.cpp:204`).
- A device interrupt that cannot be delivered raises an exception on the emulator
  thread, which retakes `g_events` (`Interrupts.cpp:88`; part of `Faults`).
- After a fill of the line that faulted, its base has moved over the old bytes; a
  jump within 256 bytes executes them. `RightInstruction` ends at such a line.
- A write to CR0 that switches paging leaves IP at the write, which executes again
  under the new MMU; instructions decoded before stay in their slots. If the switch is
  refused (64 KiB and five levels), "restore any changes" (`Emulator.cpp:461`)
  restores a change to protected mode, but not one to real mode.
- `SET_REGION` of a region that starts behind every listed one is answered with
  success and not inserted; the double deletion of a region needs a refused
  command first; cutting a region discards its contents; a device that was moved
  may be merged into the RAM around it.
- `g_stack` always accesses physical memory, while `RaiseException` validates the
  stack through the MMU of the interrupt handler.
- `iret` ORs the popped status into the old one and does not enter user mode
  again; `syscall` in real mode leaves user mode it was not in; the descriptors are
  cached when the table is loaded; `pusha` pushes r0 first.
- docs/design.md:73 reserves 32 interrupts, the code 16; bit 1 of a descriptor
  (docs/design.md:557) and the PRESENT bit of a paging violation (docs/design.md:121) are
  not implemented; `hlt` has no test of privilege.
- The storage device never clears INTP; no interrupt comes for a list that
  cannot be parsed; a region that is not mapped stops the emulator thread; an interrupt
  number a device had before stays taken.

Toolchain:

- A macro without a name (`%define  2`) is searched for ever; a comment that holds
  an include is included; the text of an included file is read on behind its end.
- `"a\\"` is not terminated; a label
  that is the beginning of an instruction's name cannot be used; `enteruser` is never
  recognised. Lines reported behind an include or a block comment are too high.
- A directive at the end of the text whose argument is missing leaves an item without data, whose
  null pointer the assembler reads (`src/Assembler/src/Parser.cpp:536`,
  `src/Assembler/src/Assembler.cpp:73`).
- Labels and sublabels that nothing refers to are dropped, and `m_labels` is not
  cleared with the rest of the parser.
- `((5))` ends in an assertion; the three-operand combined forms have a number no
  encoder writes; `GetRegisterPointer` has no register for the numbers 19 to 31.
- `.align` and `.skip` of a label emit its eight bytes; a flat file leaves out the gaps
  before an `.org`; sections that overlap are not noticed.
- `LinkedList::insertAt` inserts one too late; the disassembler prints every
  offset with a plus sign.

## Not modelled

Left out for good: the host layer, what devices draw or print, the console's byte
streams, the reading of command lines, start-up and the messages of a crash.

Left out so far, in the order of their worth:

1. **Arithmetic and flags** of the instructions at a small width
   (`Instruction/Instruction.cpp`, `Math.cpp`) and the register classes beyond
   what Interrupts and Operands have of them.
2. **Machine**: an abstract machine that runs, hands over, is interrupted or held,
   with EventLoop and ExecControl shown to implement it. The three thread modules
   agree on the actions they share by construction only.
3. The I/O bus beyond device moves and interrupt numbers: its registers and GET
   commands; interrupt numbers behind the end of its bitmap.
4. PGS and PTL of 3, which no document allows, and validations whose end wraps around.
5. LibCommon's tree, bitmap and linked list beyond what MMU uses; the disassembler's
   reading of an executable by sections.
