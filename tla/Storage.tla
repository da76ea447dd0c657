------------------------------ MODULE Storage ------------------------------
(***************************************************************************)
(* The storage device: its commands on the execution thread, the transfer  *)
(* on the emulator thread, the physical region list between them, and the  *)
(* number the I/O bus gives its interrupt                                  *)
(* (src/Emulator/src/IO/Devices/Storage/StorageDevice.cpp:79-223,          *)
(*  src/Emulator/src/IO/Devices/Storage/PhysicalRegionListBuffer.cpp:      *)
(*  27-142, src/Emulator/src/IO/IOBus.cpp:107-110, 200-233).               *)
(*                                                                         *)
(* Memory and the file are made of blocks.  The guest issues a command     *)
(* when it has seen RDY, which ends the command before                     *)
(* (docs/design.md:992), whether or not the interrupt of that one has come *)
(* yet; it leaves the list and the regions of a transfer alone until then. *)
(* Of its other instructions those matter that raise an event, because     *)
(* they wait for the emulator thread; what becomes of the event and of the *)
(* frame of the interrupt is in modules EventLoop, ExecKill and            *)
(* Interrupts.                                                             *)
(*                                                                         *)
(* A definition marked "Mutant" is a faulty variant of the one after it.   *)
(***************************************************************************)
EXTENDS Integers, Sequences, SequencesExt

CONSTANTS
    Memory,   \* the blocks of physical memory
    Size,     \* the blocks of the file
    Info,     \* what GET_DEVICE_INFO writes
    Target,   \* where the guest asks it to be written
    Request,  \* the reads and writes the guest asks for
    Number,   \* the interrupt numbers it asks for
    Reserved, \* RESERVED_INTERRUPTS
    Wrap,     \* LBA and COUNT are below (2^64 in the code)
    Short,    \* the blocks whose bytes are counted below Wrap (2^55)
    Commands  \* how many commands it issues (a bound)

\* A list is a sequence of nodes, and a node one of items; a node or a request
\* may lie where memory cannot be read.
ASSUME StorageAssumption ==
    /\ Memory \subseteq Nat /\ Size \in Nat /\ Target \subseteq Nat
    /\ \A r \in Request :
          /\ r.mapped \in BOOLEAN /\ r.write \in BOOLEAN /\ r.int \in BOOLEAN
          /\ r.lba \in 0..(Wrap - 1) /\ r.count \in 0..(Wrap - 1)
          /\ r.list \in Seq([mapped : BOOLEAN, items : Seq([start : Nat, size : Nat])])
    /\ Number \subseteq Nat /\ Reserved \in Nat
    /\ Wrap \in Nat /\ Short \in Nat /\ Size < Short /\ Short <= Wrap
    /\ Commands \in Nat

VARIABLES
    memory, disk, \* the contents, and those of the file
    status,       \* m_status
    transfer,     \* m_transferCommandStatus
    list, size,   \* m_listStart with m_listNodeCount, m_size
    items,        \* m_items
    parsed,       \* m_listParsed
    events,       \* the StorageTransfer events in g_events
    lock,         \* the emulator thread holds g_events
    number,       \* m_interruptMapping of the device
    taken,        \* m_interruptMap
    gpc,          \* where the execution thread is in HandleCommand
    epc,          \* where the emulator thread is in StartTransfer
    next, offset, data, left, \* i, offset, data and size in Write and Read
    read,         \* the status it has read, to write it back with INTP
    request,      \* the last request
    before,       \* history: the contents when it was accepted, or nothing
    owed,         \* history: the request made last asked for the interrupt,
                  \* and it has not come
    lost,         \* history: a command and the emulator thread have written
                  \* the status at once
    issued        \* how many commands it has issued

contents == <<memory, disk>>
buffer   == <<list, size, items, parsed>>
bus      == <<number, taken>>
loop     == <<next, offset, data, left>>
hist     == <<before, owed, lost>>
vars == <<contents, status, transfer, buffer, events, lock, bus, gpc, epc, loop,
          read, request, hist, issued>>

NoRequest == [mapped |-> FALSE, write |-> FALSE, lba |-> 0, count |-> 0,
              list |-> <<>>, int |-> FALSE]

-----------------------------------------------------------------------------
(* The execution thread: HandleCommand and RunCommand.                     *)

\* The guest is between two instructions and has seen RDY.
Free == gpc = "free" /\ (issued = 0 \/ status.rdy)

Issues == Free /\ issued < Commands /\ issued' = issued + 1

\* Everything of the emulator thread and of the list.
Rest == <<disk, transfer, buffer, events, lock, epc, loop, read, lost>>

\* CONFIGURE.
Configure(en, inte) ==
    /\ Issues
    /\ status' = [status EXCEPT !.en = en, !.inte = inte, !.err = FALSE, !.rdy = TRUE]
    /\ before' = <<>>
    /\ UNCHANGED <<Rest, memory, bus, gpc, request, owed>>

\* GET_DEVICE_INFO: ValidateWrite comes first.
GetDeviceInfo(b) ==
    /\ Issues
    /\ status' = [status EXCEPT !.err = b \notin Memory, !.rdy = TRUE]
    /\ memory' = IF b \in Memory THEN [memory EXCEPT ![b] = Info] ELSE memory
    /\ before' = <<>>
    /\ UNCHANGED <<Rest, bus, gpc, request, owed>>

\* The guest writes the status back without INTP, which the device never
\* clears (WriteQWord).
Acknowledge ==
    /\ Free
    /\ status.intp
    /\ status' = [status EXCEPT !.intp = FALSE]
    /\ UNCHANGED <<Rest, memory, bus, gpc, request, hist, issued>>

\* The tests of READ and WRITE; the sum is one of 64 bits.
Valid(r) ==
    /\ r.mapped
    /\ r.int => status.inte
    /\ r.count # 0
    /\ (r.lba + r.count) % Wrap <= Size

\* READ and WRITE that are refused: no transfer begins.
Refuse(r) ==
    /\ Issues
    /\ ~Valid(r)
    /\ status' = [status EXCEPT !.trn = FALSE, !.err = TRUE, !.rdy = TRUE]
    /\ before' = <<>>
    /\ UNCHANGED <<Rest, memory, bus, gpc, request, owed>>

\* Mutant: RDY stays set, as it does in the commands that end at once.
AcceptReady(r) ==
    /\ Issues
    /\ Valid(r)
    /\ list' = r.list /\ size' = r.count % Short
    /\ items' = <<>> /\ parsed' = FALSE
    /\ status' = [status EXCEPT !.trn = TRUE, !.err = FALSE]
    /\ transfer' = [transfer EXCEPT !.lba = r.lba, !.count = r.count]
    /\ gpc' = "flags"
    /\ request' = r
    /\ before' = <<>>
    /\ UNCHANGED <<contents, events, lock, bus, epc, loop, read, owed, lost>>

\* READ and WRITE up to the new list, TRN, LBA and Count.
Accept(r) ==
    /\ Issues
    /\ Valid(r)
    /\ list' = r.list /\ size' = r.count % Short
    /\ items' = <<>> /\ parsed' = FALSE
    /\ status' = [status EXCEPT !.rdy = FALSE, !.trn = TRUE, !.err = FALSE]
    /\ transfer' = [transfer EXCEPT !.lba = r.lba, !.count = r.count]
    /\ gpc' = "flags"
    /\ request' = r
    /\ before' = <<>>
    /\ UNCHANGED <<contents, events, lock, bus, epc, loop, read, owed, lost>>

\* The flags of the request, into m_transferCommandStatus.
SetFlags ==
    /\ gpc = "flags"
    /\ transfer' = [transfer EXCEPT !.int = request.int, !.write = request.write]
    /\ gpc' = "raise"
    /\ UNCHANGED <<contents, status, buffer, events, lock, bus, epc, loop, read,
                   request, hist, issued>>

\* RaiseEvent, which waits for the lock of g_events.
RaiseEvent ==
    /\ gpc = "raise"
    /\ ~lock
    /\ events' = events + 1
    /\ gpc' = "free"
    /\ before' = contents
    /\ owed' = request.int
    /\ UNCHANGED <<contents, status, transfer, buffer, lock, bus, epc, loop, read,
                   request, lost, issued>>

\* SET_INTERRUPT_MAPPING on the bus.  The number the device had before stays
\* taken.
SetInterruptMapping(n) ==
    /\ Issues
    /\ n = 0 \/ (n >= Reserved /\ n \notin taken)
    /\ number' = n
    /\ taken' = IF n = 0 THEN taken \ {0} ELSE taken \cup {n}
    /\ UNCHANGED <<Rest, memory, status, gpc, request, before, owed>>

\* Another instruction that raises an event, as a jump out of a handler does:
\* it spins on the lock of g_events, or waits in the thread that the emulator
\* thread is to replace, and is not over until that thread is free for it
\* (module EventLoop).
RaiseOther ==
    /\ gpc = "free"
    /\ gpc' = "event"
    /\ UNCHANGED <<Rest, memory, status, bus, request, before, owed, issued>>

-----------------------------------------------------------------------------
(* The emulator thread: StartTransfer under the lock of g_events.          *)

Emulates == UNCHANGED <<gpc, bus, request, issued>>

\* The other event is handled.
OtherHandled ==
    /\ gpc = "event" /\ epc = "idle"
    /\ gpc' = "free"
    /\ UNCHANGED <<Rest, memory, status, bus, request, before, owed, issued>>

TakeEvent ==
    /\ epc = "idle"
    /\ events > 0
    /\ lock' = TRUE
    /\ epc' = "parse"
    /\ Emulates
    /\ UNCHANGED <<contents, status, transfer, buffer, events, loop, read, hist>>

\* The event is removed when it has been handled.
Return ==
    /\ epc' = "idle"
    /\ events' = events - 1
    /\ lock' = FALSE

\* One sequence after the other (recursive functions, for the proofs).
Joined(seqs) ==
    LET upto[k \in 0..Len(seqs)] == IF k = 0 THEN <<>> ELSE upto[k - 1] \o seqs[k]
    IN  upto[Len(seqs)]

Flatten(nodes) == Joined([k \in DOMAIN nodes |-> nodes[k].items])

\* The blocks up to the end of each item.
Ends(its) ==
    LET end[k \in 0..Len(its)] == IF k = 0 THEN 0 ELSE end[k - 1] + its[k].size
    IN  end
Total(its) == Ends(its)[Len(its)]

\* The nodes that can be read, and the items of them with their offsets.
Readable == \A k \in DOMAIN list : list[k].mapped
WithOffsets(its) ==
    [k \in DOMAIN its |->
        [start |-> its[k].start, size |-> its[k].size,
         offset |-> Ends(its)[k - 1]]]

Parses == parsed \/ (Readable /\ Total(Flatten(list)) = size)

\* Mutant: the interrupt is raised for a list that cannot be parsed, too.
ParseFailsInterrupts ==
    /\ epc = "parse"
    /\ ~Parses
    /\ status' = [status EXCEPT !.err = TRUE, !.trn = FALSE, !.rdy = TRUE]
    /\ owed' = FALSE
    /\ epc' = "test"
    /\ Emulates
    /\ UNCHANGED <<contents, transfer, buffer, events, lock, loop, read, before, lost>>

\* Mutant: a transfer with an error is never ready again.
ParseFailsSilently ==
    /\ epc = "parse"
    /\ ~Parses
    /\ status' = [status EXCEPT !.err = TRUE, !.trn = FALSE]
    /\ owed' = FALSE
    /\ Return
    /\ Emulates
    /\ UNCHANGED <<contents, transfer, buffer, loop, read, before, lost>>

\* ParseList, and what StartTransfer does when it fails: no interrupt.
ParseFails ==
    /\ epc = "parse"
    /\ ~Parses
    /\ status' = [status EXCEPT !.err = TRUE, !.trn = FALSE, !.rdy = TRUE]
    /\ owed' = FALSE
    /\ Return
    /\ Emulates
    /\ UNCHANGED <<contents, transfer, buffer, loop, read, before, lost>>

ParseList ==
    /\ epc = "parse"
    /\ Parses
    /\ items' = IF parsed THEN items ELSE WithOffsets(Flatten(list))
    /\ parsed' = TRUE
    /\ epc' = "copy"
    /\ next' = 1 /\ offset' = 0
    /\ data' = transfer.lba % Short /\ left' = transfer.count % Short
    /\ Emulates
    /\ UNCHANGED <<contents, status, transfer, list, size, events, lock, read, hist>>

Holds(it) == offset >= it.offset /\ offset < it.offset + it.size

\* Mutant: all that is left goes to the first item.
PartAll(it) == left

\* How many blocks the item takes.
Part(it) == IF offset + left > it.offset + it.size
            THEN it.offset + it.size - offset ELSE left

\* Where in memory they lie.
From(it) == it.start + offset - it.offset

\* The data of the file are addressed with 64 bits.  Outside the file is other
\* memory of the emulator, or none.
Outside      == <<"emulator", 0>>
FileBlock(b) == IF b % Short < Size THEN disk[b % Short] ELSE Outside
Behind(b)    == (b - data) % Short

\* An item with nothing to copy.
SkipItem ==
    /\ epc = "copy" /\ next <= Len(items)
    /\ ~Holds(items[next])
    /\ next' = next + 1
    /\ Emulates
    /\ UNCHANGED <<contents, status, transfer, buffer, events, lock, epc, offset,
                   data, left, read, hist>>

\* One ReadBuffer or WriteBuffer: Write of the buffer for READ, Read for WRITE.
CopyItem ==
    /\ epc = "copy" /\ next <= Len(items)
    /\ LET it == items[next]
           n  == Part(it)
           a  == From(it)
       IN  /\ Holds(it)
           /\ a..(a + n - 1) \subseteq Memory
           /\ IF transfer.write
              THEN /\ disk' = [b \in DOMAIN disk |-> IF Behind(b) < n
                                                     THEN memory[a + Behind(b)]
                                                     ELSE disk[b]]
                   /\ UNCHANGED memory
              ELSE /\ memory' = [b \in Memory |-> IF b \in a..(a + n - 1)
                                                  THEN FileBlock(data + b - a)
                                                  ELSE memory[b]]
                   /\ UNCHANGED disk
           /\ data' = data + n /\ left' = left - n /\ offset' = offset + n
    /\ next' = next + 1
    /\ Emulates
    /\ UNCHANGED <<status, transfer, buffer, events, lock, epc, read, hist>>

\* A region that is not mapped: the exception is raised on the emulator
\* thread, which would have to lock g_events again to deliver it.  Where the
\* emulator has no memory outside the file, it ends.
CopyFaults ==
    /\ epc = "copy" /\ next <= Len(items)
    /\ LET it == items[next]
       IN  /\ Holds(it)
           /\ \/ ~(From(it)..(From(it) + Part(it) - 1) \subseteq Memory)
              \/ \E n \in 0..(Part(it) - 1) : (data + n) % Short >= Size
    /\ epc' = "stuck"
    /\ Emulates
    /\ UNCHANGED <<contents, status, transfer, buffer, events, lock, loop, read, hist>>

\* The end of the transfer for the guest.
Finish ==
    /\ epc = "copy" /\ next > Len(items)
    /\ status' = [status EXCEPT !.trn = FALSE, !.err = FALSE, !.rdy = TRUE]
    /\ epc' = "test"
    /\ Emulates
    /\ UNCHANGED <<contents, transfer, buffer, events, lock, loop, read, hist>>

\* INT is read after RDY was set.
NoInterrupt ==
    /\ epc = "test"
    /\ ~transfer.int
    /\ Return
    /\ Emulates
    /\ UNCHANGED <<contents, status, transfer, buffer, loop, read, hist>>

\* INTP is a bit of the byte that holds RDY and TRN: it is read and written
\* back.
ReadStatus ==
    /\ epc = "test"
    /\ transfer.int
    /\ read' = status
    /\ epc' = "pending"
    /\ Emulates
    /\ UNCHANGED <<contents, status, transfer, buffer, events, lock, loop, hist>>

\* A command that has written the byte in between is undone, or undoes it.
SetPending ==
    /\ epc = "pending"
    /\ status' \in {[read EXCEPT !.intp = TRUE]} \cup ({status} \ {read})
    /\ lost' = (lost \/ status # read)
    /\ epc' = "interrupt"
    /\ Emulates
    /\ UNCHANGED <<contents, transfer, buffer, events, lock, loop, read, before, owed>>

\* HandleDeviceInterrupt of a device without a number: INTP is all there is.
NotMapped ==
    /\ epc = "interrupt"
    /\ number = 0
    /\ owed' = FALSE
    /\ Return
    /\ Emulates
    /\ UNCHANGED <<contents, status, transfer, buffer, loop, read, before, lost>>

\* RaiseInterruptExternal: it waits for the end of the instruction under way.
Deliver ==
    /\ epc = "interrupt"
    /\ number # 0
    /\ gpc = "free"
    /\ owed' = FALSE
    /\ Return
    /\ Emulates
    /\ UNCHANGED <<contents, status, transfer, buffer, loop, read, before, lost>>

-----------------------------------------------------------------------------
Off == [en |-> FALSE, err |-> FALSE, rdy |-> FALSE, trn |-> FALSE,
        inte |-> FALSE, intp |-> FALSE]

Init ==
    /\ memory = [a \in Memory |-> <<"memory", a>>]
    /\ disk = [b \in 0..(Size - 1) |-> <<"file", b>>]
    /\ status = Off /\ read = Off
    /\ transfer = [lba |-> 0, count |-> 0, int |-> FALSE, write |-> FALSE]
    /\ list = <<>> /\ size = 0 /\ items = <<>> /\ parsed = FALSE
    /\ events = 0 /\ lock = FALSE
    /\ number = 0 /\ taken = {}
    /\ gpc = "free" /\ epc = "idle"
    /\ next = 1 /\ offset = 0 /\ data = 0 /\ left = 0
    /\ request = NoRequest /\ before = <<>> /\ owed = FALSE /\ lost = FALSE
    /\ issued = 0

HandleCommand ==
    \/ \E en, inte \in BOOLEAN : Configure(en, inte)
    \/ \E b \in Target : GetDeviceInfo(b)
    \/ Acknowledge
    \/ \E r \in Request : Accept(r) \/ Refuse(r)
    \/ SetFlags \/ RaiseEvent
    \/ \E n \in Number : SetInterruptMapping(n)
    \/ RaiseOther

StartTransfer ==
    \/ TakeEvent \/ ParseFails \/ ParseList
    \/ SkipItem \/ CopyItem \/ CopyFaults \/ Finish
    \/ NoInterrupt \/ ReadStatus \/ SetPending \/ NotMapped \/ Deliver

Next == HandleCommand \/ OtherHandled \/ StartTransfer

\* Both threads are scheduled; the guest need not issue commands.
Fairness ==
    /\ WF_vars(SetFlags) /\ WF_vars(RaiseEvent) /\ WF_vars(OtherHandled)
    /\ WF_vars(StartTransfer)
Spec == Init /\ [][Next]_vars /\ Fairness

-----------------------------------------------------------------------------
(* Properties.                                                             *)

TypeOK ==
    /\ DOMAIN memory = Memory /\ DOMAIN disk = 0..(Size - 1)
    /\ status \in [DOMAIN Off -> BOOLEAN] /\ read \in [DOMAIN Off -> BOOLEAN]
    /\ transfer \in [lba : Nat, count : Nat, int : BOOLEAN, write : BOOLEAN]
    /\ size \in Nat /\ parsed \in BOOLEAN /\ lock \in BOOLEAN
    /\ events \in Nat
    /\ number \in Number \cup {0} /\ taken \subseteq Number
    /\ gpc \in {"free", "flags", "raise", "event"}
    /\ epc \in {"idle", "parse", "copy", "stuck", "test", "pending", "interrupt"}
    /\ next \in Nat /\ offset \in Nat /\ data \in Nat /\ left \in Nat
    /\ request \in Request \cup {NoRequest}
    /\ owed \in BOOLEAN /\ lost \in BOOLEAN /\ issued \in 0..Commands

\* The blocks of memory that a list names, in the order of the transfer.
Blocks(nodes) ==
    Joined([k \in DOMAIN Flatten(nodes) |->
        LET it == Flatten(nodes)[k]
        IN  [j \in 1..it.size |-> it.start + j - 1]])

\* LBA and COUNT of a request add up within 64 bits.
NoWrap(r) == r.lba + r.count < Wrap

\* A read puts the blocks of the file one after the other into the blocks the
\* list names, the later over the earlier; a write takes them from there; and
\* neither changes anything else.  A list that cannot be used changes nothing.
\* It holds when the guest sees RDY (StartTransfer, ParseList, Write, Read):
\* unless LBA + COUNT wrapped around in the test of the request (finding
\* WithinFile), or the status was written by both threads at once (finding
\* ReadyAlwaysMeansDone).
TransferExact ==
    (before # <<>> /\ status.rdy /\ ~lost /\ NoWrap(request)) =>
        LET memory0  == before[1]
            disk0    == before[2]
            blocks   == Blocks(request.list)
            Named(a) == {k \in DOMAIN blocks : blocks[k] = a}
        IN  /\ memory = [a \in Memory |->
                IF ~status.err /\ ~request.write /\ Named(a) # {}
                THEN disk0[request.lba + Max(Named(a)) - 1] ELSE memory0[a]]
            /\ disk = [b \in 0..(Size - 1) |->
                IF /\ ~status.err /\ request.write
                   /\ b \in request.lba..(request.lba + request.count - 1)
                THEN memory0[blocks[b - request.lba + 1]] ELSE disk0[b]]

Done ==
    /\ gpc \in {"free", "event"}
    /\ ~status.trn
    /\ epc \notin {"parse", "copy", "stuck"}
    /\ epc = "idle" => events = 0

\* RDY means that the command is done and its transfer complete
\* (docs/design.md:992), none is queued or under way: until both threads have
\* written the status at once (HandleCommand, StartTransfer).
ReadyMeansDone == status.rdy /\ ~lost => Done

\* An interrupt of the device comes only for a request that asked for one, and
\* once; and one that was asked for is passed over only if the flags of the
\* next request are there already (StartTransfer, HandleDeviceInterrupt).
InterruptAnswers ==
    [][~lost => /\ Deliver => owed
                /\ NoInterrupt /\ gpc # "raise" => ~owed]_vars

\* The emulator thread waits for the end of an instruction that waits for the
\* emulator thread: for good.
Blocked == epc = "interrupt" /\ gpc \in {"raise", "event"}

\* A transfer ends, and its interrupt comes, for a list of mapped regions
\* (StartTransfer): unless the guest has begun the next command or another
\* instruction that raises an event when the interrupt is to be delivered
\* (finding TransferReturns).
TransferEnds ==
    /\ status.trn ~> (status.rdy \/ epc = "stuck" \/ Blocked)
    /\ owed ~> (~owed \/ epc = "stuck" \/ Blocked)

\* Claims of the documentation that the code does not keep (see README,
\* findings).

\* docs/design.md:992 "STATUS.RDY is set then the command is completely done
\* and the transfer is complete."
ReadyAlwaysMeansDone == status.rdy => Done

\* docs/design.md:988 "Raise interrupt on completion", a flag of each request.
InterruptComes == [][NoInterrupt => ~owed]_vars

\* docs/design.md:993 "If STATUS.TRN does not get set, then the command was
\* invalid": a transfer is one of blocks of the file.
WithinFile == status.trn /\ ~lost => request.lba + request.count <= Size

\* docs/design.md:988: a transfer with an interrupt comes to an end.
TransferReturns == []<>(epc \in {"idle", "stuck"})
=============================================================================
