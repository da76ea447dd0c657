----------------------------- MODULE Assembler ------------------------------
(***************************************************************************)
(* Assembler::assemble and the Disassembler that reads its flat files.     *)
(* The assembler goes through the parsed program twice.  The first time it *)
(* gives every section its address, writes the bytes of every item into    *)
(* the buffer of the section, with eight bytes to spare where an address   *)
(* is wanted, and notes the offset of every block in one list for the      *)
(* whole program.  The second time it goes through that list beside the    *)
(* blocks and overwrites the spare bytes with the address of each.         *)
(***************************************************************************)
EXTENDS Operands, Buffer, Executable, Program

CONSTANTS Programs,        \* what the parser may hand over
          Stale            \* imm0Size where the encoder leaves it unset

VARIABLES
    program, format,       \* `sections` and `format`
    pc,                    \* "layout", "fill", "write", "done", "failed"
    at,                    \* the section, and the element of its walk; then the block
    currentOffset,
    sections,              \* m_sections: [start, size, buffer] of each
    dataBlocks,            \* m_dataBlocks: the offset of each block in its section
    jumpsToHere,           \* of every block, the places that want its address
    file,                  \* the output stream
    offset, listing        \* m_current_offset, and m_instructions with their operands

assembler == << program, format, pc, at, currentOffset, sections, dataBlocks, jumpsToHere, file >>
vars      == << assembler, offset, listing >>

ASSUME ProgramsAssumption ==
    /\ \A p \in Programs : GoodProgram(p)
    /\ Stale \in 0 .. 3

----------------------------------------------------------------------------
(* The walk through the items of a section *)

Item == Enumerated(program, at[1])[at[2]]

InLayout(kinds) ==
    /\ pc = "layout" /\ at[1] <= Len(program)
    /\ at[2] \in 1 .. Len(Enumerated(program, at[1]))
    /\ Item.kind \in kinds

\* The bytes go into the buffer of the section, and the offset moves behind them.
Emit(bytes) ==
    /\ sections' = [sections EXCEPT ![at[1]].buffer = Write(@, currentOffset, bytes)]
    /\ currentOffset' = currentOffset + Len(bytes)
    /\ at' = << at[1], at[2] + 1 >>

\* From the start of the instruction instead of the place in it.
AwaitingAtStart(jumps, section, from) ==
    [id \in DOMAIN jumpsToHere |->
        jumpsToHere[id] \o SetToSeq({[section |-> section, at |-> from] :
                                        j \in {k \in jumps : k.block = id}})]

Awaiting(jumps, section, from) ==
    [id \in DOMAIN jumpsToHere |->
        jumpsToHere[id] \o SetToSeq({[section |-> section, at |-> from + j.at] :
                                        j \in {k \in jumps : k.block = id}})]

----------------------------------------------------------------------------
(* First pass *)

StartSection ==
    /\ pc = "layout" /\ at[1] <= Len(program) /\ at[2] = 0
    /\ LET s     == at[1]
           start == CASE program[s].org # NoOrg -> program[s].org
                      [] program[s].org = NoOrg /\ s = 1 -> 0
                      [] OTHER -> sections[s - 1].start + sections[s - 1].size
       IN  sections' = Append(sections, [start |-> start, size |-> 0, buffer |-> << >>])
    /\ currentOffset' = 0
    /\ at' = << at[1], 1 >>
    /\ UNCHANGED << program, format, pc, dataBlocks, jumpsToHere, file, offset, listing >>

StartBlock ==
    /\ InLayout({"begin"})
    /\ dataBlocks' = Append(dataBlocks, currentOffset)
    /\ at' = << at[1], at[2] + 1 >>
    /\ UNCHANGED << program, format, pc, currentOffset, sections, jumpsToHere, file, offset, listing >>

EmitInstruction ==
    /\ InLayout({"ins"}) /\ Encodable(Item.ins)
    /\ LET enc == EncodeInstruction(Item.ins, Stale)
       IN  /\ jumpsToHere' = Awaiting(enc.jumps, at[1], currentOffset)
           /\ Emit(enc.bytes)
    /\ UNCHANGED << program, format, pc, dataBlocks, file, offset, listing >>

\* RAW, ASCII and ASCIIZ.
EmitData ==
    /\ InLayout({"raw"})
    /\ Emit(Item.bytes)
    /\ UNCHANGED << program, format, pc, dataBlocks, jumpsToHere, file, offset, listing >>

\* LABEL and SUBLABEL.
EmitReference ==
    /\ InLayout({"block"})
    /\ jumpsToHere' = Awaiting({[at |-> 0, block |-> Item.block]}, at[1], currentOffset)
    /\ Emit(Placeholder)
    /\ UNCHANGED << program, format, pc, dataBlocks, file, offset, listing >>

\* Up to a multiple of the alignment, counted in addresses and not in the section.
EmitAlignment ==
    /\ InLayout({"align"}) /\ PowerOfTwo(Item.to)
    /\ LET globalOffset == sections[at[1]].start + currentOffset
       IN  Emit(Nops((-globalOffset) % Item.to))
    /\ UNCHANGED << program, format, pc, dataBlocks, jumpsToHere, file, offset, listing >>

EmitSkip ==
    /\ InLayout({"skip"})
    /\ Emit(Nops(Item.by))
    /\ UNCHANGED << program, format, pc, dataBlocks, jumpsToHere, file, offset, listing >>

\* error() ends the program: nothing is written.
Refuse ==
    /\ InLayout({"ins", "align"})
    /\ IF Item.kind = "ins" THEN ~Encodable(Item.ins) ELSE ~PowerOfTwo(Item.to)
    /\ pc' = "failed"
    /\ UNCHANGED << program, format, at, currentOffset, sections, dataBlocks, jumpsToHere,
                    file, offset, listing >>

EndSection ==
    /\ pc = "layout" /\ at[1] <= Len(program) /\ at[2] = Len(Enumerated(program, at[1])) + 1
    /\ sections' = [sections EXCEPT ![at[1]].size = currentOffset]
    /\ at' = IF at[1] < Len(program) THEN << at[1] + 1, 0 >> ELSE << 1, 1 >>
    /\ pc' = IF at[1] < Len(program) THEN "layout" ELSE "fill"
    /\ UNCHANGED << program, format, currentOffset, dataBlocks, jumpsToHere, file, offset, listing >>

----------------------------------------------------------------------------
(* Second pass: the block and its entry in the list are found by counting. *)

FillJump(in, jump, realOffset) ==
    [in EXCEPT ![jump.section].buffer = Write(@, jump.at, AddressBytes(realOffset))]

FillBlock ==
    /\ pc = "fill" /\ at[1] <= Len(AllBlocks(program))
    /\ LET id         == AllBlocks(program)[at[1]]
           realOffset == dataBlocks[at[1]] + sections[id[1]].start
           jumps      == jumpsToHere[id]
           filled[k \in 0 .. Len(jumps)] ==
               IF k = 0 THEN sections ELSE FillJump(filled[k - 1], jumps[k], realOffset)
       IN  sections' = filled[Len(jumps)]
    /\ at' = << at[1] + 1, 1 >>
    /\ UNCHANGED << program, format, pc, currentOffset, dataBlocks, jumpsToHere, file, offset, listing >>

EndFill ==
    /\ pc = "fill" /\ at[1] = Len(AllBlocks(program)) + 1
    /\ pc' = "write"
    /\ at' = << 1, 1 >>
    /\ UNCHANGED << program, format, currentOffset, sections, dataBlocks, jumpsToHere, file, offset, listing >>

----------------------------------------------------------------------------
(* The file *)

Data(s) == Read(sections[s].buffer, 0, sections[s].size)

\* One section after the other, whatever their addresses.
WriteBinary ==
    /\ pc = "write" /\ format = "BINARY"
    /\ file' = file \o Data(at[1])
    /\ at' = << at[1] + 1, 1 >>
    /\ pc' = IF at[1] < Len(program) THEN "write" ELSE "done"
    /\ UNCHANGED << program, format, currentOffset, sections, dataBlocks, jumpsToHere, offset, listing >>

WriteELF ==
    /\ pc = "write" /\ format = "ELF"
    /\ LET flags(s) == Access(program[s].name.text)
       IN  file' = WriteToStream(sections[1].start,
                       [s \in 1 .. Len(program) |-> ProgramSection(sections[s].start, Data(s), flags(s))],
                       [s \in 1 .. Len(program) |-> Section(program[s].name, sections[s].start,
                                                            sections[s].size, flags(s))])
    /\ pc' = "done"
    /\ UNCHANGED << program, format, at, currentOffset, sections, dataBlocks, jumpsToHere, offset, listing >>

----------------------------------------------------------------------------
(* Disassembler::Disassemble, on a flat file, until an error or its end. *)

Disassemble ==
    /\ pc = "done" /\ format = "BINARY"
    /\ offset < Len(file)
    /\ LET decoded == DecodeInstruction(file, offset)
       IN  /\ decoded.ok
           /\ offset' = decoded.next
           /\ listing' = Append(listing, [ins  |-> decoded.ins,
                                          text |-> [i \in 1 .. Len(decoded.ins.operands) |->
                                                       StringifyOperand(decoded.ins.operands[i])]])
    /\ UNCHANGED assembler

----------------------------------------------------------------------------

Init ==
    /\ program \in Programs
    /\ format \in {"BINARY", "ELF"}
    /\ pc = "layout"
    /\ at = << 1, 0 >>
    /\ currentOffset = 0
    /\ sections = << >>
    /\ dataBlocks = << >>
    /\ jumpsToHere = [id \in ToSet(AllBlocks(program)) |-> << >>]
    /\ file = << >>
    /\ offset = 0
    /\ listing = << >>

Next ==
    \/ StartSection \/ StartBlock
    \/ EmitInstruction \/ EmitData \/ EmitReference \/ EmitAlignment \/ EmitSkip
    \/ Refuse \/ EndSection
    \/ FillBlock \/ EndFill
    \/ WriteBinary \/ WriteELF
    \/ Disassemble

Spec == Init /\ [][Next]_vars

----------------------------------------------------------------------------
(* Properties *)

BlockAddress(id) ==
    sections[id[1]].start + dataBlocks[CHOOSE k \in 1 .. Len(AllBlocks(program)) : AllBlocks(program)[k] = id]

\* What Linking speaks of: the addresses of the blocks and the sections, from when
\* both passes are through, and the file as its own headers tell to read it.
Unlinked == pc \in {"layout", "fill", "failed"}

LinkedWhere ==
    IF Unlinked THEN << >> ELSE [id \in ToSet(AllBlocks(program)) |-> BlockAddress(id)]

LinkedImage ==
    IF Unlinked THEN << >>
    ELSE [s \in 1 .. Len(program) |-> [start |-> sections[s].start, bytes |-> Data(s)]]

LinkedOutput ==
    IF pc # "done" THEN << >> ELSE IF format = "ELF" THEN Loaded(file) ELSE << file >>

LinkRefused == pc = "failed"

\* The assembler implements Linking: whatever way it takes, the sections it holds
\* before it writes are the linked program, with every address in its place, and
\* the file, read by its own headers, is that program.
Linker == INSTANCE Linking
    WITH where <- LinkedWhere, image <- LinkedImage, output <- LinkedOutput, refused <- LinkRefused

ImplementsLinking == Linker!Spec

\* What the source says, with addresses for the blocks it names: an operand
\* that is a label is an immediate, and a label alone in brackets an address.
ResolvedItem(item) ==
    IF item.type \in {"LABEL", "SUBLABEL"}
    THEN [type |-> "IMMEDIATE", data |-> AddressBytes(BlockAddress(item.data)), sign |-> FALSE]
    ELSE item

Resolved(op) ==
    CASE op.type \in {"LABEL", "SUBLABEL"} ->
            [type |-> "IMMEDIATE", size |-> QWORD, data |-> AddressBytes(BlockAddress(op.data))]
      [] op.type = "COMPLEX" /\ CompactType(op) = 3 ->
            [type |-> "MEMORY", size |-> op.size, data |-> ResolvedItem(op.data.base).data]
      [] op.type = "COMPLEX" /\ CompactType(op) # 3 ->
            [op EXCEPT !.data = [part \in DOMAIN @ |-> ResolvedItem(@[part])]]
      [] OTHER -> op

\* What the parser makes of `[5 +]`: a number alone in brackets, that it has
\* shortened for the operator.  The decoder takes eight bytes for it.
Dangling(op) ==
    /\ op.type = "COMPLEX" /\ CompactType(op) = 3
    /\ op.data.base.type = "IMMEDIATE" /\ Len(op.data.base.data) < 8

\* The items of the file, up to the first that is no instruction or has such an operand.
Code ==
    LET items == FlattenSeq([k \in 1 .. Len(AllBlocks(program)) |->
                                BlockAt(program, AllBlocks(program)[k])])
        ends  == {i \in 1 .. Len(items) :
                     \/ items[i].kind # "ins"
                     \/ \E j \in 1 .. Len(items[i].ins.operands) : Dangling(items[i].ins.operands[j])}
    IN  IF ends = {} THEN items ELSE SubSeq(items, 1, Min(ends) - 1)

Operand(i, j) == Resolved(Code[i].ins.operands[j])

Listed == {i \in 1 .. Len(listing) : i <= Len(Code)}

\* An instruction decodes as it was written: what the disassembler, and with it
\* the emulator, finds at its address has its opcode and its operands.
DecodesAsWritten ==
    /\ \A i \in Listed :
          /\ listing[i].ins.opcode = Code[i].ins.opcode
          /\ listing[i].ins.operands = [j \in 1 .. Len(Code[i].ins.operands) |-> Operand(i, j)]
    /\ pc = "done" /\ format = "BINARY" /\ Len(listing) < Len(Code)
          => offset < Len(file) /\ DecodeInstruction(file, offset).ok

MeansAsWritten(i, j) == GetValue(listing[i].ins.operands[j]) = Written(Operand(i, j))

NegativeNumber(op) ==
    CASE op.type = "IMMEDIATE" -> Negative(op)
      [] op.type = "COMPLEX"   -> \E part \in DOMAIN op.data : Negative(op.data[part])
      [] OTHER                 -> FALSE

\* The emulator computes the value or the address that was written, whichever of
\* the thirteen forms it travelled in; numbers below zero apart.
AddressAsWritten ==
    \A i \in Listed : \A j \in 1 .. Len(Code[i].ins.operands) :
        NegativeNumber(Operand(i, j)) \/ MeansAsWritten(i, j)

\* The same of every number.
NegativeAsWritten ==
    \A i \in Listed : \A j \in 1 .. Len(Code[i].ins.operands) : MeansAsWritten(i, j)

\* The printed text read as an operand again: [base * index + offset], and a
\* number alone in brackets the address itself.
TextValue(text) ==
    LET word(i)  == IF text[i][1] = "name" THEN Reg[text[i][2]] ELSE ValueOf(text[i][2])
        after(c) == LET i == SelectInSeq(text, LAMBDA w : w = c) IN IF i = 0 THEN << >> ELSE <<word(i + 1)>>
        sized    == text[1][1] = "size"
        size     == IF sized THEN text[1][2] ELSE QWORD
        first    == IF sized THEN 2 ELSE 1
        alone    == text[first + 1][1] = "hex" /\ after(<<"*">>) = << >> /\ after(<<"+">>) = << >>
    IN  IF text[first] = <<"[">>
        THEN << "memory",
                IF alone THEN word(first + 1)
                ELSE (word(first + 1) * (IF after(<<"*">>) = << >> THEN 1 ELSE after(<<"*">>)[1])
                        + (IF after(<<"+">>) = << >> THEN 0 ELSE after(<<"+">>)[1])) % Word, size >>
        ELSE IF text[first][1] = "name" THEN << "register", text[first][2], size >>
        ELSE << "value", word(first) >>

\* What the disassembler prints means what the emulator does; negated offsets apart.
ListingReads ==
    \A i \in 1 .. Len(listing) : \A j \in 1 .. Len(listing[i].text) :
        LET op    == listing[i].ins.operands[j]
            value == GetValue(op)
            read  == TextValue(listing[i].text[j])
        IN  \/ op.type = "COMPLEX" /\ op.data.offset.type = "REGISTER" /\ ~op.data.offset.sign
            \/ read = IF op.type = "IMMEDIATE" THEN SubSeq(value, 1, 2) ELSE value
=============================================================================
