------------------------------ MODULE Encoding ------------------------------
(***************************************************************************)
(* LibArch: an instruction and its bytes.  EncodeInstruction is what the   *)
(* assembler calls for every instruction, DecodeInstruction what the       *)
(* emulator and the disassembler call for every address they reach.  The   *)
(* two know nothing of each other but the layout of the bytes.             *)
(*                                                                         *)
(* An operand is [type, size, data].  The data of a REGISTER is its        *)
(* number, of an IMMEDIATE or MEMORY its little-endian bytes, of a LABEL   *)
(* or SUBLABEL the block it names, of a COMPLEX its three items.  An item  *)
(* is [type, data, sign]; type "NONE" stands for `present` being false.    *)
(***************************************************************************)
EXTENDS Integers, Sequences, SequencesExt

Width(size) == 2 ^ size                  \* BYTE 0, WORD 1, DWORD 2, QWORD 3
QWORD == 3

NoItem == [type |-> "NONE", data |-> 0, sign |-> FALSE]

\* What EncodeInstruction leaves where an address will be filled in.
Placeholder == << 239, 190, 173, 222, 239, 190, 173, 222 >>

----------------------------------------------------------------------------
(* Opcodes *)

ThreeArguments == 2 .. 5
TwoArguments   == {0, 1} \cup 6 .. 11 \cup 13 .. 15 \cup {48}
OneArgument    == {12, 16, 17, 51, 52, 55, 56, 60} \cup 33 .. 42

GetArgCountForOpcode(opcode) ==
    CASE opcode \in ThreeArguments -> 3
      [] opcode \in TwoArguments   -> 2
      [] opcode \in OneArgument    -> 1
      [] OTHER                     -> 0

\* The numbers the switch of GetRegisterID has a case for.
RegisterIDs == 0 .. 18 \cup 32 .. 41

\* The comparison is of signed bytes: the numbers above 127 pass it.
ValidRegister(id) == id <= 41 \/ id > 127

----------------------------------------------------------------------------
(* Encoding *)

Extended == {7, 13}                      \* MEM_BASE_OFF_IMM2, MEM_BASE_IDX_OFF_REG_IMM2

IsRegister(item) == item.type \in {"NONE", "REGISTER"}

\* GetCompactOperandTypeFromComplex; -1 for the shapes it refuses.
CompactOfComplex(c) ==
    LET base   == IsRegister(c.base)
        index  == IsRegister(c.index)
        offset == IsRegister(c.offset)
    IN  CASE c.index.type # "NONE" /\ ~base -> -1
          [] c.index.type # "NONE" /\ base /\ c.offset.type # "NONE" ->
                IF index THEN (IF offset THEN 10 ELSE 11) ELSE (IF offset THEN 12 ELSE 13)
          [] c.index.type # "NONE" /\ base /\ c.offset.type = "NONE" -> IF index THEN 8 ELSE 9
          [] c.index.type = "NONE" /\ c.offset.type # "NONE" ->
                IF base THEN (IF offset THEN 4 ELSE 5) ELSE (IF offset THEN 6 ELSE 7)
          [] OTHER -> IF base THEN 2 ELSE 3

CompactType(op) ==
    CASE op.type = "COMPLEX"                -> CompactOfComplex(op.data)
      [] op.type = "MEMORY"                 -> 3
      [] op.type = "REGISTER"               -> 0
      [] op.type \in {"IMMEDIATE", "LABEL", "SUBLABEL"} -> 1
      [] OTHER                              -> -1

\* The size field of an item: a label takes the eight bytes of an address.
ItemSize(item) ==
    IF item.type = "IMMEDIATE"
    THEN CHOOSE s \in 0 .. 3 : Width(s) = Len(item.data)
    ELSE QWORD

\* With the size of the operand where that of the item belongs.
Imm0SizeOfOperand(op, stale) == IF op.type = "COMPLEX" THEN op.size ELSE QWORD

\* imm0Size.  `stale` is what it holds where no assignment is reached.
Imm0Size(op, stale) ==
    LET t == CompactType(op)
    IN  CASE t \in {6, 7}                    -> ItemSize(op.data.base)
          [] op.type = "COMPLEX" /\ t = 3    -> ItemSize(op.data.base)
          [] op.type = "MEMORY"              -> QWORD
          [] t \in {9, 12, 13}               -> ItemSize(op.data.index)
          [] t \in {5, 11}                   -> ItemSize(op.data.offset)
          [] t \in {0, 1}                    -> op.size
          [] OTHER                           -> stale

\* A BasicOperandInfo, or an ExtendedOperandInfo with imm1Size in its second byte.
OperandInfo(op, stale) ==
    << CompactType(op) + 16 * op.size + 64 * Imm0Size(op, stale) >>
      \o IF CompactType(op) \in Extended THEN << ItemSize(op.data.offset) >> ELSE << >>

\* All infos come first.  With one operand imm0Size may be unset; with more the
\* union is cleared before.  Two extended types alike go into one structure,
\* whose two nested structures of twelve bits are padded to two bytes each, so
\* that it reads as the two apart.  The structures for three operands are never
\* chosen: the tests are made for each of the two extended types, and at least
\* one of these occurs no more than once among three operands.
Infos(ops, stale) ==
    FlattenSeq([i \in 1 .. Len(ops) |-> OperandInfo(ops[i], IF Len(ops) = 1 THEN stale ELSE 0)])

\* A field of the operand data: its bytes, and the block whose address they await.
Field(bytes)  == [bytes |-> bytes, awaits |-> << >>]
Await(block)  == [bytes |-> Placeholder, awaits |-> << block >>]

ItemFields(item, isOffset) ==
    CASE item.type = "NONE"      -> << >>
      [] item.type = "REGISTER"  -> << Field(<< item.data + IF isOffset /\ item.sign THEN 128 ELSE 0 >>) >>
      [] item.type = "IMMEDIATE" -> << Field(item.data) >>
      [] OTHER                   -> << Await(item.data) >>

OperandFields(op) ==
    CASE op.type = "REGISTER"                -> << Field(<< op.data >>) >>
      [] op.type \in {"IMMEDIATE", "MEMORY"} -> << Field(op.data) >>
      [] op.type = "COMPLEX"                 -> ItemFields(op.data.base, FALSE)
                                                \o ItemFields(op.data.index, FALSE)
                                                \o ItemFields(op.data.offset, TRUE)
      [] OTHER                               -> << Await(op.data) >>

OperandRegisters(op) ==
    CASE op.type = "REGISTER" -> {op.data}
      [] op.type = "COMPLEX"  -> {op.data[i].data : i \in {j \in {"base", "index", "offset"} :
                                                               op.data[j].type = "REGISTER"}}
      [] OTHER                -> {}

Encodable(ins) ==
    /\ Len(ins.operands) = GetArgCountForOpcode(ins.opcode)
    /\ \A i \in 1 .. Len(ins.operands) : /\ CompactType(ins.operands[i]) # -1
                                         /\ OperandRegisters(ins.operands[i]) \subseteq RegisterIDs

\* The bytes written, and the jumps inserted into the blocks they wait for, at
\* their distance from the first byte of the instruction.
EncodeInstruction(ins, stale) ==
    LET head   == << ins.opcode >> \o Infos(ins.operands, stale)
        fields == FlattenSeq([i \in 1 .. Len(ins.operands) |-> OperandFields(ins.operands[i])])
        Before(k) == Len(head) + Len(FlattenSeq([j \in 1 .. k - 1 |-> fields[j].bytes]))
    IN  [bytes |-> head \o FlattenSeq([j \in 1 .. Len(fields) |-> fields[j].bytes]),
         jumps |-> {[at |-> Before(k), block |-> fields[k].awaits[1]] :
                        k \in {j \in 1 .. Len(fields) : fields[j].awaits # << >>}}]

----------------------------------------------------------------------------
(* Decoding *)

\* The `length` bytes at position `at` (counted from zero), as far as they go.
Bytes(stream, at, length) == SubSeq(stream, at + 1, at + length)

\* One operand info; `reserved` are the six upper bits of its second byte.
InfoAt(stream, at) ==
    LET first    == stream[at + 1]
        extended == first % 16 \in Extended
        second   == IF extended THEN stream[at + 2] ELSE 0
    IN  [type |-> first % 16, size |-> (first \div 16) % 4, imm0 |-> first \div 64,
         imm1 |-> second % 4, reserved |-> second \div 4,
         length |-> IF extended THEN 2 ELSE 1]

\* The marks of a structure for two or for three operands.  No encoder writes
\* them; behind them the decoder uses fields it never reads.
Combined(count, info) ==
    \/ count > 1 /\ info[1].reserved \div 4 \in Extended
    \/ count = 3 /\ (info[1].reserved \div 2) % 2 = 1
    \/ count = 3 /\ info[1].length = 1 /\ info[2].reserved \div 4 \in Extended

\* ConvertCompactToComplex: the kind of each item, and the size of an immediate.
Immediate(size) == << "IMMEDIATE", size >>
ConvertCompactToComplex(info) ==
    LET reg == << "REGISTER", 0 >>
        none == << "NONE", 0 >>
        Complex(b, i, o) == [base |-> b, index |-> i, offset |-> o]
    IN  CASE info.type = 2  -> Complex(reg, none, none)
          [] info.type = 4  -> Complex(reg, none, reg)
          [] info.type = 5  -> Complex(reg, none, Immediate(info.imm0))
          [] info.type = 6  -> Complex(Immediate(info.imm0), none, reg)
          [] info.type = 7  -> Complex(Immediate(info.imm0), none, Immediate(info.imm1))
          [] info.type = 8  -> Complex(reg, reg, none)
          [] info.type = 9  -> Complex(reg, Immediate(info.imm0), none)
          [] info.type = 10 -> Complex(reg, reg, reg)
          [] info.type = 11 -> Complex(reg, reg, Immediate(info.imm0))
          [] info.type = 12 -> Complex(reg, Immediate(info.imm0), reg)
          [] OTHER          -> Complex(reg, Immediate(info.imm0), Immediate(info.imm1))

KindLength(kind) ==
    CASE kind[1] = "NONE"     -> 0
      [] kind[1] = "REGISTER" -> 1
      [] OTHER                -> Width(kind[2])

\* The item of that kind at `at`; the sign is a bit of the register number.
ItemAt(stream, at, kind, isOffset) ==
    CASE kind[1] = "NONE" -> NoItem
      [] kind[1] = "IMMEDIATE" ->
            [type |-> "IMMEDIATE", data |-> Bytes(stream, at, Width(kind[2])), sign |-> FALSE]
      [] OTHER ->
            LET id   == stream[at + 1]
                sign == isOffset /\ id > 127
            IN  [type |-> "REGISTER", data |-> IF sign THEN id - 128 ELSE id, sign |-> sign]

OperandLength(info) ==
    LET shape == ConvertCompactToComplex(info)
    IN  CASE info.type = 0 -> 1
          [] info.type = 1 -> Width(info.size)
          [] info.type = 3 -> 8
          [] OTHER -> KindLength(shape.base) + KindLength(shape.index) + KindLength(shape.offset)

OperandAt(stream, at, info) ==
    LET shape    == ConvertCompactToComplex(info)
        atIndex  == at + KindLength(shape.base)
        atOffset == atIndex + KindLength(shape.index)
        complex  == [base   |-> ItemAt(stream, at, shape.base, FALSE),
                     index  |-> ItemAt(stream, atIndex, shape.index, FALSE),
                     offset |-> ItemAt(stream, atOffset, shape.offset, TRUE)]
    IN  CASE info.type = 0 -> [type |-> "REGISTER", size |-> info.size, data |-> stream[at + 1]]
          [] info.type = 1 -> [type |-> "IMMEDIATE", size |-> info.size,
                               data |-> Bytes(stream, at, Width(info.size))]
          [] info.type = 3 -> [type |-> "MEMORY", size |-> info.size, data |-> Bytes(stream, at, 8)]
          [] OTHER         -> [type |-> "COMPLEX", size |-> info.size, data |-> complex]

NotDecoded == [ok |-> FALSE]

\* All infos come before all operand data.  A type of 14 or 15 and a register
\* number that is not known are errors; a stream that ends early, or a combined
\* structure, has no result that the code determines.
DecodeInstruction(stream, at) ==
    LET count  == GetArgCountForOpcode(stream[at + 1])
        info[i \in 1 .. 3] ==
            InfoAt(stream, at + 1 + (IF i > 1 THEN info[1].length ELSE 0)
                                  + (IF i > 2 THEN info[2].length ELSE 0))
        start[i \in 1 .. 4] ==
            IF i = 1 THEN at + 1 + (IF count > 0 THEN info[1].length ELSE 0)
                               + (IF count > 1 THEN info[2].length ELSE 0)
                               + (IF count > 2 THEN info[3].length ELSE 0)
                     ELSE start[i - 1] + OperandLength(info[i - 1])
        operands == [i \in 1 .. count |-> OperandAt(stream, start[i], info[i])]
    IN  IF /\ at + 1 + 2 * count <= Len(stream)
           /\ start[count + 1] <= Len(stream)
           /\ ~Combined(count, info)
           /\ \A i \in 1 .. count :
                 /\ info[i].type \notin {14, 15}
                 /\ \A r \in OperandRegisters(operands[i]) : ValidRegister(r)
        THEN [ok |-> TRUE, next |-> start[count + 1],
              ins |-> [opcode |-> stream[at + 1], operands |-> operands]]
        ELSE NotDecoded
=============================================================================
