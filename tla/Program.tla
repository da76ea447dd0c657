------------------------------ MODULE Program -------------------------------
(***************************************************************************)
(* The parsed program, as the parser hands it over and as Linking speaks   *)
(* of it.  A program is a sequence of sections, [name, org, labels]; a     *)
(* label is a sequence of blocks, a block one of items.  A block is named  *)
(* by its section, its label and its number in it.                         *)
(***************************************************************************)
EXTENDS Encoding

NoOrg == -1
NOP   == 49

BlocksOf(p, s) ==
    FlattenSeq([l \in 1 .. Len(p[s].labels) |->
                  [b \in 1 .. Len(p[s].labels[l]) |-> << s, l, b >>]])

AllBlocks(p) == FlattenSeq([s \in 1 .. Len(p) |-> BlocksOf(p, s)])

BlockAt(p, id) == p[id[1]].labels[id[2]][id[3]]

\* The nested enumerations of a section, as one sequence: a block, its items.
Enumerated(p, s) ==
    LET ids == BlocksOf(p, s)
    IN  FlattenSeq([k \in 1 .. Len(ids) |->
                       << [kind |-> "begin", block |-> ids[k]] >> \o BlockAt(p, ids[k])])

Nops(n) == [i \in 1 .. n |-> NOP]

\* Every divisor but 1 is even: one bit is set, and zero has none.
PowerOfTwo(n) == n \in Nat \ {0} /\ \A d \in 2 .. n : n % d = 0 => d % 2 = 0

AddressBytes(address) ==
    [i \in 1 .. 8 |-> IF i <= 3 THEN (address \div 256 ^ (i - 1)) % 256 ELSE 0]

Access(name) == CASE name = ".text"                      -> "RX"
                  [] name \in {".rodata", ".rodata1"}    -> "R"
                  [] OTHER                               -> "RW"

----------------------------------------------------------------------------
(* What the parser hands over.  An operand of another type than these was     *)
(* left unfinished and is refused.  A base is always there, and only the      *)
(* register of an offset has a sign; the other signs are not looked at.       *)

IsSequence(s) == Len(s) \in Nat /\ s = [i \in 1 .. Len(s) |-> s[i]]

IsNumber(bytes) == IsSequence(bytes) /\ \E size \in 0 .. 3 : Len(bytes) = Width(size)

GoodItem(item, isOffset, blocks) ==
    /\ item = [type |-> item.type, data |-> item.data, sign |-> item.sign]
    /\ CASE item.type = "REGISTER"             -> item.data \in Nat /\ item.sign \in BOOLEAN
         [] item.type = "IMMEDIATE"            -> IsNumber(item.data)
         [] item.type \in {"LABEL", "SUBLABEL"} -> item.data \in blocks
         [] OTHER                              -> item = NoItem
    /\ item.type # "REGISTER" \/ ~isOffset => item.sign = FALSE

GoodOperand(op, blocks) ==
    /\ op = [type |-> op.type, size |-> op.size, data |-> op.data]
    /\ op.size \in 0 .. 3
    /\ op.type = "REGISTER"  => op.data \in Nat
    /\ op.type = "IMMEDIATE" => IsSequence(op.data) /\ Len(op.data) = Width(op.size)
    /\ op.type = "MEMORY"    => IsSequence(op.data) /\ Len(op.data) = 8
    /\ op.type \in {"LABEL", "SUBLABEL"} => op.data \in blocks /\ op.size = QWORD
    /\ op.type = "COMPLEX" =>
          /\ op.data = [base |-> op.data.base, index |-> op.data.index, offset |-> op.data.offset]
          /\ GoodItem(op.data.base, FALSE, blocks) /\ op.data.base.type # "NONE"
          /\ GoodItem(op.data.index, FALSE, blocks)
          /\ GoodItem(op.data.offset, TRUE, blocks)

GoodInstruction(ins, blocks) ==
    /\ ins.opcode \in 0 .. 255
    /\ IsSequence(ins.operands)
    /\ \A i \in 1 .. Len(ins.operands) : GoodOperand(ins.operands[i], blocks)

Good(item, blocks) ==
    CASE item.kind = "ins"   -> GoodInstruction(item.ins, blocks)
      [] item.kind = "raw"   -> IsSequence(item.bytes)
      [] item.kind = "block" -> item.block \in blocks
      [] item.kind = "align" -> item.to \in Nat
      [] item.kind = "skip"  -> item.by \in Nat
      [] OTHER               -> FALSE

GoodProgram(p) ==
    /\ IsSequence(p)
    /\ \A s \in 1 .. Len(p) :
          /\ p[s].org \in Nat \cup {NoOrg}
          /\ p[s].name.length \in Nat \ {0}
          /\ IsSequence(p[s].labels)
          /\ \A l \in 1 .. Len(p[s].labels) :
                /\ IsSequence(p[s].labels[l])
                /\ \A b \in 1 .. Len(p[s].labels[l]) : IsSequence(p[s].labels[l][b])
    /\ \A id \in ToSet(AllBlocks(p)) : \A i \in 1 .. Len(BlockAt(p, id)) :
          Good(BlockAt(p, id)[i], ToSet(AllBlocks(p)))
=============================================================================
