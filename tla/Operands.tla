------------------------------ MODULE Operands ------------------------------
(***************************************************************************)
(* What the operands of an instruction mean: to the emulator, once they    *)
(* are decoded; to the programmer, as they are written; and what the       *)
(* disassembler prints of them.                                            *)
(***************************************************************************)
EXTENDS Encoding

CONSTANTS Word,            \* values are counted modulo Word; 2^64 in the code
          Reg              \* the value of each register

\* The numbers that GetRegisterPointer has a register for.
RegisterPointers == 0 .. 18 \cup 32 .. 41

ASSUME WordAssumption == Word \in Nat \ {0} /\ Reg \in [RegisterPointers -> 0 .. Word - 1]

----------------------------------------------------------------------------
(* The emulator *)

\* Little-endian bytes, zero-extended.
ValueOf(bytes) == FoldRight(LAMBDA byte, rest : (byte + 256 * rest) % Word, bytes, 0)

ItemValue(item) ==
    IF item.type = "REGISTER" THEN Reg[item.data] ELSE ValueOf(item.data)

\* An index without a base is multiplied by one, a base without an index too.
Base(c) ==
    IF c.base.type # "NONE" THEN ItemValue(c.base) ELSE IF c.index.type # "NONE" THEN 1 ELSE 0

Index(c) ==
    IF c.index.type # "NONE" THEN ItemValue(c.index) ELSE IF c.base.type # "NONE" THEN 1 ELSE 0

\* Without the sign.
OffsetAdded(c) == IF c.offset.type = "NONE" THEN 0 ELSE ItemValue(c.offset)

Offset(c) ==
    CASE c.offset.type = "NONE"                          -> 0
      [] c.offset.type = "REGISTER" /\ ~c.offset.sign    -> (Word - ItemValue(c.offset)) % Word
      [] OTHER                                           -> ItemValue(c.offset)

Address(op) ==
    IF op.type = "MEMORY" THEN ValueOf(op.data)
    ELSE (Base(op.data) * Index(op.data) + Offset(op.data)) % Word

\* GetValue, where the instruction only reads the operand: a memory operand is
\* a read at its address.
GetValue(op) ==
    CASE op.type = "REGISTER"  -> <<"register", op.data, op.size>>
      [] op.type = "IMMEDIATE" -> <<"value", ValueOf(op.data), op.size>>
      [] OTHER                 -> <<"memory", Address(op), op.size>>

----------------------------------------------------------------------------
(* As written.  The parser keeps a number as the shortest bytes that hold it  *)
(* with its sign.                                                            *)

Signed(bytes) ==
    IF Last(bytes) > 127 /\ Len(bytes) = 1 THEN (ValueOf(bytes) - 256) % Word ELSE ValueOf(bytes)

Negative(item) == item.type = "IMMEDIATE" /\ Len(item.data) = 1 /\ item.data[1] > 127

WrittenItem(item) ==
    CASE item.type = "NONE"      -> 0
      [] item.type = "REGISTER"  -> IF item.sign THEN Reg[item.data] ELSE (Word - Reg[item.data]) % Word
      [] item.type = "IMMEDIATE" -> Signed(item.data)

\* [base * index + offset], where what is not written is left out.
WrittenAddress(c) ==
    LET Or1(item) == IF item.type = "NONE" THEN 1 ELSE WrittenItem([item EXCEPT !.sign = TRUE])
    IN  (Or1(c.base) * Or1(c.index) + WrittenItem(c.offset)) % Word

Written(op) ==
    CASE op.type = "REGISTER"  -> <<"register", op.data, op.size>>
      [] op.type = "IMMEDIATE" -> <<"value", Signed(op.data), op.size>>
      [] op.type = "MEMORY"    -> <<"memory", ValueOf(op.data), op.size>>
      [] OTHER                 -> <<"memory", WrittenAddress(op.data), op.size>>

----------------------------------------------------------------------------
(* The disassembler *)

ItemText(item) ==
    IF item.type = "REGISTER" THEN <<"name", item.data>> ELSE <<"hex", item.data>>

PartText(item, sign) == IF item.type = "NONE" THEN << >> ELSE sign \o << ItemText(item) >>

\* Without the index where an offset follows.
ComplexTextWithoutIndex(c) ==
    PartText(c.base, << >>)
      \o IF c.offset.type = "NONE" THEN PartText(c.index, << <<"*">> >>)
         ELSE PartText(c.offset, << <<"+">> >>)

\* Every offset is joined by a plus, whatever its sign.
ComplexText(c) ==
    PartText(c.base, << >>) \o PartText(c.index, << <<"*">> >>) \o PartText(c.offset, << <<"+">> >>)

\* StringifyOperand, one element to a word.  The size of a QWORD register and
\* of an immediate is left out.
StringifyOperand(op) ==
    LET size == IF op.type = "IMMEDIATE" \/ (op.type = "REGISTER" /\ op.size = QWORD)
                THEN << >> ELSE << <<"size", op.size>> >>
    IN  size \o
        CASE op.type = "REGISTER"  -> << <<"name", op.data>> >>
          [] op.type = "IMMEDIATE" -> << <<"hex", op.data>> >>
          [] op.type = "MEMORY"    -> << <<"[">>, <<"hex", op.data>>, <<"]">> >>
          [] OTHER                 -> << <<"[">> >> \o ComplexText(op.data) \o << <<"]">> >>
=============================================================================
