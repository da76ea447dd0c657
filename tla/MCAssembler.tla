---------------------------- MODULE MCAssembler -----------------------------
EXTENDS Assembler

MCReg == [id \in RegisterPointers |-> 3 + 5 * id]

Section1(items)  == << [name |-> [text |-> ".text", length |-> 5], org |-> NoOrg,
                        labels |-> << << << >>, items >> >>] >>
Here == << 1, 1, 2 >>

Register(id, size) == [type |-> "REGISTER", size |-> size, data |-> id]
Number(bytes) == [type |-> "IMMEDIATE", size |-> CHOOSE s \in 0 .. 3 : 2 ^ s = Len(bytes), data |-> bytes]
Memory(size)  == [type |-> "MEMORY", size |-> size, data |-> << 9, 1, 0, 0, 0, 0, 0, 0 >>]
LabelAt(id)   == [type |-> "LABEL", size |-> QWORD, data |-> id]

R(id)       == [type |-> "REGISTER", data |-> id, sign |-> FALSE]
Plus(id)    == [type |-> "REGISTER", data |-> id, sign |-> TRUE]
N(bytes)    == [type |-> "IMMEDIATE", data |-> bytes, sign |-> FALSE]
L(id)       == [type |-> "SUBLABEL", data |-> id, sign |-> FALSE]
C(size, b, i, o) == [type |-> "COMPLEX", size |-> size, data |-> [base |-> b, index |-> i, offset |-> o]]

Small == << 5 >>
Large == << 200, 1 >>
Minus == << 252 >>

\* One of every form, and the forms again with a label.
Plain == {Register(1, 3), Register(32, 0), Number(Small), Number(Large), LabelAt(Here), Memory(1)}
Complexes ==
    {C(0, R(1), NoItem, NoItem), C(1, L(Here), NoItem, NoItem),
     C(2, R(1), NoItem, Plus(2)), C(3, R(1), NoItem, R(2)),
     C(0, R(1), NoItem, N(Large)), C(1, N(Small), NoItem, Plus(16)),
     C(1, N(Large), NoItem, R(2)), C(2, N(Large), NoItem, N(Small)),
     C(3, N(Small), NoItem, N(Large)), C(3, L(Here), NoItem, N(Small)),
     C(2, R(1), R(2), NoItem), C(0, R(1), N(Large), NoItem), C(0, R(1), L(Here), NoItem),
     C(0, R(1), R(2), Plus(3)), C(1, R(1), R(2), N(Small)), C(2, R(3), N(Small), R(2)),
     C(3, R(3), N(Small), N(Large)), C(0, R(1), N(Large), N(Small)), C(0, R(1), N(Small), L(Here))}
Few == {Register(2, 2), Number(Large), Memory(3), C(1, L(Here), NoItem, N(Small)),
        C(3, R(1), NoItem, R(2)), C(0, R(1), N(Large), N(Small)), C(2, R(1), R(2), NoItem)}

Ins(opcode, operands) == [kind |-> "ins", ins |-> [opcode |-> opcode, operands |-> operands]]

\* A second instruction follows: it is found only where the first ends.
Single(ins) == Section1(<< ins, Ins(48, << Register(0, 3), Number(Small) >>) >>)

OneOperand   == {Single(Ins(16, << a >>)) : a \in Plain \cup Complexes}
TwoOperands  == {Single(Ins(0, << a, b >>)) : a \in Plain \cup Complexes, b \in Plain \cup Complexes}
ThreeOperands == {Single(Ins(4, << a, b, c >>)) : a \in Few, b \in Few, c \in Few}

Raw(bytes)  == [kind |-> "raw", bytes |-> bytes]
Ref(id)     == [kind |-> "block", block |-> id]
Align(to)   == [kind |-> "align", to |-> to]
Skip(by)    == [kind |-> "skip", by |-> by]
Named(text, length, org, labels) ==
    [name |-> [text |-> text, length |-> length], org |-> org, labels |-> labels]

Jmp(id) == Ins(33, << LabelAt(id) >>)

\* Sections with and without a place of their own, one of them empty, that name
\* each other's blocks forwards and backwards and through empty blocks.
Layouts ==
    { << Named(".text", 5, a, << << << Jmp(x) >>, << Jmp(<<1, 1, 1>>), Align(8) >> >>,
                                 << << >>, << Ins(0, << C(3, L(y), NoItem, R(2)), LabelAt(x) >>) >> >> >>),
         Named(".rodata", 7, b, IF empty THEN << << << >> >>, << << >> >> >>
                                ELSE << << << Ref(x), Skip(3) >> >>, << << Align(4), Ref(y), Raw(Small) >> >> >>),
         Named(".data", 5, c, << << << Raw(Large), Ref(<<1, 2, 2>>) >>, << Align(2), Ref(<<3, 1, 1>>) >> >> >>) >>
      : a \in {NoOrg, 5}, b \in {NoOrg, 300}, c \in {NoOrg, 70000},
        x \in {<<1, 1, 2>>, <<3, 1, 2>>}, y \in {<<2, 2, 1>>, <<1, 2, 1>>}, empty \in BOOLEAN }

\* What the assembler refuses: an index on a number, an operand too few, an
\* alignment that is no power of two.
Refused ==
    { Single(Ins(16, << C(0, N(Small), R(1), NoItem) >>)), Single(Ins(0, << Register(1, 3) >>)),
      Section1(<< Raw(Small), Align(6) >>) }

\* An operator with nothing behind it, after an instruction.
Unfinished ==
    { Section1(<< Ins(48, << Register(0, 3), Number(Small) >>),
                  Ins(16, << C(1, N(bytes), NoItem, NoItem) >>), Raw(Small) >>) : bytes \in {Small, Large} }

MCPrograms == Unfinished \cup OneOperand \cup TwoOperands \cup ThreeOperands \cup Layouts \cup Refused

\* A number below zero, as a value and as an offset.
MCNegative == {Single(Ins(16, << op >>)) :
                  op \in {Number(Minus), C(3, R(1), NoItem, N(Minus))}}
=============================================================================
