------------------------------ MODULE MCParser ------------------------------
EXTENDS Parser

T(type, value) == [type |-> type, value |-> value]
Ins(name)      == T("INSTRUCTION", name)
Num(n)         == T("NUMBER", n)
Reg(name)      == T("REGISTER", name)
Op(symbol)     == T("OPERATOR", symbol)
Comma1         == T("COMMA", "")
Open           == T("LBRACKET", "")
Close          == T("RBRACKET", "")

Source(tokens, program, value) == [tokens |-> tokens, program |-> program, value |-> value]

----------------------------------------------------------------------------
(* Programs and the tokens they are written with. *)

NameOf(program, place) ==
    LET label == program[place[1]].labels[place[2]]
    IN  IF place[3] = 1 THEN T("LABEL", label.name) ELSE T("SUBLABEL", label.blocks[place[3]].name)

\* A number as it is read: the bytes hold it with its sign.
NumberOf(digits) ==
    LET n == FoldRight(LAMBDA d, rest : d + Modulus(1) * rest, digits, 0)
    IN  IF n >= Modulus(Len(digits)) \div 2 THEN n - Modulus(Len(digits)) ELSE n

PrintItem(program, item) ==
    CASE item.type = "REGISTER"  -> << Reg(RegisterNames[item.data]) >>
      [] item.type = "IMMEDIATE" -> << Num(NumberOf(item.data)) >>
      [] Named(item.type)        -> << NameOf(program, item.data) >>

\* A number below zero is an offset after a minus, or alone where an index is.
PrintOffset(program, op) ==
    LET item == op.data.offset
    IN  CASE item.type = "NONE" -> << >>
          [] item.type = "IMMEDIATE" /\ NumberOf(item.data) < 0 ->
                IF op.data.index.type = "NONE" THEN << Op("-"), Num(-NumberOf(item.data)) >>
                ELSE PrintItem(program, item)
          [] item.type = "REGISTER" /\ ~item.sign -> << Op("-") >> \o PrintItem(program, item)
          [] OTHER -> << Op("+") >> \o PrintItem(program, item)

PrintOperand(program, op) ==
    CASE op.type \in {"IMMEDIATE", "LABEL", "SUBLABEL"} -> PrintItem(program, op)
      [] op.type = "REGISTER" -> << T("SIZE", op.size) >> \o PrintItem(program, op)
      [] op.type = "MEMORY"   -> << T("SIZE", op.size), Open, Num(NumberOf(op.data)), Close >>
      [] op.type = "COMPLEX"  -> << T("SIZE", op.size), Open >> \o PrintItem(program, op.data.base)
                                   \o (IF op.data.index.type = "NONE" THEN << >>
                                       ELSE << Op("*") >> \o PrintItem(program, op.data.index))
                                   \o PrintOffset(program, op) \o << Close >>

PrintData(program, item) ==
    CASE item.kind = "ins" ->
            << Ins(InstructionNames[item.ins.opcode]) >>
              \o FlattenSeq([i \in 1 .. Len(item.ins.operands) |->
                     (IF i = 1 THEN << >> ELSE << Comma1 >>) \o PrintOperand(program, item.ins.operands[i])])
      [] item.kind = "block" -> << T("DIRECTIVE", "dq"), NameOf(program, item.block) >>
      [] item.kind = "align" -> << T("DIRECTIVE", "align"), Num(item.to) >>
      [] item.kind = "skip"  -> << T("DIRECTIVE", "skip"), Num(item.by) >>
      [] item.kind = "raw"   ->
            IF Len(item.bytes) = 2 THEN << T("DIRECTIVE", "dw"), Num(NumberOf(item.bytes)) >>
            ELSE << T("DIRECTIVE", "asciiz"), T("STRING", SubSeq(item.bytes, 1, Len(item.bytes) - 1)) >>

PrintBlock(program, block) ==
    (IF block.name = Unnamed THEN << >> ELSE << T("BSUBLABEL", block.name) >>)
      \o FlattenSeq([i \in 1 .. Len(block.items) |-> PrintData(program, block.items[i])])

PrintLabel(program, label) ==
    (IF label.name = Unnamed THEN << >> ELSE << T("BLABEL", label.name) >>)
      \o FlattenSeq([b \in 1 .. Len(label.blocks) |-> PrintBlock(program, label.blocks[b])])

PrintSection(program, s) ==
    (IF program[s].name = "text" THEN << >>
     ELSE << T("DIRECTIVE", "section"), T("SUBLABEL", program[s].name) >>)
      \o (IF program[s].org = NoOrg THEN << >> ELSE << T("DIRECTIVE", "org"), Num(program[s].org) >>)
      \o FlattenSeq([l \in 1 .. Len(program[s].labels) |-> PrintLabel(program, program[s].labels[l])])

Printed(program) ==
    Source(FlattenSeq([s \in 1 .. Len(program) |-> PrintSection(program, s)]), program, None)

----------------------------------------------------------------------------

Block(name, items)         == [name |-> name, items |-> items]
Label(name, blocks)        == [name |-> name, blocks |-> blocks]
Section(name, org, labels) == [name |-> name, org |-> org, labels |-> labels]

Instr(opcode, operands) == [kind |-> "ins", ins |-> [opcode |-> opcode, operands |-> operands]]
R(id)       == Present("REGISTER", id)
Plus(id)    == [R(id) EXCEPT !.sign = TRUE]
N(n)        == Present("IMMEDIATE", Digits(n, Shortest(n)))
L(place)    == Present("LABEL", place)
S(place)    == Present("SUBLABEL", place)
C(size, b, i, o) == [type |-> "COMPLEX", size |-> size, data |-> [base |-> b, index |-> i, offset |-> o]]

\* A program of one label `a` with a sub-label `x`, around the operands.
Start == << 1, 1, 1 >>
Inner == << 1, 1, 2 >>
Around(items) ==
    << Section("text", NoOrg,
               << Label("a", << Block(Unnamed, items), Block("x", << Instr(49, << >>) >>) >>) >>) >>

MCOperands ==
    {[type |-> "REGISTER", size |-> 1, data |-> 33], [type |-> "LABEL", size |-> QWORD, data |-> Start],
     [type |-> "SUBLABEL", size |-> QWORD, data |-> Inner]}
    \cup {[type |-> "IMMEDIATE", size |-> SizeOf(Shortest(n)), data |-> Digits(n, Shortest(n))] : n \in {1, -3, 100, 300}}
    \cup {[type |-> "MEMORY", size |-> 0, data |-> Digits(n, 8)] : n \in {1, 300}}
    \cup {C(2, b, i, o) : b \in {R(0), L(Start), S(Inner)}, i \in {NoItem, R(18), N(5), S(Inner)},
                          o \in {NoItem, Plus(40), R(15), N(7), N(-2), L(Start)}}
    \cup {C(1, N(b), NoItem, o) : b \in {5, 300}, o \in {Plus(2), R(3), N(100), S(Inner)}}
    \cup {C(0, N(5), i, NoItem) : i \in {R(3), N(2)}}

OperandPrograms ==
    {Around(<< Instr(16, << op >>) >>) : op \in MCOperands}
    \cup {Around(<< Instr(4, << p, q, p >>) >>) : p, q \in {C(2, R(0), N(5), R(15)), [type |-> "REGISTER", size |-> 3, data |-> 0],
                                                          [type |-> "LABEL", size |-> QWORD, data |-> Start]}}

NamePrograms == {Around(<< Instr(opcode, << [type |-> "REGISTER", size |-> 3, data |-> id] >>) >>) :
                    opcode \in DOMAIN InstructionNames \ {GetOpcode(name) : name \in WithoutOperands},
                    id \in {0, 16, 41}}

\* Sections, labels that name each other before and after, sub-labels of the same
\* name, empty ones, and every directive.
Ref(place) == [kind |-> "block", block |-> place]
Jmp(kind, place) == Instr(34, << [type |-> kind, size |-> QWORD, data |-> place] >>)
Layouts ==
    {<< Section("text", org,
           << Label("a", << Block(Unnamed, << Jmp("LABEL", far) >>), Block("x", << Jmp("SUBLABEL", <<1, 1, 3>>) >>),
                            Block("y", << >>) >>),
              Label("b", << Block(Unnamed, << Ref(near) >>), Block("x", << Jmp("SUBLABEL", <<1, 2, 2>>), Instr(50, << >>) >>) >>) >>),
        Section("data", 2,
           << Label(Unnamed, << Block(Unnamed, << [kind |-> "align", to |-> 8], item >>) >>),
              Label("c", << Block(Unnamed, << [kind |-> "skip", by |-> 3], Ref(far), Ref(<<2, 2, 2>>) >>),
                            Block("y", << >>) >>) >>) >> :
        org \in {NoOrg, 5}, far \in {<<2, 2, 1>>, <<1, 1, 1>>}, near \in {<<1, 1, 1>>, <<1, 2, 2>>},
        item \in {[kind |-> "raw", bytes |-> Digits(6, 2)], [kind |-> "raw", bytes |-> << 65, 32, 66, 0 >>]}}

----------------------------------------------------------------------------
(* Sentences of tokens, whether or not they say anything. *)

Alphabet == {T("SIZE", 0), Open, Close, Num(1), Num(-1), Reg("r1"), T("LABEL", "a"), Op("+"), Op("*")}

AnyOperands ==
    {Source(<< T("BLABEL", "a"), Ins("inc") >> \o tokens, None, None) : tokens \in BoundedSeq(Alphabet, 4)}

Phrases ==
    {<< T("DIRECTIVE", "section"), T("SUBLABEL", "data") >>, << T("DIRECTIVE", "section"), T("SUBLABEL", "x") >>,
     << T("BLABEL", "a") >>, << T("BLABEL", "b") >>, << T("BSUBLABEL", "x") >>,
     << Ins("nop") >>, << Ins("jmp"), T("LABEL", "a") >>, << Ins("jmp"), T("SUBLABEL", "x") >>, << Ins("push") >>,
     << T("DIRECTIVE", "dq"), T("LABEL", "b") >>, << T("DIRECTIVE", "org"), Num(1) >>, << T("DIRECTIVE", "ascii") >>,
     << T("DIRECTIVE", "section") >>, << Comma1 >>}

AnyStructure ==
    {Source(FlattenSeq(phrases), None, None) : phrases \in BoundedSeq(Phrases, 3)}

Strings == {Source(<< T("DIRECTIVE", "ascii"), T("STRING", chars) >>, None, None) :
               chars \in {<< 92, 122 >>, << 92, 120, 103, 48 >>, << 92 >>}}

----------------------------------------------------------------------------
(* Expressions, written with the parentheses that C would need. *)

Level(op) == CASE op \in {"*", "/", "%"} -> 2 [] op \in {"+", "-"} -> 3 [] op \in {"<<", ">>"} -> 4
               [] op = "&" -> 5 [] op = "^" -> 6 [] op = "|" -> 7

BitsOf(v) == {k \in 0 .. 15 : (v \div 2 ^ k) % 2 = 1}
FromBits(bits) == FoldSet(LAMBDA k, sum : sum + 2 ^ k, 0, bits)

\* Of unsigned numbers.
ValueOf(op, v, w) ==
    CASE op = "*" -> v * w [] op = "/" -> v \div w [] op = "%" -> v % w [] op = "+" -> v + w [] op = "-" -> v - w
      [] op = "<<" -> v * 2 ^ w [] op = ">>" -> v \div 2 ^ w
      [] op = "&" -> FromBits(BitsOf(v) \cap BitsOf(w)) [] op = "|" -> FromBits(BitsOf(v) \cup BitsOf(w))
      [] op = "^" -> FromBits((BitsOf(v) \cup BitsOf(w)) \ (BitsOf(v) \cap BitsOf(w)))

Wrapped(e, level) == IF e.level > level THEN << T("LPARAN", "") >> \o e.tokens \o << T("RPARAN", "") >> ELSE e.tokens

Atom(n, size) == [tokens |-> << Num(n) >>, level |-> 0, value |-> n % Modulus(size), size |-> size]
Not(e) == [tokens |-> << Op("~") >> \o Wrapped(e, 0), level |-> 1,
           value |-> (-1 - e.value) % Modulus(e.size), size |-> e.size]
Larger(e, f) == IF e.size > f.size THEN e.size ELSE f.size
Join(op, e, f) == [tokens |-> Wrapped(e, Level(op)) \o << Op(op) >> \o Wrapped(f, Level(op) - 1), level |-> Level(op),
                   value |-> ValueOf(op, e.value, f.value) % Modulus(Larger(e, f)), size |-> Larger(e, f)]

MCOperators == {"*", "/", "%", "+", "-", "<<", ">>", "&", "^", "|"}
Defined(op, f) == ~(op \in {"/", "%"} /\ f.value = 0) /\ ~(op \in {"<<", ">>"} /\ f.value >= 8)

Atoms == {Atom(n, 2) : n \in {2, 5, -3}}
Simple == Atoms \cup {Not(e) : e \in Atoms}
          \cup {Join(op, e, f) : op \in MCOperators, e \in Atoms, f \in {Atom(2, 2), Atom(5, 2)}}
Compound == {Join(op, e, f) : op \in MCOperators, e \in Simple, f \in {Atom(5, 2), Atom(2, 2)}}
            \cup {Join(op, e, f) : op \in MCOperators, e \in {Atom(-3, 2)}, f \in {s \in Simple : s.value \in 1 .. 7}}
            \cup {Not(e) : e \in Simple}

\* With numbers of one, two, four and eight bytes.
Joins(es, fs) ==
    UNION {{Join(op, e, f) : e \in es, f \in {s \in fs : Defined(op, s)}} : op \in MCOperators}
Sizes == {Atom(1, 1), Atom(-2, 1), Atom(5, 2), Atom(-3, 2), Atom(100, 4), Atom(-100, 4)}
Three == {Atom(1, 1), Atom(5, 2), Atom(100, 4)}
Mixed == Joins(Sizes, Sizes) \cup Joins(Sizes, {Atom(300, 8)}) \cup Joins({Atom(300, 8)}, Sizes)
         \cup Joins(Joins(Three, Three), Three) \cup Joins(Three, Joins({Atom(1, 1)}, Three))

Folded(e) == Source(<< T("LPARAN", "") >> \o e.tokens \o << T("RPARAN", "") >>, None, << e.value >>)

\* With numbers that are no numbers, too many and too few.
Malformed ==
    {Source(<< T("LPARAN", "") >> \o tokens, None, None) :
        tokens \in BoundedSeq({T("LPARAN", ""), T("RPARAN", ""), Num(100), Op("-"), Op("~"), T("LABEL", "a")}, 4)}

\* Twenty-five does not fit a number of two bytes, which are four bits here: with
\* these Sources ExpressionValue is violated.
MCWide ==
    {Source(<< T("LPARAN", ""), Num(5), Op("*"), Num(5), T("RPARAN", "") >>, None, << 25 >>)}

\* A dot alone names the first block, which stays empty and is deleted: with
\* these Sources ReferencesSurvive is violated.
MCDot ==
    {Source(<< T("BLABEL", "a"), T("BSUBLABEL", "x"), T("INSTRUCTION", "jmp"), T("SUBLABEL", Unnamed) >>,
            None, None)}

MCSources ==
    {Printed(p) : p \in OperandPrograms \cup NamePrograms \cup Layouts}
    \cup AnyOperands \cup AnyStructure \cup Strings
    \cup {Folded(e) : e \in Simple \cup Compound \cup Mixed} \cup Malformed

MCExpressions == {Folded(e) : e \in Simple \cup Compound}
=============================================================================
