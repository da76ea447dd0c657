------------------------------- MODULE Parser -------------------------------
(***************************************************************************)
(* The parser of the assembler.  SimplifyExpressions replaces whatever     *)
(* stands in parentheses by its value.  parse() then goes through the      *)
(* tokens twice: the first scan makes the sections, the labels and the     *)
(* blocks, so that a name may be used before it stands anywhere; the       *)
(* second walks through them again and fills the blocks, holding pointers  *)
(* to where it is.  At the end it deletes what stayed empty, while         *)
(* operands and directives point to labels and blocks.                     *)
(*                                                                         *)
(* A token is [type, value].  Sections, labels and blocks stand in lists   *)
(* and a pointer to one is its position: << s >>, << s, l >>, << s, l, b >>.   *)
(* An item of a block is one of those of Linking, or a directive that      *)
(* awaits its argument.                                                    *)
(***************************************************************************)
EXTENDS Encoding, Expressions, TLC

CONSTANT Sources           \* [tokens, program, value]: what is parsed, and what it says

VARIABLES
    source, behind,        \* the source, and the bits behind a number in the heap
    pc,                    \* "simplify", "scan", "parse", "clean", "done", "failed"
    index,                 \* of the next token
    parenDepth, expressionTokens, m_tokens,
    sections,              \* m_sections: [name, org, labels] with [name, refCount, blocks]
    m_labels,              \* the named labels in the order of the source
    currentSection, currentLabel, currentBlock,
    currentData,           \* the item, or << >>
    currentOperand,        \* its position in the instruction; 0 is nullptr
    inDirective,           \* the directive that awaits its argument, or ""
    inInstruction, inOperand

simplifyVars == << parenDepth, expressionTokens, m_tokens >>
currentVars  == << currentSection, currentLabel, currentBlock >>
operandVars  == << currentData, currentOperand, inInstruction, inOperand >>
vars == << source, behind, pc, index, simplifyVars, sections, m_labels, currentVars,
           operandVars, inDirective >>

NoOrg   == -1
Unnamed == ""

----------------------------------------------------------------------------
(* Names *)

Numbered(first, names) == [k \in first .. first + Len(names) - 1 |-> names[k - first + 1]]

\* GetInstructionName and GetRegisterName of the disassembler.
InstructionNames ==
    Numbered(0, << "add", "sub", "mul", "div", "smul", "sdiv", "or", "nor", "xor", "xnor", "and",
                   "nand", "not", "shl", "shr", "cmp", "inc", "dec" >>)
    @@ Numbered(32, << "ret", "call", "jmp", "jc", "jnc", "jz", "jnz", "jl", "jle", "jnl", "jnle" >>)
    @@ Numbered(48, << "mov", "nop", "hlt", "push", "pop", "pusha", "popa", "int", "lidt", "iret",
                       "syscall", "sysret", "enteruser" >>)

RegisterNames ==
    Numbered(0, << "r0", "r1", "r2", "r3", "r4", "r5", "r6", "r7", "r8", "r9", "r10", "r11", "r12",
                   "r13", "r14", "r15", "scp", "sbp", "stp" >>)
    @@ Numbered(32, << "cr0", "cr1", "cr2", "cr3", "cr4", "cr5", "cr6", "cr7", "sts", "ip" >>)

Aliases == [jnge |-> "jl", jng |-> "jle", jge |-> "jnl", jg |-> "jnle"]

\* The tables the parser looks a name up in, whose numbers are those of the enums.
\* A name that is not in it, which the lexer lets pass when it begins an
\* instruction's name, is put in with a zero and so is `add`.
GetOpcode(name) ==
    LET plain   == IF name \in DOMAIN Aliases THEN Aliases[name] ELSE name
        numbers == {opcode \in DOMAIN InstructionNames : InstructionNames[opcode] = plain}
    IN  IF numbers = {} THEN 0 ELSE CHOOSE opcode \in numbers : TRUE

GetRegister(name) == CHOOSE id \in DOMAIN RegisterNames : RegisterNames[id] = name

WithoutOperands == {"ret", "nop", "hlt", "pusha", "popa", "iret", "syscall", "sysret"}

----------------------------------------------------------------------------
(* SimplifyExpressions *)

Simplifying ==
    /\ pc = "simplify" /\ index <= Len(source.tokens)
    /\ index' = index + 1
    /\ UNCHANGED << source, behind, sections, m_labels, currentVars, operandVars, inDirective >>

Token == source.tokens[index]

PassToken ==
    /\ Simplifying
    /\ parenDepth = 0 /\ Token.type # "LPARAN"
    /\ m_tokens' = Append(m_tokens, Token)
    /\ UNCHANGED << pc, parenDepth, expressionTokens >>

OpenExpression ==
    /\ Simplifying
    /\ parenDepth = 0 /\ Token.type = "LPARAN"
    /\ parenDepth' = 1
    /\ expressionTokens' = << >>
    /\ UNCHANGED << pc, m_tokens >>

CollectToken ==
    /\ Simplifying
    /\ parenDepth > 0 /\ ~(Token.type = "RPARAN" /\ parenDepth = 1)
    /\ parenDepth' = parenDepth + CASE Token.type = "LPARAN" -> 1
                                    [] Token.type = "RPARAN" -> -1
                                    [] OTHER -> 0
    /\ expressionTokens' = Append(expressionTokens,
                                  IF Token.type = "NUMBER" THEN Literal(Token.value) ELSE Token)
    /\ UNCHANGED << pc, m_tokens >>

\* A single number goes through its bytes and back, and comes out unsigned.
CloseExpression ==
    /\ Simplifying
    /\ parenDepth = 1 /\ Token.type = "RPARAN"
    /\ LET single == Len(expressionTokens) = 1 /\ expressionTokens[1].type = "NUMBER"
           result == IF single THEN expressionTokens ELSE SimplifyExpression(expressionTokens, behind)
       IN  IF result = Failure
           THEN pc' = "failed" /\ UNCHANGED m_tokens
           ELSE pc' = pc /\ m_tokens' = Append(m_tokens, [type |-> "NUMBER", value |-> result[1].value])
    /\ parenDepth' = 0
    /\ expressionTokens' = << >>

\* An expression that is still open is forgotten, and what it collected with it.
EndSimplify ==
    /\ pc = "simplify" /\ index = Len(source.tokens) + 1
    /\ pc' = "scan"
    /\ index' = 1
    /\ UNCHANGED << source, behind, simplifyVars, sections, m_labels, currentVars, operandVars, inDirective >>

----------------------------------------------------------------------------
(* The first scan *)

NewBlock(name)   == [name |-> name, items |-> << >>]
NewLabel(name)   == [name |-> name, refCount |-> 0, blocks |-> << NewBlock(Unnamed) >>]
NewSection(name) == [name |-> name, org |-> NoOrg, labels |-> << NewLabel(Unnamed) >>]

Tok == m_tokens[index]

Scanning ==
    /\ pc = "scan" /\ index <= Len(m_tokens)
    /\ index' = index + 1
    /\ UNCHANGED << source, behind, simplifyVars, currentVars, operandVars >>

LastLabel == << Len(sections), Len(Last(sections).labels) >>

ScanDirective ==
    /\ Scanning
    /\ inDirective = "" /\ Tok = [type |-> "DIRECTIVE", value |-> "section"]
    /\ inDirective' = "section"
    /\ UNCHANGED << pc, sections, m_labels >>

\* The name of a section is taken for one of a sub-label, for its dot.
ScanSection ==
    /\ Scanning
    /\ inDirective = "section"
    /\ IF Tok.type = "SUBLABEL"
       THEN sections' = Append(sections, NewSection(Tok.value)) /\ pc' = pc
       ELSE sections' = sections /\ pc' = "failed"
    /\ inDirective' = ""
    /\ UNCHANGED m_labels

ScanLabel ==
    /\ Scanning
    /\ inDirective = "" /\ Tok.type = "BLABEL"
    /\ sections' = [sections EXCEPT ![Len(sections)].labels = Append(@, NewLabel(Tok.value))]
    /\ m_labels' = Append(m_labels, << Len(sections), Len(Last(sections).labels) + 1 >>)
    /\ UNCHANGED << pc, inDirective >>

ScanSublabel ==
    /\ Scanning
    /\ inDirective = "" /\ Tok.type = "BSUBLABEL"
    /\ sections' = [sections EXCEPT ![LastLabel[1]].labels[LastLabel[2]].blocks = Append(@, NewBlock(Tok.value))]
    /\ UNCHANGED << pc, m_labels, inDirective >>

ScanOther ==
    /\ Scanning
    /\ inDirective = "" /\ Tok.type \notin {"BLABEL", "BSUBLABEL"}
    /\ Tok # [type |-> "DIRECTIVE", value |-> "section"]
    /\ UNCHANGED << pc, sections, m_labels, inDirective >>

\* A section without a name at the very end leaves the flag set, and the second
\* scan follows a null pointer.
EndScan ==
    /\ pc = "scan" /\ index = Len(m_tokens) + 1
    /\ pc' = IF inDirective = "" THEN "parse" ELSE "failed"
    /\ index' = 1
    /\ UNCHANGED << source, behind, simplifyVars, sections, m_labels, currentVars, operandVars, inDirective >>

----------------------------------------------------------------------------
(* Operands.  One that is being written is UNKNOWN after its size alone,      *)
(* POTENTIAL_MEMORY after the bracket, MEMORY after a number in brackets, and *)
(* then COMPLEX, with the part that comes next as its `stage`.               *)

NoOperand  == [type |-> "NONE", size |-> QWORD, data |-> << >>]
BadOperand == [type |-> "INVALID", size |-> QWORD, data |-> << >>]

Digits(n, width) == [i \in 1 .. width |-> (n \div Modulus(i - 1)) % Modulus(1)]

Present(kind, data) == [type |-> kind, data |-> data, sign |-> FALSE]
Complex(base) == [base |-> base, index |-> NoItem, offset |-> NoItem, stage |-> "base", sign |-> TRUE]

\* An item goes to the part whose turn it is, if that is empty.
Placed(op, item) ==
    LET part == op.data.stage
    IN  CASE op.type = "POTENTIAL_MEMORY" -> [op EXCEPT !.type = "COMPLEX", !.data = Complex(item)]
          [] op.type = "COMPLEX" /\ op.data[part].type = "NONE" -> [op EXCEPT !.data[part] = item]
          [] OTHER -> BadOperand

SizeOf(width) == CHOOSE size \in 0 .. 3 : Width(size) = width

\* Without the minus that stands before the number.
ComplexWithNumberUnsigned(op, n) ==
    LET c      == op.data
        number == Present("IMMEDIATE", Digits(n, Shortest(n)))
    IN  IF c.stage # "offset" /\ c[c.stage].type # "NONE"
        THEN IF n < 0 /\ c.offset.type = "NONE" /\ (c.stage = "base" => c.index.type = "NONE")
             THEN [op EXCEPT !.data.offset = number]
             ELSE BadOperand
        ELSE Placed(op, number)

\* A number below zero may follow a base or an index without an operator, and is
\* the offset then.
ComplexWithNumber(op, n) ==
    LET c      == op.data
        value  == IF c.stage = "offset" /\ ~c.sign THEN -n ELSE n
        number == Present("IMMEDIATE", Digits(value, Shortest(value)))
    IN  IF c.stage # "offset" /\ c[c.stage].type # "NONE"
        THEN IF value < 0 /\ c.offset.type = "NONE" /\ (c.stage = "base" => c.index.type = "NONE")
             THEN [op EXCEPT !.data.offset = number]
             ELSE BadOperand
        ELSE Placed(op, number)

WithNumber(op, n) ==
    CASE op.type = "NONE"    -> [type |-> "IMMEDIATE", size |-> SizeOf(Shortest(n)),
                                 data |-> Digits(n, Shortest(n))]
      [] op.type = "POTENTIAL_MEMORY" -> [op EXCEPT !.type = "MEMORY", !.data = Digits(n, 8)]
      [] op.type = "MEMORY"  -> ComplexWithNumber([op EXCEPT !.type = "COMPLEX",
                                    !.data = Complex(Present("IMMEDIATE", op.data))], n)
      [] op.type = "COMPLEX" -> ComplexWithNumber(op, n)
      [] OTHER               -> BadOperand

WithRegister(op, id) ==
    CASE op.type \in {"NONE", "UNKNOWN"} -> [op EXCEPT !.type = "REGISTER", !.data = id]
      [] op.type \in {"POTENTIAL_MEMORY", "COMPLEX"} -> Placed(op, Present("REGISTER", id))
      [] OTHER -> BadOperand

\* A label is the place of the label, a sub-label that of its block.
WithReference(op, kind, place) ==
    CASE place # << >> /\ op.type = "NONE" -> [op EXCEPT !.type = kind, !.data = place]
      [] place # << >> /\ op.type \in {"POTENTIAL_MEMORY", "COMPLEX"} -> Placed(op, Present(kind, place))
      [] OTHER -> BadOperand

\* The number in a MEMORY operand, in the shortest form now that it is a base.
Shortened(digits) ==
    LET value == FoldRight(LAMBDA d, rest : d + Modulus(1) * rest, digits, 0)
        n     == IF value < Modulus(8) \div 2 THEN value ELSE value - Modulus(8)
    IN  Present("IMMEDIATE", Digits(n, Shortest(n)))

WithOperator(op, symbol) ==
    LET complex == IF op.type = "MEMORY"
                   THEN [op EXCEPT !.type = "COMPLEX", !.data = Complex(Shortened(op.data))] ELSE op
    IN  CASE op.type \in {"MEMORY", "COMPLEX"} /\ symbol \in {"+", "-"}
                /\ complex.data.stage \in {"base", "index"} ->
                [complex EXCEPT !.data.stage = "offset", !.data.sign = symbol = "+",
                                !.data.index = IF complex.data.stage = "base" THEN NoItem ELSE @]
          [] op.type \in {"MEMORY", "COMPLEX"} /\ symbol = "*" /\ complex.data.stage = "base" ->
                [complex EXCEPT !.data.stage = "index"]
          [] OTHER -> BadOperand

WithSize(op, size) ==
    IF op.type = "NONE" THEN [type |-> "UNKNOWN", size |-> size, data |-> << >>] ELSE BadOperand

\* Whatever the operand held is forgotten.
WithBracket(op) == [op EXCEPT !.type = "POTENTIAL_MEMORY", !.data = << >>]

----------------------------------------------------------------------------
(* The second scan *)

BlockAt(id) == sections[id[1]].labels[id[2]].blocks[id[3]]
Current     == << currentSection, currentLabel, currentBlock >>

FirstNamed(list, name) == SelectInSeq(list, LAMBDA x : x.name = name)

FindLabel(name) ==
    LET k == SelectInSeq(m_labels, LAMBDA id : sections[id[1]].labels[id[2]].name = name)
    IN  IF k = 0 THEN << >> ELSE m_labels[k]

FindSublabel(name) ==
    LET b == FirstNamed(sections[currentSection].labels[currentLabel].blocks, name)
    IN  IF b = 0 THEN << >> ELSE << currentSection, currentLabel, b >>

SetItem(all, at, item) == [all EXCEPT ![at[1]].labels[at[2]].blocks[at[3]].items[at[4]] = item]
AddItem(all, item) ==
    [all EXCEPT ![currentSection].labels[currentLabel].blocks[currentBlock].items = Append(@, item)]
NextItem == Append(Current, Len(BlockAt(Current).items) + 1)

CurrentItem == BlockAt(currentData).items[currentData[4]]

CurrentOperand ==
    IF currentOperand = 0 THEN NoOperand ELSE CurrentItem.ins.operands[currentOperand]

Counted(all, label) == [all EXCEPT ![label[1]].labels[label[2]].refCount = @ + 1]

Parsing(types) ==
    /\ pc = "parse" /\ index <= Len(m_tokens)
    /\ Tok.type \in types
    /\ index' = index + 1
    /\ UNCHANGED << source, behind, pc, simplifyVars, m_labels >>

\* The directives whose item is in the block before its argument is known.
\* The size is that of their data, as far as it is known: that of a string is not.
DirectiveItems ==
    [db |-> 1, dw |-> 2, dd |-> 4, dq |-> 8, align |-> 8, skip |-> 8, ascii |-> 0, asciiz |-> 0]

\* An item whose argument has not come, and whose pointer to data is null.
Awaited == [kind |-> "awaited"]

StartDirective ==
    /\ Parsing({"DIRECTIVE"})
    /\ inDirective = "" /\ ~inOperand
    /\ inDirective' = Tok.value
    /\ inInstruction' = FALSE
    /\ IF Tok.value \in DOMAIN DirectiveItems
       THEN /\ sections' = AddItem(sections, Awaited)
            /\ currentData' = NextItem
       ELSE sections' = sections /\ currentData' = << >>
    /\ UNCHANGED << currentVars, currentOperand, inOperand >>

\* The argument of a directive.
Argument(types) ==
    /\ inDirective # ""
    /\ Parsing(types)
    /\ inDirective' = ""
    /\ UNCHANGED << currentOperand, inInstruction, inOperand >>

Fill(item) == sections' = SetItem(sections, currentData, item)

Backslash == 92
Escapes == (110 :> 10) @@ (116 :> 9) @@ (114 :> 13) @@ (48 :> 0) @@ (92 :> 92) @@ (39 :> 39) @@ (34 :> 34)
HexDigits == [c \in 48 .. 57 |-> c - 48] @@ [c \in 97 .. 102 |-> c - 87] @@ [c \in 65 .. 70 |-> c - 55]
Invalid == << -1 >>

\* The bytes of a string, its escape sequences resolved.
Unescaped(chars) ==
    LET hex(i) == /\ i + 3 <= Len(chars) /\ chars[i + 1] = 120
                  /\ {chars[i + 2], chars[i + 3]} \subseteq DOMAIN HexDigits
        rest[i \in 1 .. Len(chars) + 1] ==
            CASE i > Len(chars)            -> << >>
              [] i <= Len(chars) /\ chars[i] # Backslash -> << chars[i] >> \o rest[i + 1]
              [] i < Len(chars) /\ chars[i] = Backslash /\ chars[i + 1] \in DOMAIN Escapes ->
                    << Escapes[chars[i + 1]] >> \o rest[i + 2]
              [] i < Len(chars) /\ chars[i] = Backslash /\ hex(i) ->
                    << 16 * HexDigits[chars[i + 2]] + HexDigits[chars[i + 3]] >> \o rest[i + 4]
              [] OTHER                     -> Invalid
    IN  rest[1]

TextFits == inDirective \in {"ascii", "asciiz"} /\ Tok.type = "STRING" /\ Last(<< 0 >> \o Unescaped(Tok.value)) # -1

Text ==
    /\ Argument({"STRING"})
    /\ TextFits
    /\ Fill([kind  |-> "raw",
             bytes |-> Unescaped(Tok.value) \o IF inDirective = "asciiz" THEN << 0 >> ELSE << >>])
    /\ UNCHANGED << currentVars, currentData >>

\* The section is the next one of the list, whose name must be the same.
SectionFits ==
    /\ inDirective = "section" /\ currentSection < Len(sections)
    /\ sections[currentSection + 1].name = Tok.value

SelectSection ==
    /\ Argument({"SUBLABEL"})
    /\ SectionFits
    /\ currentSection' = currentSection + 1
    /\ currentLabel' = 1
    /\ currentBlock' = 1
    /\ currentData' = << >>
    /\ UNCHANGED sections

OriginFits ==
    inDirective = "org" /\ currentLabel = 1 /\ currentBlock = 1 /\ BlockAt(Current).items = << >>

SetOrigin ==
    /\ Argument({"NUMBER"})
    /\ OriginFits
    /\ sections' = [sections EXCEPT ![currentSection].org = Tok.value]
    /\ currentData' = << >>
    /\ UNCHANGED currentVars

DatumFits == inDirective \in {"db", "dw", "dd", "dq", "align", "skip"}
NameFits(place) == DatumFits /\ currentOperand = 0 /\ place # << >>

Datum ==
    /\ Argument({"NUMBER"})
    /\ DatumFits
    /\ Fill(CASE inDirective = "align" -> [kind |-> "align", to |-> Tok.value]
              [] inDirective = "skip"  -> [kind |-> "skip", by |-> Tok.value]
              [] OTHER -> [kind |-> "raw", bytes |-> Digits(Tok.value, DirectiveItems[inDirective])])
    /\ UNCHANGED << currentVars, currentData >>

\* The label is not counted.
LabelDatumUncounted ==
    /\ Argument({"LABEL"})
    /\ NameFits(FindLabel(Tok.value))
    /\ Fill([kind |-> "block", block |-> FindLabel(Tok.value)])
    /\ UNCHANGED << currentVars, currentData >>

\* Also as the argument of align and skip.
LabelDatum ==
    /\ Argument({"LABEL"})
    /\ NameFits(FindLabel(Tok.value))
    /\ LET label == FindLabel(Tok.value)
       IN  sections' = Counted(SetItem(sections, currentData, [kind |-> "block", block |-> label]), label)
    /\ UNCHANGED << currentVars, currentData >>

SublabelDatum ==
    /\ Argument({"SUBLABEL"})
    /\ NameFits(FindSublabel(Tok.value))
    /\ Fill([kind |-> "block", block |-> FindSublabel(Tok.value)])
    /\ UNCHANGED << currentVars, currentData >>

ArgumentFits ==
    CASE Tok.type = "STRING"   -> TextFits
      [] Tok.type = "NUMBER"   -> OriginFits \/ DatumFits
      [] Tok.type = "LABEL"    -> NameFits(FindLabel(Tok.value))
      [] Tok.type = "SUBLABEL" -> SectionFits \/ NameFits(FindSublabel(Tok.value))
      [] OTHER                 -> FALSE

----------------------------------------------------------------------------

\* A comma lets the next operand begin, and does nothing inside one.
Comma ==
    /\ inDirective = "" /\ inInstruction
    /\ Parsing({"COMMA"})
    /\ inOperand' = TRUE
    /\ UNCHANGED << sections, currentVars, currentData, currentOperand, inDirective, inInstruction >>

LabelOf(name) == FirstNamed(sections[currentSection].labels, name)

StartLabel ==
    /\ inDirective = "" /\ ~(inInstruction /\ inOperand)
    /\ Parsing({"BLABEL"})
    /\ LabelOf(Tok.value) # 0
    /\ currentLabel' = LabelOf(Tok.value)
    /\ currentBlock' = 1
    /\ inInstruction' = FALSE
    /\ UNCHANGED << sections, currentSection, currentData, currentOperand, inDirective, inOperand >>

StartSublabel ==
    /\ inDirective = "" /\ ~(inInstruction /\ inOperand)
    /\ Parsing({"BSUBLABEL"})
    /\ FindSublabel(Tok.value) # << >>
    /\ currentBlock' = FindSublabel(Tok.value)[3]
    /\ inInstruction' = FALSE
    /\ UNCHANGED << sections, currentSection, currentLabel, currentData, currentOperand, inDirective, inOperand >>

StartInstruction ==
    /\ inDirective = "" /\ ~inOperand
    /\ Parsing({"INSTRUCTION"})
    /\ sections' = AddItem(sections, [kind |-> "ins",
                                      ins |-> [opcode |-> GetOpcode(Tok.value), operands |-> << >>]])
    /\ currentData' = NextItem
    /\ inInstruction' = (Tok.value \notin WithoutOperands)
    /\ inOperand' = (Tok.value \notin WithoutOperands)
    /\ UNCHANGED << currentVars, currentOperand, inDirective >>

OperandTokens == {"SIZE", "LBRACKET", "NUMBER", "REGISTER", "LABEL", "SUBLABEL", "OPERATOR"}

Continued(op) ==
    CASE Tok.type = "SIZE"     -> WithSize(op, Tok.value)
      [] Tok.type = "LBRACKET" -> WithBracket(op)
      [] Tok.type = "NUMBER"   -> WithNumber(op, Tok.value)
      [] Tok.type = "REGISTER" -> WithRegister(op, GetRegister(Tok.value))
      [] Tok.type = "LABEL"    -> WithReference(op, "LABEL", FindLabel(Tok.value))
      [] Tok.type = "SUBLABEL" -> WithReference(op, "SUBLABEL", FindSublabel(Tok.value))
      [] Tok.type = "OPERATOR" -> WithOperator(op, Tok.value)

\* An operand that is a number, a register or a name alone ends with its token.
Ends(op) == op.type \in {"IMMEDIATE", "REGISTER", "LABEL", "SUBLABEL"}

OperandToken ==
    /\ inDirective = "" /\ inInstruction /\ inOperand
    /\ Parsing(OperandTokens)
    /\ Continued(CurrentOperand) # BadOperand
    /\ LET op       == Continued(CurrentOperand)
           operands == CurrentItem.ins.operands
           position == IF currentOperand = 0 THEN Len(operands) + 1 ELSE currentOperand
           changed  == SetItem(sections, currentData,
                           [CurrentItem EXCEPT !.ins.operands =
                               IF currentOperand = 0 THEN Append(operands, op)
                               ELSE [operands EXCEPT ![position] = op]])
       IN  /\ sections' = IF Tok.type = "LABEL" THEN Counted(changed, FindLabel(Tok.value)) ELSE changed
           /\ currentOperand' = IF Ends(op) THEN 0 ELSE position
           /\ inOperand' = ~Ends(op)
    /\ UNCHANGED << currentVars, currentData, inDirective, inInstruction >>

\* The operand ends and the flag stays.
EndOperandStill ==
    /\ inDirective = "" /\ inInstruction /\ inOperand
    /\ Parsing({"RBRACKET"})
    /\ CurrentOperand.type \in {"COMPLEX", "MEMORY"}
    /\ inOperand' = FALSE
    /\ UNCHANGED << sections, currentVars, currentData, currentOperand, inDirective, inInstruction >>

EndOperand ==
    /\ inDirective = "" /\ inInstruction /\ inOperand
    /\ Parsing({"RBRACKET"})
    /\ CurrentOperand.type \in {"COMPLEX", "MEMORY"}
    /\ currentOperand' = 0
    /\ inOperand' = FALSE
    /\ UNCHANGED << sections, currentVars, currentData, inDirective, inInstruction >>

Structure == {"COMMA", "DIRECTIVE", "BLABEL", "BSUBLABEL", "INSTRUCTION"}

\* Behind a whole operand nothing but a comma means anything, and nothing is said.
IgnoreToken ==
    /\ inDirective = "" /\ inInstruction /\ ~inOperand
    /\ index <= Len(m_tokens) /\ Parsing({Tok.type} \ Structure)
    /\ UNCHANGED << sections, currentVars, operandVars, inDirective >>

Acceptable ==
    IF inDirective # "" THEN ArgumentFits
    ELSE \/ Tok.type = "COMMA" /\ inInstruction
         \/ Tok.type \in {"DIRECTIVE", "INSTRUCTION"} /\ ~inOperand
         \/ Tok.type = "BLABEL" /\ ~(inInstruction /\ inOperand) /\ LabelOf(Tok.value) # 0
         \/ Tok.type = "BSUBLABEL" /\ ~(inInstruction /\ inOperand) /\ FindSublabel(Tok.value) # << >>
         \/ /\ Tok.type \notin Structure /\ inInstruction
            /\ \/ ~inOperand
               \/ Tok.type = "RBRACKET" /\ CurrentOperand.type \in {"COMPLEX", "MEMORY"}
               \/ Tok.type \in OperandTokens /\ Continued(CurrentOperand) # BadOperand

\* error() ends the program.
Refuse ==
    /\ pc = "parse" /\ index <= Len(m_tokens)
    /\ ~Acceptable
    /\ pc' = "failed"
    /\ UNCHANGED << source, behind, index, simplifyVars, sections, m_labels, currentVars,
                    operandVars, inDirective >>

\* Also where a directive still awaits its argument: its item stays without data,
\* and the assembler reads through the null pointer.
EndParse ==
    /\ pc = "parse" /\ index = Len(m_tokens) + 1
    /\ pc' = "clean"
    /\ UNCHANGED << source, behind, index, simplifyVars, sections, m_labels, currentVars,
                    operandVars, inDirective >>

----------------------------------------------------------------------------
(* What stayed empty goes: an unnamed block, but for the first of a label that *)
(* is used; an unnamed label without blocks; a section without labels.       *)

KeptBlocks(s, l) ==
    LET label == sections[s].labels[l]
        kept(b) == \/ label.blocks[b].items # << >>
                   \/ label.blocks[b].name # Unnamed
                   \/ b = 1 /\ label.refCount # 0
    IN  {b \in 1 .. Len(label.blocks) : kept(b)}

KeptLabels(s) ==
    {l \in 1 .. Len(sections[s].labels) : KeptBlocks(s, l) # {} \/ sections[s].labels[l].name # Unnamed}

KeptSections == {s \in 1 .. Len(sections) : KeptLabels(s) # {}}

\* The place of x when the list has closed up around what is kept, and what is
\* kept in the order it had.
Place(kept, x) == Cardinality({y \in kept : y <= x})
InOrder(kept)  == [i \in 1 .. Cardinality(kept) |-> CHOOSE x \in kept : Place(kept, x) = i]

\* Where a pointer leads when the lists have closed up: for a label, to its first
\* block.  Nowhere, when what it pointed to is gone.
Dangling == << >>
Moved(place) ==
    LET s == place[1]  l == place[2]
        blocks == IF Len(place) = 3 THEN {place[3]} \cap KeptBlocks(s, l) ELSE KeptBlocks(s, l)
    IN  IF blocks = {} THEN Dangling
        ELSE << Place(KeptSections, s), Place(KeptLabels(s), l),
                IF Len(place) = 3 THEN Place(KeptBlocks(s, l), place[3]) ELSE 1 >>

Named(type) == type \in {"LABEL", "SUBLABEL"}

MovedOperand(op) ==
    CASE Named(op.type) -> [op EXCEPT !.data = Moved(@)]
      [] op.type = "COMPLEX" ->
            [op EXCEPT !.data = [part \in {"base", "index", "offset"} |->
                IF Named(op.data[part].type) THEN [op.data[part] EXCEPT !.data = Moved(@)]
                ELSE [op.data[part] EXCEPT !.sign = /\ part = "offset" /\ op.data.offset.type = "REGISTER"
                                                    /\ op.data.sign]]]
      [] OTHER -> op

MovedItem(item) ==
    CASE item.kind = "ins"   -> [item EXCEPT !.ins.operands = [i \in DOMAIN @ |-> MovedOperand(@[i])]]
      [] item.kind = "block" -> [item EXCEPT !.block = Moved(@)]
      [] OTHER               -> item

\* What is kept, with the pointers following it.
CleanedBlock(block) ==
    [name |-> block.name, items |-> [n \in 1 .. Len(block.items) |-> MovedItem(block.items[n])]]

CleanedLabel(s, l) ==
    LET label == sections[s].labels[l]
        kept  == KeptBlocks(s, l)
    IN  [name |-> label.name,
         blocks |-> [k \in 1 .. Cardinality(kept) |-> CleanedBlock(label.blocks[InOrder(kept)[k]])]]

CleanedSection(s) ==
    LET kept == KeptLabels(s)
    IN  [name |-> sections[s].name, org |-> sections[s].org,
         labels |-> [j \in 1 .. Cardinality(kept) |-> CleanedLabel(s, InOrder(kept)[j])]]

\* The program, as the assembler takes it over.
Cleaned == [i \in 1 .. Cardinality(KeptSections) |-> CleanedSection(InOrder(KeptSections)[i])]

TwoAlike(list) == \E i, j \in 1 .. Len(list) : i < j /\ list[i].name = list[j].name

CleanUp ==
    /\ pc = "clean"
    /\ sections' = Cleaned
    /\ pc' = IF TwoAlike(Cleaned) THEN "failed" ELSE "done"
    /\ UNCHANGED << source, behind, index, simplifyVars, m_labels, currentVars, operandVars, inDirective >>

----------------------------------------------------------------------------

Init ==
    /\ source \in Sources
    /\ behind \in IF \E i \in DOMAIN source.tokens : source.tokens[i].type = "LPARAN" THEN {0, 1} ELSE {0}
    /\ pc = "simplify"
    /\ index = 1
    /\ parenDepth = 0 /\ expressionTokens = << >> /\ m_tokens = << >>
    /\ sections = << NewSection("text") >>
    /\ m_labels = << >>
    /\ currentSection = 1 /\ currentLabel = 1 /\ currentBlock = 1
    /\ currentData = << >> /\ currentOperand = 0
    /\ inDirective = "" /\ inInstruction = FALSE /\ inOperand = FALSE

Simplify == PassToken \/ OpenExpression \/ CollectToken \/ CloseExpression \/ EndSimplify
Scan     == ScanDirective \/ ScanSection \/ ScanLabel \/ ScanSublabel \/ ScanOther \/ EndScan
Parse ==
    \/ StartDirective \/ Text \/ SelectSection \/ SetOrigin \/ Datum \/ LabelDatum \/ SublabelDatum
    \/ Comma \/ StartLabel \/ StartSublabel \/ StartInstruction
    \/ OperandToken \/ EndOperand \/ IgnoreToken
    \/ Refuse \/ EndParse

Next == Simplify \/ Scan \/ Parse \/ CleanUp

Spec == Init /\ [][Next]_vars

----------------------------------------------------------------------------
(* Properties *)

None == << >>

\* What a source says is what the assembler gets: its sections, labels and blocks
\* in their places, every item in its block, every operand with its parts, and
\* every name standing for the block it names, though names are used before they
\* are defined and the lists close up behind what is deleted.
ParsesAsWritten ==
    source.program # None =>
        /\ pc # "failed"
        /\ pc = "done" => sections = source.program

PlacesOf(op) ==
    CASE Named(op.type) -> {op.data}
      [] op.type = "COMPLEX" -> {op.data[part].data : part \in {p \in {"base", "index", "offset"} :
                                                                     Named(op.data[p].type)}}
      [] OTHER -> {}

PlacesIn(item) ==
    CASE item.kind = "ins"   -> UNION {PlacesOf(item.ins.operands[i]) : i \in DOMAIN item.ins.operands}
      [] item.kind = "block" -> {item.block}
      [] OTHER               -> {}

\* Cleaning up deletes nothing an operand or a directive points to, whatever
\* tokens were accepted: the encoder follows these pointers.
ReferencesSurvive ==
    pc = "done" =>
        \A s \in DOMAIN sections : \A l \in DOMAIN sections[s].labels :
        \A b \in DOMAIN sections[s].labels[l].blocks :
        \A i \in DOMAIN sections[s].labels[l].blocks[b].items :
            Dangling \notin PlacesIn(sections[s].labels[l].blocks[b].items[i])

\* The pointers and flags of the second scan belong together, whatever the tokens:
\* an operand is only written at the end of the instruction that is last in the
\* current block, and never while a directive waits.
FlagsAgree ==
    pc = "parse" => /\ inOperand => inInstruction
                    /\ inInstruction => inDirective = ""
                    /\ currentOperand # 0 => inOperand

PointersFresh ==
    /\ FlagsAgree
    /\ pc = "parse" =>
        /\ inInstruction \/ (inDirective # "" /\ currentData # << >>) =>
              /\ SubSeq(currentData, 1, 3) = Current
              /\ currentData[4] = Len(BlockAt(Current).items)
        /\ inInstruction => CurrentItem.kind = "ins"
        /\ currentOperand # 0 => currentOperand = Len(CurrentItem.ins.operands)

OneSize ==
    \A i, j \in DOMAIN source.tokens :
        source.tokens[i].type = "NUMBER" /\ source.tokens[j].type = "NUMBER" =>
            Shortest(source.tokens[i].value) = Shortest(source.tokens[j].value)

ReplacedByValue == m_tokens = << [type |-> "NUMBER", value |-> source.value[1]] >>

\* An expression that is accepted is replaced by the value the rules of C give it,
\* with every number unsigned and an operation at the size of its larger operand:
\* when the numbers have one size, whatever the heap holds, and when they have
\* several, if the bytes behind the smaller ones happen to be zero.
ExpressionValue ==
    source.value # None /\ pc \notin {"simplify", "failed"} /\ (OneSize \/ behind = 0) =>
        ReplacedByValue

\* It is, whatever the bytes behind a number are.  It does not hold: the smaller
\* operand is read at the size of the larger one.
ExpressionDefined ==
    source.value # None /\ pc \notin {"simplify", "failed"} => ReplacedByValue

\* And every expression is accepted.
ExpressionsEvaluate ==
    source.value # None => /\ pc # "failed"
                           /\ pc = "scan" => ReplacedByValue
=============================================================================
