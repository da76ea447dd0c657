------------------------------- MODULE Lexer -------------------------------
(***************************************************************************)
(* Lexer (src/Assembler/src/Lexer.cpp) on the text the preprocessor leaves:*)
(* tokenize, one action per branch of its loop, AddToken, which finds the  *)
(* type of a token, and the reference points from which a token gets its   *)
(* file and line.                                                          *)
(***************************************************************************)
EXTENDS PreProcessor

CONSTANTS Letter, Digit,     \* sets of characters
          Lower,             \* the lower case of the letters that have one
          Instructions,      \* INSTRUCTIONS_STR: the names in order
          Reserved           \* type -> names: registers, directives, sizes

VARIABLES i,       \* the offset tokenize is at
          token,   \* the characters of the token that is read
          fresh,   \* startOfToken
          length,  \* currentOffsetInToken
          point,   \* currentReferencePointIndex
          tokens   \* m_tokens

lexVars == <<i, token, fresh, length, point, tokens>>

vars == <<ppVars, lexVars>>

(***************************************************************************)
(* AddToken: the type of a token.                                          *)
(***************************************************************************)
Lowered(word) ==
  [k \in DOMAIN word |-> IF word[k] \in DOMAIN Lower THEN Lower[word[k]] ELSE word[k]]

\* The offset in a name at which strstr finds the word.
OffsetIn(word, name) ==
  First({k \in 0 .. (Len(name) - Len(word)): SubSeq(name, k + 1, k + Len(word)) = word})

IsInstructionAnywhere(word) ==
  \E k \in DOMAIN Instructions: OffsetIn(word, Instructions[k]) # NotFound

(***************************************************************************)
(* IsInstruction looks at the first find in the string of all names: it    *)
(* has to begin a name.  Where it ends is looked at only when that is the  *)
(* end of the string, and the character there is never a blank.            *)
(***************************************************************************)
IsInstruction(word) ==
  LET in == First({k \in DOMAIN Instructions: OffsetIn(word, Instructions[k]) # NotFound})
  IN /\ in # NotFound
     /\ OffsetIn(word, Instructions[in]) = 0
     /\ ~(in = Len(Instructions) /\ word = Instructions[in])

Brackets == [b \in {"[", "]", "(", ")", ","} |->
               CASE b = "[" -> "LBRACKET" [] b = "]" -> "RBRACKET"
                 [] b = "(" -> "LPARAN" [] b = ")" -> "RPARAN" [] b = "," -> "COMMA"]

Operators == {"+", "-", "*", "|", "&", "^", "~", "/", "%", "<<", ">>"}

\* A name in front of a colon or behind a period, which the word may leave empty.
Named(word) ==
  LET from == IF word[1] = "." THEN 2 ELSE 1
      to == IF word[Len(word)] = ":" THEN Len(word) - 1 ELSE Len(word)
  IN SubSeq(word, from, to)

IsLabel(word) ==
  LET name == Named(word)
  IN \A k \in DOMAIN name: \/ name[k] \in Letter
                           \/ k > 1 /\ name[k] \in Digit
                           \/ k < Len(name) /\ name[k] = "_"

LabelType(word) ==
  LET sub == word[1] = "."
      begins == word[Len(word)] = ":"
  IN CASE sub /\ begins -> "BSUBLABEL" [] sub /\ ~begins -> "SUBLABEL"
       [] ~sub /\ begins -> "BLABEL" [] OTHER -> "LABEL"

\* Signed decimal digits, or a base and its digits.
IsNumber(word) ==
  LET based == Len(word) > 1 /\ word[1] = "0" /\ word[2] \in {"x", "b", "o"}
      signed == word[1] \in {"+", "-"}
      digits == SubSeq(word, IF based THEN 3 ELSE IF signed THEN 2 ELSE 1, Len(word))
      Legal == IF ~based THEN Digit
               ELSE CASE word[2] = "x" -> Digit \cup {"a", "b", "c", "d", "e", "f"}
                      [] word[2] = "b" -> {"0", "1"}
                      [] OTHER -> Digit \ {"8", "9"}
  IN /\ based \/ signed => digits # <<>>
     /\ \A k \in DOMAIN digits: digits[k] \in Legal

TypeOf(word) ==
  LET low == Lowered(word)
      group == {t \in DOMAIN Reserved: low \in Reserved[t]}
  IN CASE low \in Reserved["REGISTER"] -> "REGISTER"
       [] IsInstruction(low) -> "INSTRUCTION"
       [] low[1] \in DOMAIN Brackets -> Brackets[low[1]]
       [] group # {} -> CHOOSE t \in group: TRUE
       [] Len(low) = 1 /\ low[1] \in Operators -> "OPERATOR"
       [] low[1] = "\"" /\ low[Len(low)] = "\"" -> "STRING"
       [] IsLabel(low) -> LabelType(low)
       [] IsNumber(low) -> "NUMBER"
       [] OTHER -> "UNKNOWN"

KeepsCase == {"STRING", "LABEL", "SUBLABEL", "BLABEL", "BSUBLABEL"}

(***************************************************************************)
(* The line of a token: that of the reference point and the newlines from  *)
(* its offset to the token's, both included (GetLineDifference).           *)
(***************************************************************************)
LineDifference(t, src, dst) ==
  IF dst < src THEN 0
  ELSE Cardinality({k \in src .. dst: k < Len(t) /\ t[k + 1].c = NewLine})

\* A token whose characters begin at the offset "from", added when "seen" is the last offset.
Token(word, from, seen) ==
  LET type == TypeOf(word)
  IN [type |-> type,
      text |-> IF type \in KeepsCase THEN word ELSE Lowered(word),
      file |-> refs[point].file,
      line |-> refs[point].line + LineDifference(text, refs[point].offset, seen),
      from |-> from]

(***************************************************************************)
(* tokenize.                                                               *)
(***************************************************************************)
Char(k) == IF k < Len(text) THEN text[k + 1].c ELSE "end"

Blank == {" ", NewLine, "tab"}

Single == (DOMAIN Brackets \cup Operators) \ {"-", "<<", ">>"}

Lexing == pc = "lex" /\ i < Len(text)

\* The sign of a number is read with its digits.
Signs == Char(i) = "-" /\ Char(i + 1) \in Digit

Operates == Char(i) \in Single \cup {"<<", ">>"} \/ (Char(i) = "-" /\ ~Signs)

\* At most one reference point is passed for each character, none on a skipped blank.
Advance(next) ==
  point' = IF point < Len(refs) /\ next >= refs[point + 1].offset THEN point + 1 ELSE point

Read(next) ==
  /\ i' = next
  /\ Advance(next)
  /\ UNCHANGED ppVars

SkipBlank ==
  /\ Lexing /\ fresh
  /\ Char(i) \in Blank
  /\ i' = i + 1
  /\ UNCHANGED <<ppVars, token, fresh, length, point, tokens>>

Operator ==
  /\ Lexing /\ fresh
  /\ Operates
  /\ tokens' = Append(tokens, Token(<<Char(i)>>, i, i))
  /\ Read(i + 1)
  /\ UNCHANGED <<token, fresh, length>>

\* The first quote from the offset k on that has no backslash before it.
ClosingQuote(k) ==
  First({n \in k .. (Len(text) - 1): Char(n) = "\"" /\ Char(n - 1) # "\\"})

StringLiteral ==
  /\ Lexing /\ fresh
  /\ Char(i) = "\""
  /\ LET end == ClosingQuote(i + 1)
         word == Chars(Part(text, i, end + 1))
     IN /\ end # NotFound
        /\ tokens' = Append(tokens, Token(word, i, i))
        /\ Read(end + 1)
  /\ UNCHANGED <<token, fresh, length>>

Fail ==
  /\ pc' = "refused"
  /\ UNCHANGED <<program, frames, text, at, out, refs, defines, todo, lexVars>>

UnterminatedString == Lexing /\ fresh /\ Char(i) = "\"" /\ ClosingQuote(i + 1) = NotFound /\ Fail

(***************************************************************************)
(* A character literal becomes the number of its character: the token      *)
(* stands for the decimal digits.  Behind the closing quote one more       *)
(* character is passed over, whatever it is.                               *)
(***************************************************************************)
Escapes == {"n", "t", "r", "0", "\\", "'", "\""}

Literal == Char(i) = "'"

Hex == Digit \cup {"a", "b", "c", "d", "e", "f", "A", "B", "C", "D", "E", "F"}

\* The offset at which the literal has to end: behind a character or an escape.
LiteralEnd ==
  CASE Char(i + 1) # "\\" -> i + 2
    [] Char(i + 1) = "\\" /\ Char(i + 2) = "x" -> i + 5
    [] OTHER -> i + 3

LiteralLegal ==
  /\ LiteralEnd < Len(text)
  /\ Char(i + 1) # "'"
  /\ LiteralEnd = i + 3 => Char(i + 2) \in Escapes
  /\ LiteralEnd = i + 5 => {Char(i + 3), Char(i + 4)} \subseteq Hex
  /\ Char(LiteralEnd) = "'"

CharacterLiteral ==
  /\ Lexing /\ fresh
  /\ Literal /\ LiteralLegal
  /\ tokens' = Append(tokens,
       [Token(<<"0">>, i, LiteralEnd + 1) EXCEPT !.text = Chars(Part(text, i, LiteralEnd + 1))])
  /\ Read(LiteralEnd + 2)
  /\ UNCHANGED <<token, fresh, length>>

InvalidLiteral == Lexing /\ fresh /\ Literal /\ ~LiteralLegal /\ Fail

StartToken ==
  /\ Lexing /\ fresh
  /\ Char(i) \notin Blank \cup {"\"", "'"} /\ ~Operates
  /\ fresh' = FALSE
  /\ token' = Append(token, Char(i))
  /\ length' = length + 1
  /\ Read(i + 1)
  /\ UNCHANGED tokens

Whole == Token(token, i - length, i - length)

EndToken ==
  /\ Lexing /\ ~fresh
  /\ Char(i) \in Blank
  /\ tokens' = Append(tokens, Whole)
  /\ fresh' = TRUE /\ token' = <<>> /\ length' = 0
  /\ Read(i + 1)

EndTokenByOperator ==
  /\ Lexing /\ ~fresh
  /\ Operates
  /\ tokens' = tokens \o <<Whole, Token(<<Char(i)>>, i, i)>>
  /\ fresh' = TRUE /\ token' = <<>> /\ length' = 0
  /\ Read(i + 1)

EndTokenBySignLosing ==
  /\ Lexing /\ ~fresh
  /\ Signs
  /\ tokens' = Append(tokens, Whole)
  /\ fresh' = TRUE /\ token' = <<>> /\ length' = 0
  /\ i' = i + 1
  /\ UNCHANGED <<ppVars, point>>

\* A sign in front of a digit ends the token and begins the next; no point is passed.
EndTokenBySign ==
  /\ Lexing /\ ~fresh
  /\ Signs
  /\ tokens' = Append(tokens, Whole)
  /\ fresh' = TRUE /\ token' = <<"-">> /\ length' = 1
  /\ i' = i + 1
  /\ UNCHANGED <<ppVars, point>>

ExtendToken ==
  /\ Lexing /\ ~fresh
  /\ Char(i) \notin Blank /\ ~Operates /\ ~Signs
  /\ token' = Append(token, Char(i))
  /\ length' = length + 1
  /\ Read(i + 1)
  /\ UNCHANGED <<fresh, tokens>>

EndOfText ==
  /\ pc = "lex" /\ i >= Len(text)
  /\ pc' = "done"
  /\ tokens' = IF length = 0 THEN tokens
               ELSE Append(tokens, Token(token, Len(text) - length, Len(text) - length))
  /\ UNCHANGED <<program, frames, text, at, out, refs, defines, todo, i, token, fresh, length, point>>

Tokenize ==
  \/ SkipBlank \/ Operator \/ StringLiteral \/ UnterminatedString
  \/ CharacterLiteral \/ InvalidLiteral \/ StartToken \/ EndToken
  \/ EndTokenByOperator \/ EndTokenBySign \/ ExtendToken \/ EndOfText

Init ==
  /\ PreInit
  /\ i = 0 /\ token = <<>> /\ fresh = TRUE /\ length = 0
  /\ point = 1
  /\ tokens = <<>>

Next == (PreProcess /\ UNCHANGED lexVars) \/ Tokenize

Spec == Init /\ [][Next]_vars

-----------------------------------------------------------------------------
(* Properties *)

\* A macro whose value grows the text, or whose name is inside another's.
Grows(d) == Len(d.value) > Len(d.name)

Inside(d, e) == d.name # e.name /\ Occurrences(Cells(e.name), d.name) # {}

PlainMacros ==
  \A k \in DOMAIN defines:
    ~Grows(defines[k]) /\ \A l \in DOMAIN defines: ~Inside(defines[k], defines[l])

\* The character behind a character literal is none that counts.
LiteralsApart ==
  \A k \in DOMAIN tokens:
    tokens[k].text[1] = "'" => Char(tokens[k].from + Len(tokens[k].text)) \in Blank \cup {"end"}

\* Nothing in a string looks like a comment, and nothing in a word like a macro.
Marks == {";", "/*"}

WordsPlain ==
  \A k \in DOMAIN program.tokens:
    LET word == program.tokens[k][2]
    IN /\ Marks \cap ToSet(word) = {}
       /\ \A d \in DOMAIN defines: Occurrences(Cells(word), defines[d].name) = {}

Meant == [k \in DOMAIN tokens |-> <<tokens[k].type, tokens[k].text>>] = program.tokens

(***************************************************************************)
(* The tokens the parser is given are those the program was written to     *)
(* mean: the files in their places, nothing of a comment or of a macro's   *)
(* definition, every use of a macro as its value, and the words between    *)
(* split and classified, with nothing lost, moved or read twice by any of  *)
(* the passes over the buffer.  So for programs in which a character       *)
(* literal has a blank behind it, no string holds the mark of a comment,   *)
(* no longer word holds the name of a macro, and macros neither grow the   *)
(* text nor stand in one another's names.                                  *)
(***************************************************************************)
TokensAsWritten ==
  pc = "done" /\ PlainMacros /\ LiteralsApart /\ WordsPlain => Meant

(***************************************************************************)
(* docs/design.md, "String literals", "Character literals" and "Define     *)
(* macros", without these conditions: a program that means something is    *)
(* accepted and its tokens are those meant.                                *)
(***************************************************************************)
TokensMeant == pc \in {"done", "refused", "internal error", "crashed"} => pc = "done" /\ Meant

(***************************************************************************)
(* A removal at the very start of the program moves the first reference    *)
(* point out of the text: its offset is not before what is removed.        *)
(***************************************************************************)
StartsWithRemoval == program.files[Main][1] \in {";", "/*", "%define"}

(***************************************************************************)
(* An error is reported at the line it is on: in one file without block    *)
(* comments that does not begin with a removal, each token has the line it *)
(* was written on, through the removal of comments and macros before it,   *)
(* although the text the line is counted in is no longer the one written.  *)
(***************************************************************************)
LinesReported ==
  pc = "done" /\ PlainMacros /\ ~StartsWithRemoval
  /\ (\A k \in DOMAIN program.files[Main]: program.files[Main][k] \notin {"%include", "/*"}) =>
    \A k \in DOMAIN tokens:
      tokens[k].text[1] # "'" => tokens[k].line = text[tokens[k].from + 1].line

(***************************************************************************)
(* docs/design.md, "Define macros": `%define name value` to define a       *)
(* macro; "operations including macros are supported".                     *)
(***************************************************************************)
MacrosExpand == pc \notin {"internal error", "crashed"}

(***************************************************************************)
(* docs/design.md, "Comments": single line comments and multi-line         *)
(* comments, with no word on where in a program they may be.               *)
(***************************************************************************)
CommentsRemovable == pc # "internal error"
=============================================================================
