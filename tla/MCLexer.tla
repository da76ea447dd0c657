------------------------------ MODULE MCLexer ------------------------------
(***************************************************************************)
(* Programs of a few lines.  A line is given as it is written and as the   *)
(* tokens it stands for; a program is every sequence of lines up to a      *)
(* length, and includes the file "b" where a line says so.                 *)
(***************************************************************************)
EXTENDS Lexer, TLC

Line(source, words) == [source |-> Append(source, "nl"), words |-> words]

Code ==
  {Line(<<"j", "l", " ", "r", "0">>,
        << <<"INSTRUCTION", <<"j", "l">>>>, <<"REGISTER", <<"r", "0">>>> >>),
   Line(<<"A", ":", " ", "j", "E", " ", ".", "t">>,
        << <<"BLABEL", <<"A", ":">>>>, <<"LABEL", <<"j", "E">>>>, <<"SUBLABEL", <<".", "t">>>> >>),
   Line(<<"[", "r", "0", "-", "t", "]">>,
        << <<"LBRACKET", <<"[">>>>, <<"REGISTER", <<"r", "0">>>>, <<"OPERATOR", <<"-">>>>,
           <<"LABEL", <<"t">>>>, <<"RBRACKET", <<"]">>>> >>),
   Line(<<"5", "-", "5", "tab", "d", "b", " ", "0", "x", "e">>,
        << <<"NUMBER", <<"5">>>>, <<"NUMBER", <<"-", "5">>>>, <<"DIRECTIVE", <<"d", "b">>>>,
           <<"NUMBER", <<"0", "x", "e">>>> >>)}

Literals ==
  {Line(<<"\"", "\\", "\"", " ", "t", "\"">>,
        << <<"STRING", <<"\"", "\\", "\"", " ", "t", "\"">>>> >>),
   Line(<<"'", "t", "'", " ", "(", "'", "\\", "x", "5", "e", "'">>,
        << <<"NUMBER", <<"'", "t", "'">>>>, <<"LPARAN", <<"(">>>>,
           <<"NUMBER", <<"'", "\\", "x", "5", "e", "'">>>> >>),
   Line(<<".", "t", ":", "-", "5", "<<", "5", ",", " ", "_">>,
        << <<"BSUBLABEL", <<".", "t", ":">>>>, <<"NUMBER", <<"-", "5">>>>,
           <<"OPERATOR", <<"<<">>>>, <<"NUMBER", <<"5">>>>, <<"COMMA", <<",">>>>,
           <<"UNKNOWN", <<"_">>>> >>),
   Line(<<"J", "L", "e", "t", " ", "a", "d", "d", "+", " ", "'", "\\", "n", "'">>,
        << <<"LABEL", <<"J", "L", "e", "t">>>>, <<"INSTRUCTION", <<"a", "d", "d">>>>,
           <<"OPERATOR", <<"+">>>>, <<"NUMBER", <<"'", "\\", "n", "'">>>> >>)}

\* Legal lines that the passes take for something else.
Behind == {Line(<<"'", "t", "'", ",", "r", "0">>,
                << <<"NUMBER", <<"'", "t", "'">>>>, <<"COMMA", <<",">>>>, <<"REGISTER", <<"r", "0">>>> >>)}

QuotedMarks == {Line(<<"\"", "t", c, "t", "\"">>, << <<"STRING", <<"\"", "t", c, "t", "\"">>>> >>): c \in Marks}

LongerWord == {Line(<<"m", "m", "t">>, << <<"LABEL", <<"m", "m", "t">>>> >>)}

Comments ==
  {Line(<<";", " ", "t">>, <<>>),
   Line(<<"t", ";", "t", "*/">>, << <<"LABEL", <<"t">>>> >>)}

BlockComments ==
  {Line(<<"/*", "t", "nl", "*/">>, <<>>),
   Line(<<"t", " ", "/*", "nl", "nl", "*/", "t">>,
        << <<"LABEL", <<"t">>>>, <<"LABEL", <<"t">>>> >>)}

Includes == {Line(<<"%include", "b", "\"">>,
                  << <<"LABEL", <<"t">>>>, <<"NUMBER", <<"5">>>> >>)}

\* The macro "mm": its definitions and its uses, whose words are those of its value.
Define(name, value) == [source |-> <<"%define">> \o name \o <<" ">> \o value \o <<"nl">>, words |-> <<>>]

Macro == {Define(<<"m", "m">>, <<"5">>)}

UseWords == << <<"LPARAN", <<"(">>>>, <<"NUMBER", <<"5">>>>, <<"OPERATOR", <<"+">>>>,
               <<"NUMBER", <<"5">>>>, <<"RPARAN", <<")">>>> >>

Uses2 == Line(<<"(", "m", "m", "+", "m", "m", ")">>, UseWords)

GrowingMacro == {Define(<<"m", "m">>, <<"5", "5", "5", "5">>),
                 Define(<<"m", "m">>, <<"5", "5", "5", "5", "5", "5", "5">>)}

InnerMacro == {Define(<<"m">>, <<"t">>)}

\* Lines that end the work of the assembler, and one that only ends the file.
Broken ==
  {[source |-> s, words |-> <<>>]:
     s \in {<<"%include", "b">>, <<"%include", "z", "\"">>, <<"/*", "t">>, <<"%define", "t">>,
            <<"%define", "t", " ", "t">>, <<"%define", " ", "5", "nl">>, <<"\"", "t", "nl">>,
            <<"'", "'", "'">>, <<"'", "\\", "t">>, <<";", "t">>}}

Program(lines) ==
  [files |-> (Main :> FlattenSeq([k \in DOMAIN lines |-> lines[k].source]))
             @@ ("b" :> <<"t", ";", "nl", "5">>),
   tokens |-> FlattenSeq([k \in DOMAIN lines |-> lines[k].words])]

Programs(lines, n) == {Program(p): p \in UNION {[1 .. k -> lines]: k \in 1 .. n}}

Layout == Comments \cup BlockComments \cup Includes

UsedLines == {Uses2} \cup Comments \cup BlockComments

MCSources ==
  Programs(Code \cup Literals \cup Behind \cup QuotedMarks \cup Layout, 2)
  \cup {Program(<<c>> \o p): c \in Code, p \in [1 .. 2 -> Comments \cup BlockComments \cup Includes \cup Code]}
  \cup {Program(<<a, d, b, e>>): a \in Code \cup Comments, d \in Macro \cup GrowingMacro,
                                  b \in UsedLines \cup InnerMacro \cup LongerWord, e \in {Uses2}}
  \cup {Program(<<a, e>>): a \in Code \cup Layout \cup Macro, e \in Broken}

\* A program of one macro and its uses, and programs of code and comments.
MCMacroPrograms ==
  {Program(<<c, d, u>>): c \in Code, d \in Macro \cup GrowingMacro, u \in {Uses2} \cup Code}

\* With each of these as Sources TokensMeant is violated.
MCLiteralPrograms == {Program(<<b>>): b \in Behind}
MCStringPrograms  == {Program(<<q>>): q \in QuotedMarks}
MCWordPrograms    == {Program(<<d, w>>): d \in Macro, w \in LongerWord}

MCCommentPrograms == Programs(Code \cup Comments \cup BlockComments, 2)

MCLetters == {"a", "b", "d", "e", "j", "l", "m", "r", "t", "x"}

MCDigits == {"0", "5"}

MCLower == ("A" :> "a") @@ ("E" :> "e") @@ ("J" :> "j") @@ ("L" :> "l")

\* Names of which one is the beginning of another; the last is the last of the list.
MCInstructions == << <<"a", "d", "d">>, <<"j", "l">>, <<"j", "l", "e">>, <<"r", "e", "t">> >>

MCReserved == [REGISTER |-> {<<"r", "0">>}, DIRECTIVE |-> {<<"d", "b">>}, SIZE |-> {<<"b">>}]
=============================================================================
