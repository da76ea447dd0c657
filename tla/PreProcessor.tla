---------------------------- MODULE PreProcessor ----------------------------
(***************************************************************************)
(* PreProcessor::process (src/Assembler/src/PreProcessor.cpp): includes,   *)
(* comments and macros, one pass over the whole text each, from the buffer *)
(* of the pass before to a new one.                                        *)
(*                                                                         *)
(* A text is a sequence of cells: a character and, for the properties      *)
(* only, the line of the program the character was written on.  A marker   *)
(* ("%include", "%define", the two ends of a comment, a shift operator) is *)
(* one character here, so the widths the code adds for it are all 1.       *)
(* Offsets count from 0, as in the code.                                   *)
(***************************************************************************)
EXTENDS Integers, FiniteSets, SequencesExt

CONSTANTS Main,     \* the name of the file that is assembled
          Sources   \* the programs: the texts of the files, and the tokens they stand for

VARIABLES program,  \* the program that is assembled
          pc,       \* the pass that runs, or how the assembler stopped
          frames,   \* the activations of HandleIncludes, the innermost last
          text,     \* the text a pass reads
          at,       \* the offset in text the pass has reached
          out,      \* m_buffer up to m_currentOffset: what the pass has written
          refs,     \* m_referencePoints
          defines,  \* the macros found
          todo      \* the macros to remove, then the uses to replace

ppVars == <<program, pc, frames, text, at, out, refs, defines, todo>>

NotFound == -1

NewLine == "nl"

\* The characters of t at the offsets from i on, up to but not with j.
Part(t, i, j) == SubSeq(t, i + 1, j)

Rest(t, i) == Part(t, i, Len(t))

First(offsets) == IF offsets = {} THEN NotFound ELSE Min(offsets)

\* strchr and strstr: the offset of the first c of t that is not before i.
Find(t, i, c) == First({k \in i .. (Len(t) - 1): t[k + 1].c = c})

Chars(t) == [i \in DOMAIN t |-> t[i].c]

NewLines(t, i, j) == Cardinality({k \in i .. j: t[k + 1].c = NewLine})

\* The lines of a file as cells.
Cells(source) ==
  [i \in DOMAIN source |->
     [c |-> source[i],
      line |-> 1 + Cardinality({k \in 1 .. (i - 1): source[k] = NewLine})]]

(***************************************************************************)
(* GetLineCount and the loop of CreateReferencePoint.  A line is counted   *)
(* when it starts before dst and has an end, so an offset inside a line    *)
(* that has an end is one line further than the line it is on.             *)
(***************************************************************************)
LineCount(t, src, dst) ==
  LET started == 1 + NewLines(t, src, dst - 2)
      ended == NewLines(t, src, Len(t) - 1)
  IN 1 + (IF src >= dst THEN 0 ELSE IF started <= ended THEN started ELSE ended)

Point(line, file, offset) == [line |-> line, file |-> file, offset |-> offset]

\* The offsets are a size_t: one that would be negative is behind every text.
SizeT == 2 ^ 16

Far == 2 ^ 15
\* Every reference point at or after "from" moves by d.
Shifted(points, from, d) ==
  [i \in DOMAIN points |->
     IF points[i].offset < from THEN points[i]
     ELSE [points[i] EXCEPT !.offset = (@ + d) % SizeT]]

(***************************************************************************)
(* 1. HandleIncludes.  An included file is expanded by a PreProcessor of   *)
(* its own, a frame here, whose text and reference points go to the end of *)
(* the file that includes it.                                              *)
(***************************************************************************)
Top == frames[Len(frames)]

TopText == Cells(program.files[Top.file])

Enter(file) == [file |-> file, at |-> 0, out |-> <<>>, refs |-> <<Point(1, file, 0)>>]

Included == Find(TopText, Top.at, "%include")

Quote == Find(TopText, Included + 1, "\"")

\* The file between the quotes: its name is one character here.
Name == TopText[Included + 2].c

InInclude == pc = "include" /\ Included # NotFound

IncludeFile ==
  /\ InInclude
  /\ Quote # NotFound
  /\ Name \in DOMAIN program.files
  /\ LET before == Top.out \o Part(TopText, Top.at, Included)
         start == Point(LineCount(TopText, 0, Included), Top.file, Len(before))
         waiting == [Top EXCEPT !.at = Quote + 1, !.out = before, !.refs = Append(@, start)]
     IN frames' = Append([frames EXCEPT ![Len(frames)] = waiting], Enter(Name))
  /\ UNCHANGED <<program, pc, text, at, out, refs, defines, todo>>

Refuse(how) ==
  /\ pc' = how
  /\ UNCHANGED <<program, frames, text, at, out, refs, defines, todo>>

UnterminatedInclude == InInclude /\ Quote = NotFound /\ Refuse("refused")

MissingFile == InInclude /\ Quote # NotFound /\ Name \notin DOMAIN program.files /\ Refuse("refused")

(***************************************************************************)
(* The buffer of an included file is not terminated: strchr runs on behind *)
(* its last line, where a newline may or may not be.                       *)
(***************************************************************************)
EndOfIncluded ==
  /\ pc = "include" /\ Included = NotFound /\ Len(frames) > 1
  /\ \E behind \in {0, 1}:
       LET parent == frames[Len(frames) - 1]
           source == Cells(program.files[parent.file])
           size == Len(TopText)
           unended == size > 0 /\ TopText[size].c # NewLine
           last == LineCount(TopText, 0, size) + (IF unended THEN behind ELSE 0)
           whole == Top.out \o Rest(TopText, Top.at)
           points == Append(Top.refs, Point(last, Top.file, Len(whole)))
           base == Len(parent.out)
           after == Point(LineCount(source, 0, parent.at), parent.file, base + Len(whole))
       IN frames' = Append(SubSeq(frames, 1, Len(frames) - 2),
                           [parent EXCEPT !.out = @ \o whole,
                                          !.refs = Append(@ \o Shifted(points, 0, base), after)])
  /\ UNCHANGED <<program, pc, text, at, out, refs, defines, todo>>

\* The buffer is exported as the text of the next pass and cleared.
Export(written, pass) ==
  /\ text' = written
  /\ out' = <<>>
  /\ at' = 0
  /\ pc' = pass

EndOfSource ==
  /\ pc = "include" /\ Included = NotFound /\ Len(frames) = 1
  /\ LET whole == Top.out \o Rest(TopText, Top.at)
     IN /\ Export(whole, "line comments")
        /\ refs' = Append(Top.refs, Point(LineCount(TopText, 0, Len(TopText)), Main, Len(whole)))
  /\ frames' = <<>>
  /\ UNCHANGED <<program, defines, todo>>

(***************************************************************************)
(* 2. A comment from ";" to the end of its line.  The last line may have   *)
(* no end: the code then subtracts a difference with a null pointer, which *)
(* moves the reference points behind the comment out of the text.          *)
(***************************************************************************)
Comment == Find(text, at, ";")

CommentEndBehind(start) ==
  LET end == Find(text, start, NewLine) IN IF end = NotFound THEN end ELSE end + 1

CommentEnd(start) == Find(text, start, NewLine)

RemoveLineComment ==
  /\ pc = "line comments" /\ Comment # NotFound
  /\ LET end == CommentEnd(Comment)
         kept == out \o Part(text, at, Comment)
     IN /\ end # NotFound
        /\ out' = kept
        /\ refs' = Shifted(refs, Len(kept), Comment - end)
        /\ at' = end
  /\ UNCHANGED <<program, pc, frames, text, defines, todo>>

LastLineComment ==
  /\ pc = "line comments" /\ Comment # NotFound
  /\ CommentEnd(Comment) = NotFound
  /\ LET kept == out \o Part(text, at, Comment)
     IN Export(kept, "comments") /\ refs' = Shifted(refs, Len(kept), Far)
  /\ UNCHANGED <<program, frames, defines, todo>>

LineCommentsRemoved ==
  /\ pc = "line comments" /\ Comment = NotFound
  /\ Export(out \o Rest(text, at), "comments")
  /\ UNCHANGED <<program, frames, refs, defines, todo>>

(***************************************************************************)
(* 3. A comment from "/*" to the other end.  Two reference points are made *)
(* for it, after the last one whose offset is before the comment: the      *)
(* offset of the point belongs to the text written, that of the comment to *)
(* the text read.                                                          *)
(***************************************************************************)
Opening == Find(text, at, "/*")

InComment == pc = "comments" /\ Opening # NotFound

PointsBefore(offset) == {i \in DOMAIN refs: refs[i].offset < offset}

CommentAtStart == InComment /\ PointsBefore(Opening) = {} /\ Refuse("internal error")

UnterminatedComment ==
  /\ InComment /\ PointsBefore(Opening) # {}
  /\ Find(text, Opening, "*/") = NotFound
  /\ Refuse("refused")

RemoveComment ==
  /\ InComment /\ PointsBefore(Opening) # {}
  /\ LET closing == Find(text, Opening, "*/")
         kept == out \o Part(text, at, Opening)
         n == CHOOSE i \in PointsBefore(Opening): \A j \in PointsBefore(Opening): j <= i
         previous == refs[n]
         made == <<Point(LineCount(text, previous.offset, Opening), previous.file, Len(kept) - 1),
                   Point(LineCount(text, previous.offset, closing), previous.file, Len(kept))>>
         removed == closing - Opening + 1
     IN /\ closing # NotFound
        /\ out' = kept
        /\ refs' = Shifted(SubSeq(refs, 1, n) \o made \o SubSeq(refs, n + 1, Len(refs)),
                           Len(kept) + removed, -removed)
        /\ at' = closing + 1
  /\ UNCHANGED <<program, pc, frames, text, defines, todo>>

CommentsRemoved ==
  /\ pc = "comments" /\ Opening = NotFound
  /\ Export(out \o Rest(text, at), "defines")
  /\ UNCHANGED <<program, frames, refs, defines, todo>>

(***************************************************************************)
(* 4. Macros: all are collected, then all removed, then the uses of all    *)
(* are replaced from the first offset to the last.                         *)
(***************************************************************************)
Defined == Find(text, at, "%define")

NameEnd == Find(text, Defined + 1, " ")

ValueEnd == Find(text, NameEnd + 1, NewLine)

InDefine == pc = "defines" /\ Defined # NotFound

\* The message needs a reference point before the name, counted from the last macro.
RefuseDefine ==
  Refuse(IF PointsBefore(Defined + 1 - at) = {} THEN "internal error" ELSE "refused")

InvalidDefine == InDefine /\ NameEnd = NotFound /\ RefuseDefine

UnterminatedDefine == InDefine /\ NameEnd # NotFound /\ ValueEnd = NotFound /\ RefuseDefine

CollectDefine ==
  /\ InDefine /\ NameEnd # NotFound /\ ValueEnd # NotFound
  /\ defines' = Append(defines, [name |-> Chars(Part(text, Defined + 1, NameEnd)),
                                 value |-> Part(text, NameEnd + 1, ValueEnd),
                                 start |-> Defined])
  /\ at' = ValueEnd + 1
  /\ UNCHANGED <<program, pc, frames, text, out, refs, todo>>

DefinesCollected ==
  /\ pc = "defines" /\ Defined = NotFound
  /\ pc' = "remove"
  /\ at' = 0
  /\ todo' = defines
  /\ UNCHANGED <<program, frames, text, out, refs, defines>>

DefineLengthOneShort(d) == Len(d.name) + Len(d.value) + 1

\* The marker, the name, the blank and the value go; the end of the line stays.
DefineLength(d) == Len(d.name) + Len(d.value) + 2

RemoveDefine ==
  /\ pc = "remove" /\ todo # <<>>
  /\ LET d == Head(todo)
         kept == out \o Part(text, at, d.start)
     IN /\ out' = kept
        /\ at' = d.start + DefineLength(d)
        /\ refs' = Shifted(refs, Len(kept), -DefineLength(d))
  /\ todo' = Tail(todo)
  /\ UNCHANGED <<program, pc, frames, text, defines>>

Occurs(t, i, name) == Chars(Part(t, i, i + Len(name))) = name

\* The offsets at which strstr finds the name, each search behind the last find.
Occurrences(t, name) ==
  LET Look[i \in 0 .. Len(t)] ==
        IF i + Len(name) > Len(t) THEN {}
        ELSE IF Occurs(t, i, name) THEN {i} \cup Look[i + Len(name)]
        ELSE Look[i + 1]
  IN Look[0]

\* Two macros at one offset: the one defined first is in the map and stays.
Uses(t) ==
  LET found == [k \in DOMAIN defines |-> Occurrences(t, defines[k].name)]
      offsets == UNION {found[k]: k \in DOMAIN defines}
      Earliest(o) == CHOOSE k \in DOMAIN defines:
                    o \in found[k] /\ \A j \in 1 .. (k - 1): o \notin found[j]
  IN [n \in 1 .. Cardinality(offsets) |->
        LET o == SetToSortSeq(offsets, <)[n]
        IN [offset |-> o, name |-> defines[Earliest(o)].name, value |-> defines[Earliest(o)].value]]

DefinesRemoved ==
  /\ pc = "remove" /\ todo = <<>>
  /\ \A k \in DOMAIN defines: defines[k].name # <<>>
  /\ Export(out \o Rest(text, at), "replace")
  /\ todo' = Uses(out \o Rest(text, at))
  /\ UNCHANGED <<program, frames, refs, defines>>

\* An empty name is found at every offset, and the search goes on behind it: there.
EmptyName ==
  /\ pc = "remove" /\ todo = <<>>
  /\ \E k \in DOMAIN defines: defines[k].name = <<>>
  /\ Refuse("hangs")

InUse == pc = "replace" /\ todo # <<>>

Use == Head(todo)

\* The cells of a value are written on the line of the name they replace.
Value(use) ==
  [i \in DOMAIN use.value |-> [use.value[i] EXCEPT !.line = text[use.offset + 1].line]]

\* The offset of the use in the text read is compared with the length of the text written.
Overlaps(use) == use.offset < Len(out)

ReplaceUse ==
  /\ InUse /\ ~Overlaps(Use) /\ at <= Use.offset
  /\ out' = out \o Part(text, at, Use.offset) \o Value(Use)
  /\ at' = Use.offset + Len(Use.name)
  /\ refs' = Shifted(refs, Len(out'), Len(Use.value) - Len(Use.name))
  /\ todo' = Tail(todo)
  /\ UNCHANGED <<program, pc, frames, text, defines>>

\* The source pointer is already behind the use: the write has a negative length.
UseBehind == InUse /\ ~Overlaps(Use) /\ at > Use.offset /\ Refuse("crashed")

ReplaceOverlapping ==
  /\ InUse /\ Overlaps(Use)
  /\ Use.offset + Len(Use.name) > Len(out)
  /\ out' = Part(out, 0, Use.offset) \o Value(Use)
  /\ at' = at + Len(Use.name) - Len(Use.value)
  /\ todo' = Tail(todo)
  /\ UNCHANGED <<program, pc, frames, text, refs, defines>>

IllegalUse ==
  /\ InUse /\ Overlaps(Use)
  /\ Use.offset + Len(Use.name) <= Len(out)
  /\ Refuse("internal error")

UsesReplaced ==
  /\ pc = "replace" /\ todo = <<>>
  /\ Export(out \o Rest(text, at), "lex")
  /\ UNCHANGED <<program, frames, refs, defines, todo>>

PreInit ==
  /\ program \in Sources
  /\ pc = "include"
  /\ frames = <<Enter(Main)>>
  /\ text = <<>> /\ at = 0 /\ out = <<>>
  /\ refs = <<>> /\ defines = <<>> /\ todo = <<>>

PreProcess ==
  \/ IncludeFile \/ UnterminatedInclude \/ MissingFile \/ EndOfIncluded \/ EndOfSource
  \/ RemoveLineComment \/ LastLineComment \/ LineCommentsRemoved
  \/ CommentAtStart \/ UnterminatedComment \/ RemoveComment \/ CommentsRemoved
  \/ InvalidDefine \/ UnterminatedDefine \/ CollectDefine \/ DefinesCollected
  \/ RemoveDefine \/ DefinesRemoved \/ EmptyName
  \/ ReplaceUse \/ UseBehind \/ ReplaceOverlapping \/ IllegalUse \/ UsesReplaced
=============================================================================
