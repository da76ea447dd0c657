----------------------------- MODULE Expressions ----------------------------
(***************************************************************************)
(* Constant folding: Parser::SimplifyExpression, which the parser calls on *)
(* what stands between the outermost parentheses.  It goes over the list   *)
(* of tokens once for every group of operators and copies it into another  *)
(* list, where a result stands in place of an operator and its operands.   *)
(*                                                                         *)
(* A number is [type, value, size]: an unsigned value of 1, 2, 4 or 8      *)
(* bytes.  `own` says that the token was made by the evaluation and not    *)
(* before it.  A failure is the empty list.                                *)
(***************************************************************************)
EXTENDS Integers, Sequences, SequencesExt

CONSTANT ByteBits          \* the bits of a byte

ASSUME ByteBitsAssumption == ByteBits \in Nat \ {0}

Modulus(size)    == 2 ^ (ByteBits * size)
Failure          == << >>

Symbol(name)     == [type |-> "OPERATOR", value |-> name, size |-> 0, own |-> FALSE]
Result(v, size)  == [type |-> "NUMBER", value |-> v % Modulus(size), size |-> size, own |-> TRUE]

\* The fewest bytes that hold n with its sign.
Shortest(n) ==
    LET holds(size) == -(Modulus(size) \div 2) <= n /\ n < Modulus(size) \div 2
    IN  CASE holds(1) -> 1
          [] holds(2) -> 2
          [] holds(4) -> 4
          [] OTHER    -> 8

\* A number of the source text, as SimplifyExpressions puts it into the list.
Literal(n) == [Result(n, Shortest(n)) EXCEPT !.own = FALSE]

----------------------------------------------------------------------------
(* Operators *)

Bit(v, k) == (v \div 2 ^ k) % 2

BitsWhere(Test(_, _), v, w, size) ==
    FoldLeft(LAMBDA sum, k : sum + IF Test(Bit(v, k - 1), Bit(w, k - 1)) THEN 2 ^ (k - 1) ELSE 0,
             0, [k \in 1 .. ByteBits * size |-> k])

\* What is read of a number at the size of the result: behind a smaller number
\* the bytes are those of the allocation, whatever was left there.
ReadAs(number, size, behind) ==
    IF number.size >= size THEN number.value
    ELSE number.value + behind * (Modulus(size) - Modulus(number.size))

\* The smaller sizes are shifted as integers of four bytes.  A count beyond that
\* has no result in the language: it is what the machine gives.
Shifted(v, count, size, left, behind) ==
    CASE count >= ByteBits * (IF size = 8 THEN 8 ELSE 4) -> behind
      [] count >= ByteBits * size                        -> 0
      [] left  -> (v % 2 ^ (ByteBits * size - count)) * 2 ^ count
      [] OTHER -> v \div 2 ^ count

Apply(op, left, right, behind) ==
    LET size == IF left.size > right.size THEN left.size ELSE right.size
        v    == ReadAs(left, size, behind)
        w    == ReadAs(right, size, behind)
    IN  Result(CASE op = "*"  -> v * w
                 [] op = "/"  -> v \div w
                 [] op = "%"  -> v % w
                 [] op = "+"  -> v + w
                 [] op = "-"  -> v - w
                 [] op = "<<" -> Shifted(v, w, size, TRUE, behind)
                 [] op = ">>" -> Shifted(v, w, size, FALSE, behind)
                 [] op = "&"  -> BitsWhere(LAMBDA a, b : a + b = 2, v, w, size)
                 [] op = "^"  -> BitsWhere(LAMBDA a, b : a # b, v, w, size)
                 [] op = "|"  -> BitsWhere(LAMBDA a, b : a + b > 0, v, w, size),
               size)

DividesByZero(op, left, right, behind) ==
    /\ op \in {"/", "%"}
    /\ ReadAs(right, IF left.size > right.size THEN left.size ELSE right.size, behind) = 0

----------------------------------------------------------------------------
(* The passes *)

IsNumber(ts, i) == i \in 1 .. Len(ts) /\ ts[i].type = "NUMBER"
IsOne(ts, i, ops) == i \in 1 .. Len(ts) /\ ts[i].type = "OPERATOR" /\ ts[i].value \in ops

\* The operands of an operator are its neighbours in the list the pass reads,
\* also where one of them has just become part of another result.
BinaryPass(ts, ops, behind) ==
    LET at == {i \in 1 .. Len(ts) : IsOne(ts, i, ops)}
    IN  IF \E i \in at : \/ ~IsNumber(ts, i - 1) \/ ~IsNumber(ts, i + 1)
                         \/ DividesByZero(ts[i].value, ts[i - 1], ts[i + 1], behind)
        THEN Failure
        ELSE FlattenSeq([i \in 1 .. Len(ts) |->
                 CASE i \in at                      -> << Apply(ts[i].value, ts[i - 1], ts[i + 1], behind) >>
                   [] i - 1 \in at \/ i + 1 \in at  -> << >>
                   [] OTHER                         -> << ts[i] >>])

Complement(ts) ==
    LET at == {i \in 1 .. Len(ts) : IsOne(ts, i, {"~"})}
    IN  IF \E i \in at : ~IsNumber(ts, i + 1) THEN Failure
        ELSE FlattenSeq([i \in 1 .. Len(ts) |->
                 CASE i \in at     -> << Result(-1 - ts[i + 1].value, ts[i + 1].size) >>
                   [] i - 1 \in at -> << >>
                   [] OTHER        -> << ts[i] >>])

MultiplyDivide == {"*", "/", "%"}
AddSubtract    == {"+", "-"}
Shifts         == {"<<", ">>"}
BitwiseAnd     == {"&"}
BitwiseXor     == {"^"}
BitwiseOr      == {"|"}

\* With the last two the other way round.
PassesOrBeforeXor == << MultiplyDivide, AddSubtract, Shifts, BitwiseAnd, BitwiseOr, BitwiseXor >>

\* One pass after the other, each over the list the one before it left.
Passes == << MultiplyDivide, AddSubtract, Shifts, BitwiseAnd, BitwiseXor, BitwiseOr >>

\* One number must be left, and it must be the evaluation's own: a token that is
\* still counted elsewhere stops the program at the assertion.
Evaluated(ts, behind) ==
    LET left == FoldLeft(LAMBDA list, ops : BinaryPass(list, ops, behind), Complement(ts), Passes)
    IN  IF Len(left) = 1 /\ left[1].type = "NUMBER" /\ left[1].own THEN left ELSE Failure

\* Expressions in parentheses come first, each by a call for what they contain;
\* so the innermost are evaluated before those around them.
ReplaceInnermost(ts, behind) ==
    LET close == SelectInSeq(ts, LAMBDA t : t.type = "RPARAN")
        open  == SelectLastInSubSeq(ts, 1, close, LAMBDA t : t.type = "LPARAN")
        inner == Evaluated(SubSeq(ts, open + 1, close - 1), behind)
    IN  IF close = 0 \/ open = 0 \/ inner = Failure THEN Failure
        ELSE SubSeq(ts, 1, open - 1) \o inner \o SubSeq(ts, close + 1, Len(ts))

Parentheses(ts, behind) ==
    FoldLeft(LAMBDA list, t : IF t.type = "RPARAN" THEN ReplaceInnermost(list, behind) ELSE list, ts, ts)

SimplifyExpression(ts, behind) ==
    LET flat == Parentheses(ts, behind)
    IN  IF \E i \in 1 .. Len(flat) : flat[i].type = "LPARAN" THEN Failure
        ELSE Evaluated(flat, behind)
=============================================================================
