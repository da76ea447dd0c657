----------------------------- MODULE MCStorage -----------------------------
(* TLC instance of Storage: five blocks of memory, a file of three.          *)
EXTENDS Storage

MCInfo == <<"info", 0>>

N(m, its) == [mapped |-> m, items |-> its]
I(s, n) == [start |-> s, size |-> n]
R(w, lba, count, int, nodes) ==
    [mapped |-> TRUE, write |-> w, lba |-> lba, count |-> count, int |-> int,
     list |-> nodes]

Scattered == <<N(TRUE, <<I(3, 1), I(0, 0)>>), N(TRUE, <<I(0, 1)>>)>>
Overlapping == <<N(TRUE, <<I(1, 2), I(2, 1)>>)>>

\* Of the requests some are refused and some have a list that cannot be used;
\* the last two wrap around.
MCRequest ==
    UNION {{R(FALSE, 1, 2, int, Scattered), R(TRUE, 0, 2, int, Scattered),
            R(FALSE, 0, 3, int, Overlapping),
            R(TRUE, 0, 3, int, <<N(TRUE, <<I(1, 2)>>)>>),
            R(FALSE, 0, 2, int, <<N(TRUE, <<I(0, 1)>>), N(FALSE, <<>>)>>),
            R(FALSE, 0, 2, int, <<N(TRUE, <<I(4, 2)>>)>>),
            R(TRUE, 2, 2, int, Scattered),
            R(FALSE, 7, 2, int, Scattered),
            R(TRUE, 5, 5, int, Overlapping)} : int \in BOOLEAN}
=============================================================================
