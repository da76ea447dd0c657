--------------------------- MODULE MCDecodeCache ---------------------------
(* TLC instance of DecodeCache: a program of ten bytes with instructions of *)
(* one to three bytes, lines of four, three slots.  Pages are of four bytes *)
(* as well; the virtual MMU swaps two of them.                              *)
EXTENDS DecodeCache

MCMMU == {"physical", "virtual"}
MCMapped == (0..5) \cup (8..13)
MCThrough == [physical |-> [a \in 0..15 |-> a],
              virtual  |-> [a \in 0..15 |-> IF a \in 4..7 THEN a + 4 ELSE
                                            IF a \in 8..11 THEN a - 4 ELSE a]]
MCSize == [b \in 0..15 |-> IF b \in {1, 8} THEN 3 ELSE IF b = 4 THEN 2 ELSE 1]
MCMode == [b \in 0..15 |-> IF b = 0 THEN "virtual" ELSE IF b = 3 THEN "physical" ELSE "same"]
=============================================================================
