------------------------------- MODULE Buffer -------------------------------
(***************************************************************************)
(* LibCommon: the growing buffer that the assembler fills section by       *)
(* section.  It is a list of blocks; a block, once added, keeps its size.  *)
(* A write that ends past the blocks adds one.                             *)
(***************************************************************************)
EXTENDS Integers, Sequences, SequencesExt

CONSTANT BlockSize         \* DEFAULT_BUFFER_BLOCK_SIZE

ASSUME BlockSizeAssumption == BlockSize \in Nat \ {0}

Garbage == -1              \* what a block holds before it is written

AddBlock(blocks, size) ==
    LET rounded == ((size + BlockSize - 1) \div BlockSize) * BlockSize
    IN  Append(blocks, [i \in 1 .. rounded |-> Garbage])

Before(blocks, b) == Len(FlattenSeq(SubSeq(blocks, 1, b - 1)))

\* The blocks that hold the offset: one, or none.
Holding(blocks, offset) ==
    {b \in 1 .. Len(blocks) : offset \in Before(blocks, b) .. Before(blocks, b + 1) - 1}

\* memcpy into a block, of as much of the data as fits.
Copied(block, from, data) ==
    [i \in 1 .. Len(block) |-> IF i - from \in 1 .. Len(data) THEN data[i - from] ELSE block[i]]

\* What is left of the data once it has filled a block from `from` on.
Left(block, from, data) == SubSeq(data, Len(block) - from + 1, Len(data))

\* The blocks after the first take what they can, up to the one in which the
\* data ends; what that one took is then added once more as a new block.
Spill(blocks, b, data) ==
    LET Into(state, c) ==
            IF state.done THEN state
            ELSE IF Len(state.rest) <= Len(state.blocks[c])
            THEN [state EXCEPT !.blocks[c] = Copied(@, 0, state.rest), !.done = TRUE]
            ELSE [state EXCEPT !.blocks[c] = Copied(@, 0, state.rest),
                               !.rest = Left(state.blocks[c], 0, @)]
        into[c \in b .. Len(blocks)] ==
            IF c = b THEN [blocks |-> blocks, rest |-> data, done |-> FALSE] ELSE Into(into[c - 1], c)
        spilled == into[Len(blocks)]
        grown   == AddBlock(spilled.blocks, Len(spilled.rest))
    IN  [grown EXCEPT ![Len(grown)] = Copied(@, 0, spilled.rest)]

\* The start of the block just added is taken, wherever the offset is.
Write(blocks, offset, data) ==
    LET found == Holding(blocks, offset) # {}
        from  == IF found THEN blocks ELSE AddBlock(blocks, Len(data))
        b     == IF found THEN CHOOSE c \in Holding(blocks, offset) : TRUE ELSE Len(from)
        at    == IF found THEN offset - Before(blocks, b) ELSE 0
        first == [from EXCEPT ![b] = Copied(@, at, data)]
    IN  IF Len(from[b]) - at >= Len(data) THEN first
        ELSE Spill(first, b, Left(from[b], at, data))

Read(blocks, offset, size) == SubSeq(FlattenSeq(blocks), offset + 1, offset + size)
=============================================================================
