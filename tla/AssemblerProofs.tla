-------------------------- MODULE AssemblerProofs --------------------------
(***************************************************************************)
(* The encoding of instructions, for every program and every number of     *)
(* blocks.                                                                 *)
(*                                                                         *)
(* The decoder and the disassembler: an operand that DecodeInstruction     *)
(* made, of whatever bytes, is one of thirteen shapes, and the listing of  *)
(* each shape is read back as what the emulator computes (ListingReads).   *)
(*                                                                         *)
(* The encoder and the decoder share no code.  The bytes of an instruction *)
(* are its opcode, an info of one or two bytes for each operand and then   *)
(* the fields of all operands, of one to eight bytes each.  The lemmas say *)
(* where in the bytes each info and each field stands (Laid), that the     *)
(* decoder finds it there (InfosFound, CarriedOperand), and that each of   *)
(* the thirteen forms reads back (OperandReadsBack).                       *)
(*                                                                         *)
(* A buffer is a list of blocks, and what is written into it may run over  *)
(* into the blocks that follow and new ones.  The lemmas follow the data   *)
(* block by block (SpilledTo) and end with what stands in the whole buffer *)
(* afterwards (WriteWrites).                                               *)
(*                                                                         *)
(* The writer and the reader of an executable share no code either.  The   *)
(* lemmas say at which offset each chunk of the file begins and ends       *)
(* (ElfBegins), what a pointer to it finds (Finds) and, from there, that   *)
(* the reader gets the parts the writer was given (ElfRead).               *)
(***************************************************************************)
EXTENDS Assembler, TLAPS, SequenceTheorems, FiniteSetTheorems, NaturalsInduction, WellFoundedInduction

-----------------------------------------------------------------------------
(* Sequences                                                               *)

LEMMA SequenceDomain ==
    ASSUME NEW s, IsSequence(s)
    PROVE  DOMAIN s = 1 .. Len(s)
  BY DEF IsSequence

LEMMA EmptySequence == IsSequence(<< >>) /\ Len(<< >>) = 0
  BY DEF IsSequence

LEMMA SingleSequence ==
    ASSUME NEW e
    PROVE  IsSequence(<< e >>) /\ Len(<< e >>) = 1 /\ << e >>[1] = e
  BY DEF IsSequence

LEMMA FunctionSequence ==
    ASSUME NEW s, NEW n \in Nat, s = [i \in 1 .. n |-> s[i]]
    PROVE  IsSequence(s) /\ Len(s) = n
  BY DEF IsSequence

LEMMA SameSequence ==
    ASSUME NEW s, NEW t, IsSequence(s), IsSequence(t), Len(s) = Len(t),
           \A i \in 1 .. Len(s) : s[i] = t[i]
    PROVE  s = t
  BY DEF IsSequence

LEMMA SequenceOfSet ==
    ASSUME NEW s, IsSequence(s)
    PROVE  \E S : s \in Seq(S)
  <1> DEFINE S == {s[i] : i \in 1 .. Len(s)}
  <1>1. s \in [1 .. Len(s) -> S]
    BY DEF IsSequence
  <1> HIDE DEF S
  <1>2. s \in Seq(S)
    BY <1>1 DEF IsSequence
  <1> QED BY <1>2

LEMMA SeqIsSequence ==
    ASSUME NEW S, NEW s \in Seq(S)
    PROVE  IsSequence(s)
  BY LenProperties DEF IsSequence

LEMMA AppendSequence ==
    ASSUME NEW s, NEW e, IsSequence(s)
    PROVE  /\ IsSequence(Append(s, e))
           /\ Len(Append(s, e)) = Len(s) + 1
           /\ Append(s, e)[Len(s) + 1] = e
           /\ \A i \in 1 .. Len(s) : Append(s, e)[i] = s[i]
  <1>1. PICK S : s \in Seq(S)
    BY SequenceOfSet
  <1>2. s \in Seq(S \cup {e}) /\ e \in S \cup {e}
    BY <1>1, SeqMonotonic
  <1>3. Append(s, e) \in Seq(S \cup {e})
    BY <1>2
  <1>4. IsSequence(Append(s, e))
    BY <1>3, SeqIsSequence
  <1>5. Len(Append(s, e)) = Len(s) + 1
    BY <1>2
  <1>6. Append(s, e)[Len(s) + 1] = e
    BY <1>2
  <1>7. \A i \in 1 .. Len(s) : Append(s, e)[i] = s[i]
    BY <1>2
  <1> QED BY <1>4, <1>5, <1>6, <1>7

LEMMA ConcatSequence ==
    ASSUME NEW s, NEW t, IsSequence(s), IsSequence(t)
    PROVE  /\ IsSequence(s \o t)
           /\ Len(s \o t) = Len(s) + Len(t)
           /\ \A i \in 1 .. Len(s) : (s \o t)[i] = s[i]
           /\ \A i \in 1 .. Len(t) : (s \o t)[Len(s) + i] = t[i]
  <1>1. PICK S : s \in Seq(S)
    BY SequenceOfSet
  <1>2. PICK T : t \in Seq(T)
    BY SequenceOfSet
  <1>3. s \in Seq(S \cup T) /\ t \in Seq(S \cup T)
    BY <1>1, <1>2, SeqMonotonic
  <1>4. PICK m \in Nat, n \in Nat : m = Len(s) /\ n = Len(t)
    BY DEF IsSequence
  <1>5. PICK u : u = s \o t
    OBVIOUS
  <1>6. /\ u \in Seq(S \cup T)
        /\ Len(u) = m + n
        /\ \A i \in 1 .. m + n : u[i] = IF i <= m THEN s[i] ELSE t[i - m]
    BY <1>3, <1>4, <1>5, ConcatProperties
  <1>7. \A i \in 1 .. m : u[i] = s[i]
    BY <1>6
  <1>8. ASSUME NEW i \in 1 .. n
        PROVE  u[m + i] = t[i]
    <2>1. m + i \in 1 .. m + n /\ ~(m + i <= m) /\ (m + i) - m = i
      OBVIOUS
    <2> QED BY <1>6, <2>1
  <1>9. IsSequence(u)
    BY <1>6, SeqIsSequence
  <1> QED BY <1>4, <1>5, <1>6, <1>7, <1>8, <1>9

LEMMA SubSequence ==
    ASSUME NEW s, IsSequence(s), NEW m \in Int, NEW n \in Int, 1 <= m, n <= Len(s)
    PROVE  /\ IsSequence(SubSeq(s, m, n))
           /\ Len(SubSeq(s, m, n)) = IF m <= n THEN n - m + 1 ELSE 0
           /\ \A i \in 1 .. n - m + 1 : SubSeq(s, m, n)[i] = s[m + i - 1]
  <1>1. PICK k \in Nat : k = Len(s)
    BY DEF IsSequence
  <1> DEFINE S == {s[i] : i \in 1 .. k}
  <1>2. \A i \in m .. n : s[i] \in S
    BY <1>1
  <1> HIDE DEF S
  <1>3. /\ SubSeq(s, m, n) \in Seq(S)
        /\ Len(SubSeq(s, m, n)) = IF m <= n THEN n - m + 1 ELSE 0
        /\ \A i \in 1 .. n - m + 1 : SubSeq(s, m, n)[i] = s[m + i - 1]
    BY <1>2, SubSeqProperties
  <1> QED BY <1>3, SeqIsSequence

Put(s, i, e) == [s EXCEPT ![i] = e]

LEMMA PutSequence ==
    ASSUME NEW s, NEW i, NEW e, IsSequence(s)
    PROVE  /\ IsSequence(Put(s, i, e))
           /\ Len(Put(s, i, e)) = Len(s)
           /\ i \in 1 .. Len(s) => Put(s, i, e)[i] = e
           /\ \A j \in 1 .. Len(s) : j # i => Put(s, i, e)[j] = s[j]
  <1> DEFINE t == Put(s, i, e)
  <1>1. PICK n \in Nat : n = Len(s)
    BY DEF IsSequence
  <1>2. DOMAIN s = 1 .. n
    BY <1>1, SequenceDomain
  <1>3. t = [j \in 1 .. n |-> IF j = i THEN e ELSE s[j]]
    BY <1>2 DEF Put
  <1>4. \A j \in 1 .. n : t[j] = IF j = i THEN e ELSE s[j]
    BY <1>3
  <1>5. t = [j \in 1 .. n |-> t[j]]
    BY <1>3, <1>4
  <1> HIDE DEF t
  <1>6. IsSequence(t) /\ Len(t) = n
    BY <1>5, FunctionSequence
  <1> QED BY <1>1, <1>4, <1>6 DEF t

LEMMA Induction ==
    ASSUME NEW n \in Nat, NEW T,
           0 \in T, \A k \in 0 .. (n - 1) : k \in T => k + 1 \in T
    PROVE  0 .. n \subseteq T
  <1> DEFINE Less == {p \in Nat \X Nat : p[1] < p[2]}
             Outside == (0 .. n) \ T
  <1>1. IsWellFoundedOn(Less, Nat)
    BY NatLessThanWellFounded, Zenon DEF OpToRel
  <1>2. \A x, y \in Nat : y < x => << y, x >> \in Less
    OBVIOUS
  <1> SUFFICES ASSUME Outside # {}
               PROVE  FALSE
    OBVIOUS
  <1>3. Outside \in SUBSET Nat
    OBVIOUS
  <1>4. PICK x \in Outside : \A y \in Outside : << y, x >> \notin Less
    <2> HIDE DEF Less, Outside
    <2> QED BY <1>1, <1>3, WFMin
  <1> HIDE DEF Less
  <1>5. x \in 1 .. n
    OBVIOUS
  <1>6. x - 1 \in Nat /\ x - 1 < x /\ x - 1 \in 0 .. (n - 1) /\ x = (x - 1) + 1
    BY <1>5
  <1>7. x - 1 \in Outside
    BY <1>6
  <1>8. << x - 1, x >> \in Less
    BY <1>2, <1>5, <1>6
  <1> QED BY <1>4, <1>7, <1>8

\* F begins with c and goes on with what G makes of its last value.
Recursive(F, c, n, G) ==
    \A k \in 0 .. n : F[k] = IF k = 0 THEN c ELSE G[<< F[k - 1], k >>]

\* A function on 0 .. n can be defined by recursion.
LEMMA Recursion ==
    ASSUME NEW S, NEW c \in S, NEW n \in Nat, NEW G \in [S \X (1 .. n) -> S]
    PROVE  \E F \in [0 .. n -> S] : Recursive(F, c, n, G)
  <1> DEFINE Solves(F, m) ==
               \A k \in 0 .. m : F[k] = IF k = 0 THEN c ELSE G[<< F[k - 1], k >>]
             T == {m \in 0 .. n : \E F \in [0 .. m -> S] : Solves(F, m)}
  <1>1. 0 \in T
    <2>1. [k \in 0 .. 0 |-> c] \in [0 .. 0 -> S] /\ Solves([k \in 0 .. 0 |-> c], 0)
      OBVIOUS
    <2>2. 0 \in 0 .. n
      OBVIOUS
    <2> HIDE DEF Solves
    <2> QED BY <2>1, <2>2
  <1>2. ASSUME NEW m \in 0 .. (n - 1), m \in T
        PROVE  m + 1 \in T
    <2>1. PICK F \in [0 .. m -> S] : Solves(F, m)
      BY <1>2
    <2> DEFINE H == [k \in 0 .. (m + 1) |-> IF k = m + 1 THEN G[<< F[m], m + 1 >>] ELSE F[k]]
    <2>2. << F[m], m + 1 >> \in S \X (1 .. n)
      OBVIOUS
    <2>3. G[<< F[m], m + 1 >>] \in S
      BY <2>2
    <2>4. H \in [0 .. (m + 1) -> S]
      BY <2>3
    <2>5. Solves(H, m + 1)
      <3> SUFFICES ASSUME NEW k \in 0 .. (m + 1)
                   PROVE  H[k] = IF k = 0 THEN c ELSE G[<< H[k - 1], k >>]
        OBVIOUS
      <3>1. CASE k = m + 1
        <4>1. H[m] = F[m] /\ H[k] = G[<< F[m], m + 1 >>] /\ k - 1 = m /\ k # 0
          BY <3>1
        <4> QED BY <3>1, <4>1
      <3>2. CASE k # m + 1
        <4>1. k \in 0 .. m /\ (k # 0 => k - 1 \in 0 .. m /\ k - 1 # m + 1)
          BY <3>2
        <4>2. H[k] = F[k] /\ (k # 0 => H[k - 1] = F[k - 1])
          BY <3>2, <4>1
        <4> HIDE DEF H
        <4> QED BY <2>1, <4>1, <4>2
      <3> QED BY <3>1, <3>2
    <2> HIDE DEF H, Solves
    <2>6. m + 1 \in 0 .. n
      OBVIOUS
    <2> QED BY <2>4, <2>5, <2>6
  <1> HIDE DEF T
  <1>3. n \in T
    <2>1. 0 .. n \subseteq T
      BY <1>1, <1>2, Induction
    <2> QED BY <2>1
  <1> QED BY <1>3 DEF T, Recursive

UptoOf(seqs, F) ==
    [k \in 1 .. Len(seqs) |-> IF k = 1 THEN seqs[k] ELSE F[k - 1] \o seqs[k]]

IsSequences(seqs) == IsSequence(seqs) /\ \A k \in 1 .. Len(seqs) : IsSequence(seqs[k])

\* Where sequence k ends when the sequences are joined.
Ends(seqs, end) ==
    /\ end \in [0 .. Len(seqs) -> Nat]
    /\ end[0] = 0
    /\ \A k \in 1 .. Len(seqs) : end[k] = end[k - 1] + Len(seqs[k])

LEMMA EndsExist ==
    ASSUME NEW seqs, IsSequences(seqs)
    PROVE  \E end : Ends(seqs, end)
  <1>1. PICK n \in Nat : n = Len(seqs)
    BY DEF IsSequences, IsSequence
  <1>2. \A k \in 1 .. n : Len(seqs[k]) \in Nat
    BY <1>1 DEF IsSequences, IsSequence
  <1> DEFINE G == [p \in Nat \X (1 .. n) |-> p[1] + Len(seqs[p[2]])]
  <1>3. G \in [Nat \X (1 .. n) -> Nat]
    BY <1>2
  <1>4. \A p \in Nat \X (1 .. n) : G[p] = p[1] + Len(seqs[p[2]])
    OBVIOUS
  <1> HIDE DEF G
  <1>5. PICK F \in [0 .. n -> Nat] : Recursive(F, 0, n, G)
    BY <1>3, Recursion
  <1>6. F[0] = 0
    <2>1. 0 \in 0 .. n
      OBVIOUS
    <2> QED BY <1>5, <2>1 DEF Recursive
  <1>7. ASSUME NEW k \in 1 .. n
        PROVE  F[k] = F[k - 1] + Len(seqs[k])
    <2>1. k \in 0 .. n /\ k # 0 /\ F[k - 1] \in Nat
      OBVIOUS
    <2>2. << F[k - 1], k >> \in Nat \X (1 .. n)
      BY <2>1
    <2>3. F[k] = G[<< F[k - 1], k >>]
      BY <1>5, <2>1 DEF Recursive
    <2> QED BY <1>4, <2>2, <2>3
  <1> QED BY <1>1, <1>6, <1>7 DEF Ends

LEMMA FlattenRecursion ==
    ASSUME NEW seqs, IsSequences(seqs)
    PROVE  \E upto :
              /\ FlattenSeq(seqs) = upto[Len(seqs)]
              /\ upto[0] = << >>
              /\ \A k \in 1 .. Len(seqs) : IsSequence(upto[k]) /\ upto[k] = upto[k - 1] \o seqs[k]
  <1>1. PICK n \in Nat : n = Len(seqs)
    BY DEF IsSequences, IsSequence
  <1>2. \A k \in 1 .. n : IsSequence(seqs[k])
    BY <1>1 DEF IsSequences
  <1>3. PICK flatten : /\ n # 0 => FlattenSeq(seqs) = flatten[n]
                       /\ n = 0 => FlattenSeq(seqs) = seqs
                       /\ flatten = CHOOSE F : F = UptoOf(seqs, F)
    BY <1>1 DEF FlattenSeq, UptoOf
  <1> DEFINE S == UNION {{seqs[k][i] : i \in 1 .. Len(seqs[k])} : k \in 1 .. n}
  <1>4. \A k \in 1 .. n : seqs[k] \in Seq(S)
    <2> SUFFICES ASSUME NEW k \in 1 .. n
                 PROVE  seqs[k] \in Seq(S)
      OBVIOUS
    <2>1. PICK m \in Nat : m = Len(seqs[k])
      BY <1>2 DEF IsSequence
    <2>2. seqs[k] = [i \in 1 .. m |-> seqs[k][i]]
      BY <1>2, <2>1 DEF IsSequence
    <2>3. \A i \in 1 .. m : seqs[k][i] \in S
      BY <2>1
    <2> HIDE DEF S
    <2>4. seqs[k] \in [1 .. m -> S]
      BY <2>2, <2>3
    <2> QED BY <2>4
  <1> HIDE DEF S
  <1> DEFINE G == [p \in Seq(S) \X (1 .. n) |-> p[1] \o seqs[p[2]]]
  <1>5. G \in [Seq(S) \X (1 .. n) -> Seq(S)]
    BY <1>4, ConcatProperties
  <1>6. \A p \in Seq(S) \X (1 .. n) : G[p] = p[1] \o seqs[p[2]]
    OBVIOUS
  <1> HIDE DEF G
  <1>7. PICK F \in [0 .. n -> Seq(S)] : Recursive(F, << >>, n, G)
    <2>1. << >> \in Seq(S)
      BY EmptySeq
    <2> QED BY <1>5, <2>1, Recursion
  <1>8. F[0] = << >>
    <2>1. 0 \in 0 .. n
      OBVIOUS
    <2> QED BY <1>7, <2>1 DEF Recursive
  <1>9. ASSUME NEW k \in 1 .. n
        PROVE  F[k] = F[k - 1] \o seqs[k] /\ IsSequence(F[k])
    <2>1. k \in 0 .. n /\ k # 0 /\ F[k - 1] \in Seq(S) /\ F[k] \in Seq(S)
      OBVIOUS
    <2>2. << F[k - 1], k >> \in Seq(S) \X (1 .. n)
      BY <2>1
    <2>3. F[k] = G[<< F[k - 1], k >>]
      BY <1>7, <2>1 DEF Recursive
    <2> QED BY <1>6, <2>1, <2>2, <2>3, SeqIsSequence
  <1>10. n # 0 => F[1] = seqs[1]
    <2> SUFFICES ASSUME n # 0
                 PROVE  F[1] = seqs[1]
      OBVIOUS
    <2>1. 1 \in 1 .. n /\ 1 - 1 = 0
      OBVIOUS
    <2>2. F[1] = << >> \o seqs[1] /\ seqs[1] \in Seq(S)
      BY <1>4, <1>8, <1>9, <2>1
    <2> QED BY <2>2, ConcatEmptySeq
  <1> DEFINE H == [k \in 1 .. n |-> F[k]]
  <1>11. H = UptoOf(seqs, H)
    <2>1. \A k \in 1 .. n : H[k] = IF k = 1 THEN seqs[k] ELSE H[k - 1] \o seqs[k]
      <3> SUFFICES ASSUME NEW k \in 1 .. n
                   PROVE  F[k] = IF k = 1 THEN seqs[k] ELSE H[k - 1] \o seqs[k]
        OBVIOUS
      <3>1. CASE k = 1
        BY <1>10, <3>1
      <3>2. CASE k # 1
        <4>1. k - 1 \in 1 .. n
          BY <3>2
        <4>2. H[k - 1] = F[k - 1]
          BY <4>1
        <4> QED BY <1>9, <3>2, <4>2
      <3> QED BY <3>1, <3>2
    <2> QED BY <1>1, <2>1 DEF UptoOf
  <1> HIDE DEF H
  <1>12. flatten = UptoOf(seqs, flatten)
    BY <1>3, <1>11
  <1>13. \A k \in 1 .. n : flatten[k] = IF k = 1 THEN seqs[k] ELSE flatten[k - 1] \o seqs[k]
    BY <1>1, <1>12 DEF UptoOf
  <1> DEFINE T == {k \in 0 .. n : k # 0 => flatten[k] = F[k]}
  <1>14. 0 \in T
    OBVIOUS
  <1>15. ASSUME NEW k \in 0 .. (n - 1), k \in T
         PROVE  k + 1 \in T
    <2>1. k + 1 \in 1 .. n /\ (k + 1) - 1 = k
      OBVIOUS
    <2>2. CASE k = 0
      <3>1. flatten[1] = seqs[1]
        BY <1>13, <2>1, <2>2
      <3> QED BY <1>10, <2>1, <2>2, <3>1
    <2>3. CASE k # 0
      <3>1. PICK j \in 1 .. n : j = k + 1 /\ j # 1 /\ j - 1 = k
        BY <2>1, <2>3
      <3>2. flatten[j] = flatten[k] \o seqs[j]
        BY <1>13, <3>1
      <3>3. F[j] = F[k] \o seqs[j]
        BY <1>9, <3>1
      <3>4. flatten[k] = F[k]
        BY <1>15, <2>3
      <3>5. flatten[j] = F[j] /\ j \in 0 .. n
        BY <3>2, <3>3, <3>4
      <3> QED BY <3>1, <3>5
    <2> QED BY <2>2, <2>3
  <1> HIDE DEF T
  <1>16. n \in T
    <2>1. 0 .. n \subseteq T
      BY <1>14, <1>15, Induction
    <2> QED BY <2>1
  <1>17. FlattenSeq(seqs) = F[n]
    <2>1. CASE n = 0
      <3>1. seqs = << >>
        BY <1>1, <2>1 DEF IsSequences, IsSequence
      <3> QED BY <1>3, <1>8, <2>1, <3>1
    <2>2. CASE n # 0
      BY <1>3, <1>16, <2>2 DEF T
    <2> QED BY <2>1, <2>2
  <1> QED BY <1>1, <1>8, <1>9, <1>17

\* Element j of sequence k is the one at end[k - 1] + j of the sequences joined.
LEMMA FlattenPlaces ==
    ASSUME NEW seqs, IsSequences(seqs), NEW end, Ends(seqs, end)
    PROVE  /\ IsSequence(FlattenSeq(seqs))
           /\ Len(FlattenSeq(seqs)) = end[Len(seqs)]
           /\ \A k \in 1 .. Len(seqs) : \A j \in 1 .. Len(seqs[k]) :
                 FlattenSeq(seqs)[end[k - 1] + j] = seqs[k][j]
  <1>1. PICK n \in Nat : n = Len(seqs)
    BY DEF IsSequences, IsSequence
  <1>2. \A k \in 1 .. n : IsSequence(seqs[k]) /\ Len(seqs[k]) \in Nat
    BY <1>1 DEF IsSequences, IsSequence
  <1>3. PICK upto : /\ FlattenSeq(seqs) = upto[n]
                    /\ upto[0] = << >>
                    /\ \A k \in 1 .. n : IsSequence(upto[k]) /\ upto[k] = upto[k - 1] \o seqs[k]
    BY <1>1, FlattenRecursion
  <1>4. /\ end[0] = 0
        /\ \A k \in 0 .. n : end[k] \in Nat
        /\ \A k \in 1 .. n : end[k] = end[k - 1] + Len(seqs[k])
    BY <1>1 DEF Ends
  <1> DEFINE Same(m, k) == \A j \in 1 .. Len(seqs[k]) : upto[m][end[k - 1] + j] = seqs[k][j]
             Until(m) == IsSequence(upto[m]) /\ Len(upto[m]) = end[m]
                         /\ \A k \in 1 .. m : end[k] <= end[m] /\ Same(m, k)
             T == {m \in 0 .. n : Until(m)}
  <1>5. 0 \in T
    <2>1. 0 \in 0 .. n /\ Len(upto[0]) = 0 /\ IsSequence(upto[0])
      BY <1>3, EmptySequence
    <2> QED BY <1>4, <2>1
  <1>6. ASSUME NEW m \in 0 .. (n - 1), m \in T
        PROVE  m + 1 \in T
    <2>1. m + 1 \in 1 .. n /\ (m + 1) - 1 = m /\ m \in 0 .. n /\ m + 1 \in 0 .. n /\ m \in Nat
      OBVIOUS
    <2>2. Until(m)
      BY <1>6
    <2> HIDE DEF T
    <2>3. upto[m + 1] = upto[m] \o seqs[m + 1] /\ IsSequence(upto[m + 1]) /\ IsSequence(seqs[m + 1])
      BY <1>2, <1>3, <2>1
    <2>4. PICK e \in Nat, l \in Nat : e = end[m] /\ l = Len(seqs[m + 1])
      BY <1>2, <1>4, <2>1
    <2>5. Len(upto[m]) = e /\ end[m + 1] = e + l /\ IsSequence(upto[m])
      BY <1>4, <2>1, <2>2, <2>4
    <2>6. /\ Len(upto[m + 1]) = e + l
          /\ \A i \in 1 .. e : upto[m + 1][i] = upto[m][i]
          /\ \A i \in 1 .. l : upto[m + 1][e + i] = seqs[m + 1][i]
      <3>1. PICK u, v, w : u = upto[m] /\ v = seqs[m + 1] /\ w = upto[m + 1]
        OBVIOUS
      <3>2. IsSequence(u) /\ IsSequence(v) /\ w = u \o v /\ Len(u) = e /\ Len(v) = l
        BY <2>3, <2>4, <2>5, <3>1
      <3>3. /\ Len(w) = e + l
            /\ \A i \in 1 .. e : w[i] = u[i]
            /\ \A i \in 1 .. l : w[e + i] = v[i]
        <4>1. /\ Len(u \o v) = Len(u) + Len(v)
              /\ \A i \in 1 .. Len(u) : (u \o v)[i] = u[i]
              /\ \A i \in 1 .. Len(v) : (u \o v)[Len(u) + i] = v[i]
          <5>1. IsSequence(u) /\ IsSequence(v)
            BY <3>2
          <5> QED BY <5>1, ConcatSequence
        <4> QED BY <3>2, <4>1
      <3> QED BY <3>1, <3>3
    <2>7. Same(m + 1, m + 1)
      BY <2>1, <2>4, <2>6
    <2>8. ASSUME NEW k \in 1 .. m
          PROVE  end[k] <= end[m + 1] /\ Same(m + 1, k)
      <3>1. k \in 1 .. n /\ k - 1 \in 0 .. n /\ k \in 0 .. n
        BY <2>1
      <3>2. PICK f \in Nat, h \in Nat : f = end[k - 1] /\ h = Len(seqs[k])
        BY <1>2, <1>4, <3>1
      <3>3. end[k] = f + h /\ f + h <= e
        BY <1>4, <2>2, <2>4, <3>1, <3>2
      <3>4. ASSUME NEW j \in 1 .. h
            PROVE  upto[m + 1][f + j] = seqs[k][j]
        <4>1. f + j \in 1 .. e
          BY <3>3
        <4>2. upto[m][f + j] = seqs[k][j]
          BY <2>2, <3>2
        <4> QED BY <2>6, <4>1, <4>2
      <3>5. f + h <= e + l
        BY <3>3
      <3> QED BY <2>5, <3>2, <3>3, <3>4, <3>5
    <2>9. Until(m + 1)
      <3> SUFFICES ASSUME NEW k \in 1 .. (m + 1)
                   PROVE  end[k] <= end[m + 1] /\ Same(m + 1, k)
        BY <2>3, <2>5, <2>6
      <3>1. k = m + 1 \/ k \in 1 .. m
        BY <2>1
      <3>2. end[m + 1] <= end[m + 1]
        <4>1. e + l <= e + l
          OBVIOUS
        <4> QED BY <2>5, <4>1
      <3> HIDE DEF Same
      <3> QED BY <2>7, <2>8, <3>1, <3>2
    <2> HIDE DEF Until
    <2> QED BY <2>1, <2>9 DEF T
  <1>7. n \in T
    <2> HIDE DEF T
    <2>1. 0 .. n \subseteq T
      BY <1>5, <1>6, Induction
    <2> QED BY <2>1
  <1>8. Until(n)
    BY <1>7
  <1> QED BY <1>1, <1>3, <1>8

LEMMA EndsTyped ==
    ASSUME NEW seqs, IsSequences(seqs), NEW end, Ends(seqs, end)
    PROVE  /\ Len(seqs) \in Nat
           /\ end[0] = 0
           /\ \A k \in 0 .. Len(seqs) : end[k] \in Nat
           /\ \A k \in 1 .. Len(seqs) : Len(seqs[k]) \in Nat /\ end[k] = end[k - 1] + Len(seqs[k])
  BY DEF Ends, IsSequences, IsSequence

LEMMA EndsGrow ==
    ASSUME NEW seqs, IsSequences(seqs), NEW end, Ends(seqs, end),
           NEW j \in 0 .. Len(seqs), NEW k \in 0 .. Len(seqs), j <= k
    PROVE  end[j] <= end[k]
  <1>1. PICK n \in Nat : n = Len(seqs)
    BY EndsTyped
  <1>2. /\ \A i \in 0 .. n : end[i] \in Nat
        /\ \A i \in 1 .. n : Len(seqs[i]) \in Nat /\ end[i] = end[i - 1] + Len(seqs[i])
    BY <1>1, EndsTyped
  <1> DEFINE T == {i \in 0 .. n : j <= i => end[j] <= end[i]}
  <1>3. 0 \in T
    BY <1>1, <1>2
  <1>4. ASSUME NEW i \in 0 .. (n - 1), i \in T
        PROVE  i + 1 \in T
    <2>1. i + 1 \in 1 .. n /\ i + 1 \in 0 .. n /\ (i + 1) - 1 = i /\ i \in 0 .. n
      OBVIOUS
    <2>2. PICK l \in Nat : end[i + 1] = end[i] + l
      BY <1>2, <2>1
    <2>3. end[i] \in Nat /\ end[j] \in Nat
      BY <1>1, <1>2, <2>1
    <2>4. CASE j <= i
      <3>1. end[j] <= end[i]
        BY <1>4, <2>4
      <3>2. end[j] <= end[i + 1]
        BY <2>2, <2>3, <3>1
      <3> QED BY <2>1, <3>2
    <2>5. CASE ~(j <= i)
      <3>1. j \in Nat /\ (j <= i + 1 => j = i + 1)
        BY <1>1, <2>5
      <3>2. end[i + 1] \in Nat
        BY <1>2, <2>1
      <3> QED BY <2>1, <3>1, <3>2
    <2> QED BY <2>4, <2>5
  <1> HIDE DEF T
  <1>5. 0 .. n \subseteq T
    BY <1>3, <1>4, Induction
  <1> QED BY <1>1, <1>5 DEF T

\* Every place of the sequences joined is one of an element of one of them.
LEMMA EndsFind ==
    ASSUME NEW seqs, IsSequences(seqs), NEW end, Ends(seqs, end),
           NEW i \in 1 .. end[Len(seqs)]
    PROVE  \E k \in 1 .. Len(seqs) : \E j \in 1 .. Len(seqs[k]) : i = end[k - 1] + j
  <1>1. PICK n \in Nat : n = Len(seqs)
    BY EndsTyped
  <1>2. /\ \A k \in 0 .. n : end[k] \in Nat
        /\ \A k \in 1 .. n : Len(seqs[k]) \in Nat /\ end[k] = end[k - 1] + Len(seqs[k])
        /\ end[0] = 0
    BY <1>1, EndsTyped
  <1> DEFINE Found(x) == \E k \in 1 .. n : \E j \in 1 .. Len(seqs[k]) : x = end[k - 1] + j
             T == {m \in 0 .. n : \A x \in 1 .. end[m] : Found(x)}
  <1>3. 0 \in T
    BY <1>2
  <1>4. ASSUME NEW m \in 0 .. (n - 1), m \in T
        PROVE  m + 1 \in T
    <2>1. PICK k \in 1 .. n : k = m + 1 /\ k - 1 = m /\ k \in 0 .. n /\ m \in 0 .. n
      OBVIOUS
    <2>2. PICK l \in Nat : end[k] = end[m] + l /\ l = Len(seqs[k])
      BY <1>2, <2>1
    <2>3. end[m] \in Nat
      BY <1>2, <2>1
    <2>4. ASSUME NEW x \in 1 .. end[k]
          PROVE  Found(x)
      <3>1. CASE x <= end[m]
        <4>1. x \in 1 .. end[m]
          BY <2>2, <2>3, <3>1
        <4> QED BY <1>4, <4>1
      <3>2. CASE ~(x <= end[m])
        <4>1. x - end[m] \in 1 .. l /\ x = end[m] + (x - end[m])
          BY <2>2, <2>3, <3>2
        <4> QED BY <2>1, <2>2, <4>1
      <3> QED BY <3>1, <3>2
    <2> HIDE DEF Found
    <2> QED BY <2>1, <2>4
  <1> HIDE DEF Found
  <1>5. n \in T
    <2> HIDE DEF T
    <2>1. 0 .. n \subseteq T
      BY <1>3, <1>4, Induction
    <2> QED BY <2>1
  <1>6. Found(i)
    BY <1>1, <1>5
  <1> QED BY <1>1, <1>6 DEF Found

\* The same in one: what the sequences joined are made of.
LEMMA FlattenElements ==
    ASSUME NEW seqs, IsSequences(seqs)
    PROVE  /\ IsSequence(FlattenSeq(seqs))
           /\ \A i \in 1 .. Len(FlattenSeq(seqs)) :
                 \E k \in 1 .. Len(seqs) : \E j \in 1 .. Len(seqs[k]) : FlattenSeq(seqs)[i] = seqs[k][j]
           /\ \A k \in 1 .. Len(seqs) : \A j \in 1 .. Len(seqs[k]) :
                 \E i \in 1 .. Len(FlattenSeq(seqs)) : FlattenSeq(seqs)[i] = seqs[k][j]
  <1>1. PICK end : Ends(seqs, end)
    BY EndsExist
  <1>2. PICK t : t = FlattenSeq(seqs)
    OBVIOUS
  <1>3. PICK n \in Nat : n = Len(seqs)
    BY EndsTyped, <1>1
  <1>4. /\ IsSequence(t) /\ Len(t) = end[n]
        /\ \A k \in 1 .. n : \A j \in 1 .. Len(seqs[k]) : t[end[k - 1] + j] = seqs[k][j]
    BY <1>1, <1>2, <1>3, FlattenPlaces
  <1>5. \A i \in 1 .. end[n] : \E k \in 1 .. n : \E j \in 1 .. Len(seqs[k]) : i = end[k - 1] + j
    BY <1>1, <1>3, EndsFind
  <1>6. ASSUME NEW i \in 1 .. end[n]
        PROVE  \E k \in 1 .. n : \E j \in 1 .. Len(seqs[k]) : t[i] = seqs[k][j]
    BY <1>4, <1>5
  <1>7. ASSUME NEW k \in 1 .. n, NEW j \in 1 .. Len(seqs[k])
        PROVE  \E i \in 1 .. end[n] : t[i] = seqs[k][j]
    <2>1. k \in 0 .. n /\ k - 1 \in 0 .. n
      OBVIOUS
    <2>2. PICK a \in Nat, b \in Nat, c \in Nat, l \in Nat :
                a = end[k - 1] /\ b = end[k] /\ c = end[n] /\ l = Len(seqs[k])
      <3>1. \A x \in 0 .. n : end[x] \in Nat
        BY <1>1, <1>3, EndsTyped
      <3>2. Len(seqs[k]) \in Nat
        BY <1>1, <1>3, EndsTyped
      <3>3. n \in 0 .. n
        OBVIOUS
      <3> QED BY <2>1, <3>1, <3>2, <3>3
    <2>3. b = a + l
      BY <1>1, <1>3, <2>2, EndsTyped
    <2>4. b <= c
      <3>1. n \in 0 .. n /\ k <= n
        OBVIOUS
      <3> QED BY <1>1, <1>3, <2>1, <2>2, <3>1, EndsGrow
    <2>5. a + j \in 1 .. end[n]
      BY SMTT(60), <2>2, <2>3, <2>4
    <2>6. t[a + j] = seqs[k][j]
      BY <1>4, <2>2
    <2> QED BY <2>5, <2>6
  <1> QED BY <1>2, <1>3, <1>4, <1>6, <1>7

LEMMA SetToSeqElements ==
    ASSUME NEW S, IsFiniteSet(S)
    PROVE  /\ IsSequence(SetToSeq(S))
           /\ \A i \in 1 .. Len(SetToSeq(S)) : SetToSeq(S)[i] \in S
           /\ \A e \in S : \E i \in 1 .. Len(SetToSeq(S)) : SetToSeq(S)[i] = e
  <1>1. PICK n \in Nat : n = Cardinality(S)
    BY FS_CardinalityType
  <1>2. PICK g : g \in Bijection(1 .. n, S)
    BY <1>1, FS_CardinalityType DEF ExistsBijection
  <1>3. g \in [1 .. n -> S] /\ IsInjective(g)
    BY <1>2 DEF Bijection, Injection, IsInjective
  <1>4. PICK f : f = SetToSeq(S)
    OBVIOUS
  <1>5. f \in [1 .. n -> S] /\ IsInjective(f)
    <2>1. f = CHOOSE h \in [1 .. n -> S] : IsInjective(h)
      BY <1>1, <1>4 DEF SetToSeq
    <2> QED BY <1>3, <2>1
  <1>6. f \in Injection(1 .. n, S)
    BY <1>5 DEF Injection, IsInjective
  <1>7. \A e \in S : \E i \in 1 .. n : f[i] = e
    <2> SUFFICES ASSUME NEW e \in S, \A i \in 1 .. n : f[i] # e
                 PROVE  FALSE
      OBVIOUS
    <2>1. IsFiniteSet(1 .. n) /\ Cardinality(1 .. n) = n
      BY FS_Interval
    <2>2. IsFiniteSet(S \ {e}) /\ Cardinality(S \ {e}) = n - 1
      BY <1>1, FS_RemoveElement
    <2>3. f \in [1 .. n -> S \ {e}]
      BY <1>5
    <2>4. \E x, y \in 1 .. n : x # y /\ f[x] = f[y]
      <3>1. Cardinality(1 .. n) > Cardinality(S \ {e})
        BY <2>1, <2>2
      <3> QED BY <2>1, <2>2, <2>3, <3>1, FS_PigeonHole
    <2> QED BY <1>5, <2>4 DEF IsInjective
  <1>8. IsSequence(f) /\ Len(f) = n
    <2>1. f = [i \in 1 .. n |-> f[i]]
      BY <1>5
    <2> QED BY <2>1, FunctionSequence
  <1> QED BY <1>4, <1>5, <1>7, <1>8

LEMMA ConcatIs ==
    ASSUME NEW m \in Nat, NEW n \in Nat,
           NEW s, NEW t, NEW u, IsSequence(s), IsSequence(t), IsSequence(u),
           Len(s) = m, Len(t) = n, Len(u) = m + n,
           \A i \in 1 .. m : u[i] = s[i],
           \A i \in 1 .. n : u[m + i] = t[i]
    PROVE  s \o t = u
  <1>1. PICK v : v = s \o t
    OBVIOUS
  <1>2. /\ IsSequence(v) /\ Len(v) = Len(s) + Len(t)
        /\ \A i \in 1 .. Len(s) : v[i] = s[i]
        /\ \A i \in 1 .. Len(t) : v[Len(s) + i] = t[i]
    BY <1>1, ConcatSequence
  <1>3. ASSUME NEW i \in 1 .. m + n
        PROVE  v[i] = u[i]
    <2>1. CASE i <= m
      BY <1>2, <2>1
    <2>2. CASE ~(i <= m)
      <3>1. i - m \in 1 .. n /\ m + (i - m) = i
        BY <2>2
      <3>2. v[m + (i - m)] = t[i - m] /\ u[m + (i - m)] = t[i - m]
        BY <1>2, <3>1
      <3> QED BY <3>1, <3>2
    <2> QED BY <2>1, <2>2
  <1>4. IsSequence(v) /\ Len(v) = Len(u) /\ Len(u) = m + n
    BY <1>2
  <1>5. v = u
    BY <1>3, <1>4, SameSequence
  <1> QED BY <1>1, <1>5

LEMMA Concat11 ==
    ASSUME NEW a, NEW b
    PROVE  << a >> \o << b >> = << a, b >>
  <1> DEFINE s == << a >>
             t == << b >>
             u == << a, b >>
  <1>1. IsSequence(s) /\ IsSequence(t) /\ IsSequence(u)
    BY DEF IsSequence
  <1>2. Len(s) = 1 /\ Len(t) = 1 /\ Len(u) = 2
    OBVIOUS
  <1>3. \A i \in 1 .. 1 : u[i] = s[i]
    OBVIOUS
  <1>4. \A i \in 1 .. 1 : u[1 + i] = t[i]
    OBVIOUS
  <1> HIDE DEF s, t, u
  <1>5. PICK m \in Nat, n \in Nat : m = 1 /\ n = 1
    OBVIOUS
  <1>6. Len(s) = m /\ Len(t) = n /\ Len(u) = m + n
    BY <1>2, <1>5
  <1>7. \A i \in 1 .. m : u[i] = s[i]
    BY <1>3, <1>5
  <1>8. \A i \in 1 .. n : u[m + i] = t[i]
    BY <1>4, <1>5
  <1>9. s \o t = u
    BY <1>1, <1>6, <1>7, <1>8, ConcatIs
  <1> QED BY <1>9 DEF s, t, u

LEMMA Concat12 ==
    ASSUME NEW a, NEW b, NEW c
    PROVE  << a >> \o << b, c >> = << a, b, c >>
  <1> DEFINE s == << a >>
             t == << b, c >>
             u == << a, b, c >>
  <1>1. IsSequence(s) /\ IsSequence(t) /\ IsSequence(u)
    BY DEF IsSequence
  <1>2. Len(s) = 1 /\ Len(t) = 2 /\ Len(u) = 3
    OBVIOUS
  <1>3. \A i \in 1 .. 1 : u[i] = s[i]
    OBVIOUS
  <1>4. \A i \in 1 .. 2 : u[1 + i] = t[i]
    OBVIOUS
  <1> HIDE DEF s, t, u
  <1>5. PICK m \in Nat, n \in Nat : m = 1 /\ n = 2
    OBVIOUS
  <1>6. Len(s) = m /\ Len(t) = n /\ Len(u) = m + n
    BY <1>2, <1>5
  <1>7. \A i \in 1 .. m : u[i] = s[i]
    BY <1>3, <1>5
  <1>8. \A i \in 1 .. n : u[m + i] = t[i]
    BY <1>4, <1>5
  <1>9. s \o t = u
    BY <1>1, <1>6, <1>7, <1>8, ConcatIs
  <1> QED BY <1>9 DEF s, t, u

LEMMA Concat13 ==
    ASSUME NEW a, NEW b, NEW c, NEW d
    PROVE  << a >> \o << b, c, d >> = << a, b, c, d >>
  <1> DEFINE s == << a >>
             t == << b, c, d >>
             u == << a, b, c, d >>
  <1>1. IsSequence(s) /\ IsSequence(t) /\ IsSequence(u)
    BY DEF IsSequence
  <1>2. Len(s) = 1 /\ Len(t) = 3 /\ Len(u) = 4
    OBVIOUS
  <1>3. \A i \in 1 .. 1 : u[i] = s[i]
    OBVIOUS
  <1>4. \A i \in 1 .. 3 : u[1 + i] = t[i]
    OBVIOUS
  <1> HIDE DEF s, t, u
  <1>5. PICK m \in Nat, n \in Nat : m = 1 /\ n = 3
    OBVIOUS
  <1>6. Len(s) = m /\ Len(t) = n /\ Len(u) = m + n
    BY <1>2, <1>5
  <1>7. \A i \in 1 .. m : u[i] = s[i]
    BY <1>3, <1>5
  <1>8. \A i \in 1 .. n : u[m + i] = t[i]
    BY <1>4, <1>5
  <1>9. s \o t = u
    BY <1>1, <1>6, <1>7, <1>8, ConcatIs
  <1> QED BY <1>9 DEF s, t, u

LEMMA Concat15 ==
    ASSUME NEW a, NEW b, NEW c, NEW d, NEW e, NEW f
    PROVE  << a >> \o << b, c, d, e, f >> = << a, b, c, d, e, f >>
  <1> DEFINE s == << a >>
             t == << b, c, d, e, f >>
             u == << a, b, c, d, e, f >>
  <1>1. IsSequence(s) /\ IsSequence(t) /\ IsSequence(u)
    BY DEF IsSequence
  <1>2. Len(s) = 1 /\ Len(t) = 5 /\ Len(u) = 6
    OBVIOUS
  <1>3. \A i \in 1 .. 1 : u[i] = s[i]
    OBVIOUS
  <1>4. \A i \in 1 .. 5 : u[1 + i] = t[i]
    OBVIOUS
  <1> HIDE DEF s, t, u
  <1>5. PICK m \in Nat, n \in Nat : m = 1 /\ n = 5
    OBVIOUS
  <1>6. Len(s) = m /\ Len(t) = n /\ Len(u) = m + n
    BY <1>2, <1>5
  <1>7. \A i \in 1 .. m : u[i] = s[i]
    BY <1>3, <1>5
  <1>8. \A i \in 1 .. n : u[m + i] = t[i]
    BY <1>4, <1>5
  <1>9. s \o t = u
    BY <1>1, <1>6, <1>7, <1>8, ConcatIs
  <1> QED BY <1>9 DEF s, t, u

LEMMA Concat17 ==
    ASSUME NEW a, NEW b, NEW c, NEW d, NEW e, NEW f, NEW g, NEW h
    PROVE  << a >> \o << b, c, d, e, f, g, h >> = << a, b, c, d, e, f, g, h >>
  <1> DEFINE s == << a >>
             t == << b, c, d, e, f, g, h >>
             u == << a, b, c, d, e, f, g, h >>
  <1>1. IsSequence(s) /\ IsSequence(t) /\ IsSequence(u)
    BY DEF IsSequence
  <1>2. Len(s) = 1 /\ Len(t) = 7 /\ Len(u) = 8
    OBVIOUS
  <1>3. \A i \in 1 .. 1 : u[i] = s[i]
    OBVIOUS
  <1>4. \A i \in 1 .. 7 : u[1 + i] = t[i]
    OBVIOUS
  <1> HIDE DEF s, t, u
  <1>5. PICK m \in Nat, n \in Nat : m = 1 /\ n = 7
    OBVIOUS
  <1>6. Len(s) = m /\ Len(t) = n /\ Len(u) = m + n
    BY <1>2, <1>5
  <1>7. \A i \in 1 .. m : u[i] = s[i]
    BY <1>3, <1>5
  <1>8. \A i \in 1 .. n : u[m + i] = t[i]
    BY <1>4, <1>5
  <1>9. s \o t = u
    BY <1>1, <1>6, <1>7, <1>8, ConcatIs
  <1> QED BY <1>9 DEF s, t, u

LEMMA Concat21 ==
    ASSUME NEW a, NEW b, NEW c
    PROVE  << a, b >> \o << c >> = << a, b, c >>
  <1> DEFINE s == << a, b >>
             t == << c >>
             u == << a, b, c >>
  <1>1. IsSequence(s) /\ IsSequence(t) /\ IsSequence(u)
    BY DEF IsSequence
  <1>2. Len(s) = 2 /\ Len(t) = 1 /\ Len(u) = 3
    OBVIOUS
  <1>3. \A i \in 1 .. 2 : u[i] = s[i]
    OBVIOUS
  <1>4. \A i \in 1 .. 1 : u[2 + i] = t[i]
    OBVIOUS
  <1> HIDE DEF s, t, u
  <1>5. PICK m \in Nat, n \in Nat : m = 2 /\ n = 1
    OBVIOUS
  <1>6. Len(s) = m /\ Len(t) = n /\ Len(u) = m + n
    BY <1>2, <1>5
  <1>7. \A i \in 1 .. m : u[i] = s[i]
    BY <1>3, <1>5
  <1>8. \A i \in 1 .. n : u[m + i] = t[i]
    BY <1>4, <1>5
  <1>9. s \o t = u
    BY <1>1, <1>6, <1>7, <1>8, ConcatIs
  <1> QED BY <1>9 DEF s, t, u

LEMMA Concat32 ==
    ASSUME NEW a, NEW b, NEW c, NEW d, NEW e
    PROVE  << a, b, c >> \o << d, e >> = << a, b, c, d, e >>
  <1> DEFINE s == << a, b, c >>
             t == << d, e >>
             u == << a, b, c, d, e >>
  <1>1. IsSequence(s) /\ IsSequence(t) /\ IsSequence(u)
    BY DEF IsSequence
  <1>2. Len(s) = 3 /\ Len(t) = 2 /\ Len(u) = 5
    OBVIOUS
  <1>3. \A i \in 1 .. 3 : u[i] = s[i]
    OBVIOUS
  <1>4. \A i \in 1 .. 2 : u[3 + i] = t[i]
    OBVIOUS
  <1> HIDE DEF s, t, u
  <1>5. PICK m \in Nat, n \in Nat : m = 3 /\ n = 2
    OBVIOUS
  <1>6. Len(s) = m /\ Len(t) = n /\ Len(u) = m + n
    BY <1>2, <1>5
  <1>7. \A i \in 1 .. m : u[i] = s[i]
    BY <1>3, <1>5
  <1>8. \A i \in 1 .. n : u[m + i] = t[i]
    BY <1>4, <1>5
  <1>9. s \o t = u
    BY <1>1, <1>6, <1>7, <1>8, ConcatIs
  <1> QED BY <1>9 DEF s, t, u

LEMMA Concat41 ==
    ASSUME NEW a, NEW b, NEW c, NEW d, NEW e
    PROVE  << a, b, c, d >> \o << e >> = << a, b, c, d, e >>
  <1> DEFINE s == << a, b, c, d >>
             t == << e >>
             u == << a, b, c, d, e >>
  <1>1. IsSequence(s) /\ IsSequence(t) /\ IsSequence(u)
    BY DEF IsSequence
  <1>2. Len(s) = 4 /\ Len(t) = 1 /\ Len(u) = 5
    OBVIOUS
  <1>3. \A i \in 1 .. 4 : u[i] = s[i]
    OBVIOUS
  <1>4. \A i \in 1 .. 1 : u[4 + i] = t[i]
    OBVIOUS
  <1> HIDE DEF s, t, u
  <1>5. PICK m \in Nat, n \in Nat : m = 4 /\ n = 1
    OBVIOUS
  <1>6. Len(s) = m /\ Len(t) = n /\ Len(u) = m + n
    BY <1>2, <1>5
  <1>7. \A i \in 1 .. m : u[i] = s[i]
    BY <1>3, <1>5
  <1>8. \A i \in 1 .. n : u[m + i] = t[i]
    BY <1>4, <1>5
  <1>9. s \o t = u
    BY <1>1, <1>6, <1>7, <1>8, ConcatIs
  <1> QED BY <1>9 DEF s, t, u

LEMMA Concat61 ==
    ASSUME NEW a, NEW b, NEW c, NEW d, NEW e, NEW f, NEW g
    PROVE  << a, b, c, d, e, f >> \o << g >> = << a, b, c, d, e, f, g >>
  <1> DEFINE s == << a, b, c, d, e, f >>
             t == << g >>
             u == << a, b, c, d, e, f, g >>
  <1>1. IsSequence(s) /\ IsSequence(t) /\ IsSequence(u)
    BY DEF IsSequence
  <1>2. Len(s) = 6 /\ Len(t) = 1 /\ Len(u) = 7
    OBVIOUS
  <1>3. \A i \in 1 .. 6 : u[i] = s[i]
    OBVIOUS
  <1>4. \A i \in 1 .. 1 : u[6 + i] = t[i]
    OBVIOUS
  <1> HIDE DEF s, t, u
  <1>5. PICK m \in Nat, n \in Nat : m = 6 /\ n = 1
    OBVIOUS
  <1>6. Len(s) = m /\ Len(t) = n /\ Len(u) = m + n
    BY <1>2, <1>5
  <1>7. \A i \in 1 .. m : u[i] = s[i]
    BY <1>3, <1>5
  <1>8. \A i \in 1 .. n : u[m + i] = t[i]
    BY <1>4, <1>5
  <1>9. s \o t = u
    BY <1>1, <1>6, <1>7, <1>8, ConcatIs
  <1> QED BY <1>9 DEF s, t, u

-----------------------------------------------------------------------------
(* ListingReads: what the decoder makes of any bytes, the listing reads back *)

\* What the decoder may return for an operand.
DecodedItem(item) ==
    \/ item.type = "NONE"
    \/ item.type = "REGISTER" /\ item.sign \in BOOLEAN
    \/ item.type = "IMMEDIATE"

DecodedOperand(op) ==
    \/ op.type \in {"REGISTER", "IMMEDIATE", "MEMORY"}
    \/ /\ op.type = "COMPLEX"
       /\ DecodedItem(op.data.base) /\ op.data.base.type # "NONE"
       /\ DecodedItem(op.data.index)
       /\ DecodedItem(op.data.offset)
       /\ \/ op.data.base.type = "REGISTER"
          \/ op.data.index.type # "NONE"
          \/ op.data.offset.type # "NONE"

LEMMA ItemDecoded ==
    ASSUME NEW stream, NEW place, NEW kind, NEW isOffset \in BOOLEAN
    PROVE  /\ DecodedItem(ItemAt(stream, place, kind, isOffset))
           /\ kind[1] # "NONE" => ItemAt(stream, place, kind, isOffset).type # "NONE"
           /\ kind[1] = "REGISTER" => ItemAt(stream, place, kind, isOffset).type = "REGISTER"
  BY DEF DecodedItem, ItemAt, NoItem

LEMMA OperandDecoded ==
    ASSUME NEW stream, NEW place, NEW info
    PROVE  DecodedOperand(OperandAt(stream, place, info))
  <1> DEFINE shape    == ConvertCompactToComplex(info)
             atIndex  == place + KindLength(shape.base)
             atOffset == atIndex + KindLength(shape.index)
             complex  == [base   |-> ItemAt(stream, place, shape.base, FALSE),
                          index  |-> ItemAt(stream, atIndex, shape.index, FALSE),
                          offset |-> ItemAt(stream, atOffset, shape.offset, TRUE)]
             op       == OperandAt(stream, place, info)
  <1>1. \/ op.type \in {"REGISTER", "IMMEDIATE", "MEMORY"}
        \/ op.type = "COMPLEX" /\ op.data = complex
    <2> HIDE DEF complex
    <2> QED BY DEF OperandAt, complex
  <1>2. /\ shape.base[1] # "NONE"
        /\ shape.base[1] = "REGISTER" \/ shape.offset[1] # "NONE"
    BY DEF ConvertCompactToComplex, Immediate
  <1>3. /\ DecodedItem(complex.base) /\ complex.base.type # "NONE"
        /\ DecodedItem(complex.index) /\ DecodedItem(complex.offset)
        /\ complex.base.type = "REGISTER" \/ complex.offset.type # "NONE"
    <2> HIDE DEF shape, atIndex, atOffset
    <2> QED BY <1>2, ItemDecoded
  <1> HIDE DEF complex, op
  <1>4. DecodedOperand(op)
    BY <1>1, <1>3 DEF DecodedOperand
  <1> QED BY <1>4 DEF op

FirstPlace(text, word) == SelectInSeq(text, LAMBDA w : w = word)

LEMMA FirstOfOne ==
    ASSUME NEW text, NEW n \in Nat, Len(text) = n, NEW word, NEW k \in 1 .. n, text[k] = word,
           \A i \in 1 .. n : text[i] = word => i = k
    PROVE  FirstPlace(text, word) = k
  <1> DEFINE I == {i \in 1 .. Len(text) : text[i] = word}
  <1>1. I = {k}
    OBVIOUS
  <1>2. FirstPlace(text, word) = Min(I)
    BY <1>1 DEF FirstPlace, SelectInSeq
  <1>3. Min({k}) = k
    BY DEF Min
  <1> QED BY <1>1, <1>2, <1>3

LEMMA NoneOf ==
    ASSUME NEW text, NEW n \in Nat, Len(text) = n, NEW word, \A i \in 1 .. n : text[i] # word
    PROVE  FirstPlace(text, word) = 0
  <1> DEFINE I == {i \in 1 .. Len(text) : text[i] = word}
  <1>1. I = {}
    OBVIOUS
  <1> QED BY <1>1 DEF FirstPlace, SelectInSeq

WordValue(word) == IF word[1] = "name" THEN Reg[word[2]] ELSE ValueOf(word[2])

\* An operand in brackets, read: `b` behind the bracket, `i` behind the star,
\* and `o` behind the plus.
LEMMA BracketsRead ==
    ASSUME NEW text, NEW size, NEW n \in Nat, Len(text) = n,
           text[1] = << "size", size >>, text[2] = << "[" >>,
           NEW i \in 0 .. n, NEW o \in 0 .. n,
           i # 0 => text[i] = << "*" >>, o # 0 => text[o] = << "+" >>,
           \A k \in 1 .. n : (text[k] = << "*" >> => k = i) /\ (text[k] = << "+" >> => k = o),
           text[3][1] # "hex" \/ i # 0 \/ o # 0
    PROVE  TextValue(text) =
              << "memory",
                 (WordValue(text[3]) * (IF i = 0 THEN 1 ELSE WordValue(text[i + 1]))
                    + (IF o = 0 THEN 0 ELSE WordValue(text[o + 1]))) % Word, size >>
  <1>1. FirstPlace(text, << "*" >>) = i
    <2>1. CASE i = 0
      <3>1. \A k \in 1 .. n : text[k] # << "*" >>
        BY <2>1
      <3> QED BY <2>1, <3>1, NoneOf
    <2>2. CASE i # 0
      <3>1. i \in 1 .. n
        BY <2>2
      <3> QED BY <2>2, <3>1, FirstOfOne
    <2> QED BY <2>1, <2>2
  <1>2. FirstPlace(text, << "+" >>) = o
    <2>1. CASE o = 0
      <3>1. \A k \in 1 .. n : text[k] # << "+" >>
        BY <2>1
      <3> QED BY <2>1, <3>1, NoneOf
    <2>2. CASE o # 0
      <3>1. o \in 1 .. n
        BY <2>2
      <3> QED BY <2>2, <3>1, FirstOfOne
    <2> QED BY <2>1, <2>2
  <1> DEFINE word(k)  == IF text[k][1] = "name" THEN Reg[text[k][2]] ELSE ValueOf(text[k][2])
             after(k) == IF k = 0 THEN << >> ELSE << word(k + 1) >>
             A == (IF after(i) = << >> THEN 1 ELSE after(i)[1])
             B == (IF after(o) = << >> THEN 0 ELSE after(o)[1])
  <1>3. TextValue(text) = << "memory", (word(2 + 1) * A + B) % Word, size >>
    BY SMTT(60), <1>1, <1>2 DEF TextValue, FirstPlace
  <1>4. A = IF i = 0 THEN 1 ELSE WordValue(text[i + 1])
    BY DEF WordValue
  <1>5. B = IF o = 0 THEN 0 ELSE WordValue(text[o + 1])
    BY DEF WordValue
  <1>6. word(2 + 1) = WordValue(text[3])
    BY DEF WordValue
  <1> HIDE DEF A, B, word
  <1> QED BY <1>3, <1>4, <1>5, <1>6

\* A number alone in brackets.
LEMMA NumberRead ==
    ASSUME NEW text, NEW size, NEW n \in Nat, Len(text) = n,
           text[1] = << "size", size >>, text[2] = << "[" >>, text[3][1] = "hex",
           \A k \in 1 .. n : text[k] # << "*" >> /\ text[k] # << "+" >>
    PROVE  TextValue(text) = << "memory", ValueOf(text[3][2]), size >>
  <1>1. FirstPlace(text, << "*" >>) = 0 /\ FirstPlace(text, << "+" >>) = 0
    BY NoneOf
  <1> QED BY <1>1 DEF TextValue, FirstPlace

LEMMA ItemWord ==
    ASSUME NEW item, DecodedItem(item), item.type # "NONE"
    PROVE  /\ WordValue(ItemText(item)) = ItemValue(item)
           /\ \A c : ItemText(item) # << c >>
  BY DEF DecodedItem, WordValue, ItemText, ItemValue

LEMMA RegisterReads ==
    ASSUME NEW op, op.type = "REGISTER"
    PROVE  TextValue(StringifyOperand(op)) = GetValue(op)
  <1> DEFINE text == StringifyOperand(op)
  <1>1. GetValue(op) = << "register", op.data, op.size >>
    BY DEF GetValue
  <1>2. CASE op.size = QWORD
    <2>1. text = << >> \o << << "name", op.data >> >>
      BY <1>2 DEF StringifyOperand
    <2>2. text = << << "name", op.data >> >>
      <3>1. IsSequence(<< << "name", op.data >> >>)
        BY SingleSequence
      <3>2. PICK S : << << "name", op.data >> >> \in Seq(S)
        BY <3>1, SequenceOfSet
      <3> QED BY <2>1, <3>2, ConcatEmptySeq
    <2>3. text[1] = << "name", op.data >>
      BY <2>2
    <2> HIDE DEF text
    <2>4. TextValue(text) = << "register", op.data, QWORD >>
      BY <2>3 DEF TextValue
    <2> QED BY <1>1, <1>2, <2>4 DEF text
  <1>3. CASE op.size # QWORD
    <2>1. text = << << "size", op.size >> >> \o << << "name", op.data >> >>
      BY <1>3 DEF StringifyOperand
    <2>2. text = << << "size", op.size >>, << "name", op.data >> >>
      BY <2>1, Concat11
    <2>3. text[1] = << "size", op.size >> /\ text[2] = << "name", op.data >>
      BY <2>2
    <2> HIDE DEF text
    <2>4. TextValue(text) = << "register", op.data, op.size >>
      BY <2>3 DEF TextValue
    <2> QED BY <1>1, <2>4 DEF text
  <1> QED BY <1>2, <1>3

LEMMA ImmediateReads ==
    ASSUME NEW op, op.type = "IMMEDIATE"
    PROVE  TextValue(StringifyOperand(op)) = SubSeq(GetValue(op), 1, 2)
  <1> DEFINE text == StringifyOperand(op)
             v == ValueOf(op.data)
  <1>1. GetValue(op) = << "value", v, op.size >>
    BY DEF GetValue
  <1>2. SubSeq(<< "value", v, op.size >>, 1, 2) = << "value", v >>
    <2> HIDE DEF v
    <2> DEFINE s == << "value", v, op.size >>
               u == << "value", v >>
    <2>1. IsSequence(s) /\ Len(s) = 3 /\ IsSequence(u) /\ Len(u) = 2
      BY DEF IsSequence
    <2>2. s[1] = u[1] /\ s[2] = u[2]
      OBVIOUS
    <2> HIDE DEF s, u
    <2>3. PICK m \in Int, n \in Int : m = 1 /\ n = 2
      OBVIOUS
    <2>4. IsSequence(s) /\ 1 <= m /\ n <= Len(s)
      BY <2>1, <2>3
    <2> DEFINE t == SubSeq(s, m, n)
    <2>5. /\ IsSequence(t)
          /\ Len(t) = IF m <= n THEN n - m + 1 ELSE 0
          /\ \A i \in 1 .. n - m + 1 : t[i] = s[m + i - 1]
      BY <2>4, SubSequence
    <2> HIDE DEF t
    <2>6. IsSequence(t) /\ IsSequence(u) /\ Len(t) = Len(u)
      BY <2>1, <2>3, <2>5
    <2>7. \A i \in 1 .. Len(t) : t[i] = u[i]
      BY <2>1, <2>2, <2>3, <2>5
    <2>8. t = u
      BY <2>6, <2>7, SameSequence
    <2> QED BY <2>3, <2>8 DEF s, t, u
  <1>3. text = << >> \o << << "hex", op.data >> >>
    BY DEF StringifyOperand
  <1>4. text = << << "hex", op.data >> >>
    <2>1. IsSequence(<< << "hex", op.data >> >>)
      BY SingleSequence
    <2>2. PICK S : << << "hex", op.data >> >> \in Seq(S)
      BY <2>1, SequenceOfSet
    <2> QED BY <1>3, <2>2, ConcatEmptySeq
  <1>5. text[1] = << "hex", op.data >>
    BY <1>4
  <1> HIDE DEF text
  <1>6. TextValue(text) = << "value", v >>
    BY <1>5 DEF TextValue
  <1> QED BY <1>1, <1>2, <1>6 DEF text

LEMMA MemoryReads ==
    ASSUME NEW op, op.type = "MEMORY"
    PROVE  TextValue(StringifyOperand(op)) = GetValue(op)
  <1> DEFINE text == << << "size", op.size >>, << "[" >>, << "hex", op.data >>, << "]" >> >>
             v == ValueOf(op.data)
  <1>1. StringifyOperand(op) = text
    <2>1. StringifyOperand(op) = << << "size", op.size >> >> \o << << "[" >>, << "hex", op.data >>, << "]" >> >>
      BY DEF StringifyOperand
    <2> QED BY <2>1, Concat13
  <1>2. Len(text) = 4 /\ text[1] = << "size", op.size >> /\ text[2] = << "[" >>
        /\ text[3] = << "hex", op.data >> /\ text[4] = << "]" >>
    OBVIOUS
  <1>3. \A k \in 1 .. 4 : text[k] # << "*" >> /\ text[k] # << "+" >>
    OBVIOUS
  <1> HIDE DEF text
  <1>4. PICK n \in Nat : n = 4
    OBVIOUS
  <1>5. TextValue(text) = << "memory", v, op.size >>
    <2>1. Len(text) = n /\ text[3][1] = "hex" /\ text[3][2] = op.data
      BY <1>2, <1>4
    <2>2. \A k \in 1 .. n : text[k] # << "*" >> /\ text[k] # << "+" >>
      BY <1>3, <1>4
    <2>3. TextValue(text) = << "memory", ValueOf(text[3][2]), op.size >>
      BY <1>2, <2>1, <2>2, NumberRead
    <2> QED BY <2>1, <2>3
  <1>6. GetValue(op) = << "memory", v, op.size >>
    BY DEF GetValue, Address
  <1> QED BY <1>1, <1>5, <1>6

LEMMA ConcatEmpty ==
    ASSUME NEW s, IsSequence(s)
    PROVE  << >> \o s = s /\ s \o << >> = s
  <1>1. PICK S : s \in Seq(S)
    BY SequenceOfSet
  <1> QED BY <1>1, ConcatEmptySeq

\* The words of an operand in brackets, by the parts that are there.
BracketsText(size, b, i, o, index, off) ==
    CASE ~index /\ ~off -> << size, << "[" >>, b, << "]" >> >>
      [] index /\ ~off  -> << size, << "[" >>, b, << "*" >>, i, << "]" >> >>
      [] ~index /\ off  -> << size, << "[" >>, b, << "+" >>, o, << "]" >> >>
      [] OTHER             -> << size, << "[" >>, b, << "*" >>, i, << "+" >>, o, << "]" >> >>

LEMMA ComplexWords ==
    ASSUME NEW op, op.type = "COMPLEX", op.data.base.type # "NONE"
    PROVE  StringifyOperand(op) =
              BracketsText(<< "size", op.size >>, ItemText(op.data.base), ItemText(op.data.index),
                           ItemText(op.data.offset), op.data.index.type # "NONE", op.data.offset.type # "NONE")
  <1> DEFINE z == << "size", op.size >>
             b == ItemText(op.data.base)
             i == ItemText(op.data.index)
             o == ItemText(op.data.offset)
             B == << >> \o << b >>
             I == PartText(op.data.index, << << "*" >> >>)
             O == PartText(op.data.offset, << << "+" >> >>)
             T == B \o I \o O
             L == << << "[" >> >>
             R == << << "]" >> >>
  <1>1. StringifyOperand(op) = << z >> \o (L \o T \o R)
    BY DEF StringifyOperand, ComplexText, PartText
  <1>2. B = << b >>
    BY ConcatEmpty, SingleSequence
  <1>3. I = IF op.data.index.type # "NONE" THEN << << "*" >>, i >> ELSE << >>
    BY Concat11 DEF PartText
  <1>4. O = IF op.data.offset.type # "NONE" THEN << << "+" >>, o >> ELSE << >>
    BY Concat11 DEF PartText
  <1> HIDE DEF z, b, i, o, B, I, O
  <1>5. CASE op.data.index.type = "NONE" /\ op.data.offset.type = "NONE"
    <2>1. T = << b >>
      <3>1. << b >> \o << >> = << b >>
        BY ConcatEmpty, SingleSequence
      <3> QED BY <3>1, <1>2, <1>3, <1>4, <1>5
    <2>2. L \o T = << << "[" >>, b >>
      BY <2>1, Concat11
    <2>3. L \o T \o R = << << "[" >>, b, << "]" >> >>
      BY <2>2, Concat21
    <2>4. << z >> \o << << "[" >>, b, << "]" >> >> = << z, << "[" >>, b, << "]" >> >>
      BY Concat13
    <2>5. StringifyOperand(op) = << z, << "[" >>, b, << "]" >> >>
      BY <1>1, <2>3, <2>4
    <2> QED BY <1>5, <2>5 DEF BracketsText, z, b, i, o
  <1>6. CASE op.data.index.type # "NONE" /\ op.data.offset.type = "NONE"
    <2>1. T = << b, << "*" >>, i >>
      <3>1. << b >> \o << << "*" >>, i >> = << b, << "*" >>, i >>
        BY Concat12
      <3>2. IsSequence(<< b, << "*" >>, i >>)
        BY DEF IsSequence
      <3>3. << b, << "*" >>, i >> \o << >> = << b, << "*" >>, i >>
        BY <3>2, ConcatEmpty
      <3> QED BY <3>1, <3>3, <1>2, <1>3, <1>4, <1>6
    <2>2. L \o T = << << "[" >>, b, << "*" >>, i >>
      BY <2>1, Concat13
    <2>3. L \o T \o R = << << "[" >>, b, << "*" >>, i, << "]" >> >>
      BY <2>2, Concat41
    <2>4. << z >> \o << << "[" >>, b, << "*" >>, i, << "]" >> >> = << z, << "[" >>, b, << "*" >>, i, << "]" >> >>
      BY Concat15
    <2>5. StringifyOperand(op) = << z, << "[" >>, b, << "*" >>, i, << "]" >> >>
      BY <1>1, <2>3, <2>4
    <2> QED BY <1>6, <2>5 DEF BracketsText, z, b, i, o
  <1>7. CASE op.data.index.type = "NONE" /\ op.data.offset.type # "NONE"
    <2>1. T = << b, << "+" >>, o >>
      <3>1. << b >> \o << >> = << b >>
        BY ConcatEmpty, SingleSequence
      <3>2. << b >> \o << << "+" >>, o >> = << b, << "+" >>, o >>
        BY Concat12
      <3> QED BY <3>1, <3>2, <1>2, <1>3, <1>4, <1>7
    <2>2. L \o T = << << "[" >>, b, << "+" >>, o >>
      BY <2>1, Concat13
    <2>3. L \o T \o R = << << "[" >>, b, << "+" >>, o, << "]" >> >>
      BY <2>2, Concat41
    <2>4. << z >> \o << << "[" >>, b, << "+" >>, o, << "]" >> >> = << z, << "[" >>, b, << "+" >>, o, << "]" >> >>
      BY Concat15
    <2>5. StringifyOperand(op) = << z, << "[" >>, b, << "+" >>, o, << "]" >> >>
      BY <1>1, <2>3, <2>4
    <2> QED BY <1>7, <2>5 DEF BracketsText, z, b, i, o
  <1>8. CASE op.data.index.type # "NONE" /\ op.data.offset.type # "NONE"
    <2>1. T = << b, << "*" >>, i, << "+" >>, o >>
      <3>1. << b >> \o << << "*" >>, i >> = << b, << "*" >>, i >>
        BY Concat12
      <3>2. << b, << "*" >>, i >> \o << << "+" >>, o >> = << b, << "*" >>, i, << "+" >>, o >>
        BY Concat32
      <3> QED BY <3>1, <3>2, <1>2, <1>3, <1>4, <1>8
    <2>2. L \o T = << << "[" >>, b, << "*" >>, i, << "+" >>, o >>
      BY <2>1, Concat15
    <2>3. L \o T \o R = << << "[" >>, b, << "*" >>, i, << "+" >>, o, << "]" >> >>
      BY ZenonT(60), <2>2, Concat61
    <2>4. << z >> \o << << "[" >>, b, << "*" >>, i, << "+" >>, o, << "]" >> >> = << z, << "[" >>, b, << "*" >>, i, << "+" >>, o, << "]" >> >>
      BY Concat17
    <2>5. StringifyOperand(op) = << z, << "[" >>, b, << "*" >>, i, << "+" >>, o, << "]" >> >>
      BY <1>1, <2>3, <2>4
    <2> QED BY <1>8, <2>5 DEF BracketsText, z, b, i, o
  <1> QED BY <1>5, <1>6, <1>7, <1>8

\* Of the n words the star is word x and the plus word y, if they are there.
BracketsAt(text, size, b, i, o, index, off, n, x, y) ==
    /\ Len(text) = n /\ n \in Nat /\ x \in 0 .. n /\ y \in 0 .. n
    /\ text[1] = size /\ text[2] = << "[" >> /\ text[3] = b
    /\ (index <=> x # 0) /\ (off <=> y # 0)
    /\ x # 0 => text[x] = << "*" >> /\ text[x + 1] = i
    /\ y # 0 => text[y] = << "+" >> /\ text[y + 1] = o
    /\ \A k \in 1 .. n : (text[k] = << "*" >> => k = x) /\ (text[k] = << "+" >> => k = y)

\* The words stand where they should.
LEMMA BracketsPlaces ==
    ASSUME NEW size, NEW b, NEW i, NEW o, NEW index \in BOOLEAN, NEW off \in BOOLEAN,
           \A c : size # << c >> /\ b # << c >> /\ i # << c >> /\ o # << c >>
    PROVE  \E n, x, y : BracketsAt(BracketsText(size, b, i, o, index, off),
                                  size, b, i, o, index, off, n, x, y)
  <1> DEFINE text == BracketsText(size, b, i, o, index, off)
  <1>1. CASE ~index /\ ~off
    <2>1. text = << size, << "[" >>, b, << "]" >> >>
      BY <1>1 DEF BracketsText
    <2>2. Len(text) = 4 /\ text[1] = size /\ text[2] = << "[" >> /\ text[3] = b /\ text[4] = << "]" >>
      BY <2>1
    <2> HIDE DEF text
    <2>3. \A k \in 1 .. 4 : text[k] # << "*" >> /\ text[k] # << "+" >>
      BY <2>2
    <2>4. BracketsAt(text, size, b, i, o, index, off, 4, 0, 0)
      <3>1. text[4 + 1] = text[5] /\ text[6 + 1] = text[7]
        OBVIOUS
      <3> QED BY <1>1, <2>2, <2>3, <3>1 DEF BracketsAt
    <2> QED BY <2>4 DEF text
  <1>2. CASE index /\ ~off
    <2>1. text = << size, << "[" >>, b, << "*" >>, i, << "]" >> >>
      BY <1>2 DEF BracketsText
    <2>2. /\ Len(text) = 6 /\ text[1] = size /\ text[2] = << "[" >> /\ text[3] = b
          /\ text[4] = << "*" >> /\ text[5] = i /\ text[6] = << "]" >>
      BY <2>1
    <2> HIDE DEF text
    <2>3. \A k \in 1 .. 6 : (text[k] = << "*" >> => k = 4) /\ text[k] # << "+" >>
      BY <2>2
    <2>4. BracketsAt(text, size, b, i, o, index, off, 6, 4, 0)
      <3>1. text[4 + 1] = text[5] /\ text[6 + 1] = text[7]
        OBVIOUS
      <3> QED BY <1>2, <2>2, <2>3, <3>1 DEF BracketsAt
    <2> QED BY <2>4 DEF text
  <1>3. CASE ~index /\ off
    <2>1. text = << size, << "[" >>, b, << "+" >>, o, << "]" >> >>
      BY <1>3 DEF BracketsText
    <2>2. /\ Len(text) = 6 /\ text[1] = size /\ text[2] = << "[" >> /\ text[3] = b
          /\ text[4] = << "+" >> /\ text[5] = o /\ text[6] = << "]" >>
      BY <2>1
    <2> HIDE DEF text
    <2>3. \A k \in 1 .. 6 : (text[k] = << "+" >> => k = 4) /\ text[k] # << "*" >>
      BY <2>2
    <2>4. BracketsAt(text, size, b, i, o, index, off, 6, 0, 4)
      <3>1. text[4 + 1] = text[5] /\ text[6 + 1] = text[7]
        OBVIOUS
      <3> QED BY <1>3, <2>2, <2>3, <3>1 DEF BracketsAt
    <2> QED BY <2>4 DEF text
  <1>4. CASE index /\ off
    <2>1. text = << size, << "[" >>, b, << "*" >>, i, << "+" >>, o, << "]" >> >>
      BY <1>4 DEF BracketsText
    <2>2. /\ Len(text) = 8 /\ text[1] = size /\ text[2] = << "[" >> /\ text[3] = b
          /\ text[4] = << "*" >> /\ text[5] = i /\ text[6] = << "+" >> /\ text[7] = o /\ text[8] = << "]" >>
      BY <2>1
    <2> HIDE DEF text
    <2>3. \A k \in 1 .. 8 : (text[k] = << "*" >> => k = 4) /\ (text[k] = << "+" >> => k = 6)
      BY <2>2
    <2>4. BracketsAt(text, size, b, i, o, index, off, 8, 4, 6)
      <3>1. text[4 + 1] = text[5] /\ text[6 + 1] = text[7]
        OBVIOUS
      <3> QED BY <1>4, <2>2, <2>3, <3>1 DEF BracketsAt
    <2> QED BY <2>4 DEF text
  <1> QED BY <1>1, <1>2, <1>3, <1>4

LEMMA ComplexReads ==
    ASSUME NEW op, DecodedOperand(op), op.type = "COMPLEX",
           ~(op.data.offset.type = "REGISTER" /\ ~op.data.offset.sign)
    PROVE  TextValue(StringifyOperand(op)) = GetValue(op)
  <1> DEFINE size   == << "size", op.size >>
             b      == ItemText(op.data.base)
             i      == ItemText(op.data.index)
             o      == ItemText(op.data.offset)
             index  == op.data.index.type # "NONE"
             offset0 == op.data.offset.type # "NONE"
             text   == BracketsText(size, b, i, o, index, offset0)
             A      == IF index THEN ItemValue(op.data.index) ELSE 1
             B      == IF offset0 THEN ItemValue(op.data.offset) ELSE 0
  <1>1. StringifyOperand(op) = text
    BY ComplexWords DEF DecodedOperand
  <1>2. GetValue(op) = << "memory", (ItemValue(op.data.base) * A + B) % Word, op.size >>
    <2>1. Base(op.data) = ItemValue(op.data.base)
      BY DEF Base, DecodedOperand
    <2>2. Index(op.data) = A
      BY DEF Index, DecodedOperand
    <2>3. Offset(op.data) = B
      BY DEF Offset
    <2> QED BY <2>1, <2>2, <2>3 DEF GetValue, Address
  <1>3. \A c : size # << c >> /\ b # << c >> /\ i # << c >> /\ o # << c >>
    BY DEF ItemText
  <1>4. PICK n, x, y : BracketsAt(text, size, b, i, o, index, offset0, n, x, y)
    <2>1. index \in BOOLEAN /\ offset0 \in BOOLEAN
      OBVIOUS
    <2> HIDE DEF size, b, i, o, index, offset0
    <2> QED BY <1>3, <2>1, BracketsPlaces
  <1>5. /\ WordValue(b) = ItemValue(op.data.base)
        /\ index => WordValue(i) = ItemValue(op.data.index)
        /\ offset0 => WordValue(o) = ItemValue(op.data.offset)
    BY ItemWord DEF DecodedOperand
  <1>6. b[1] # "hex" \/ index \/ offset0
    BY DEF DecodedOperand, ItemText
  <1>7. TextValue(text) = << "memory",
            (WordValue(text[3]) * (IF x = 0 THEN 1 ELSE WordValue(text[x + 1]))
               + (IF y = 0 THEN 0 ELSE WordValue(text[y + 1]))) % Word, op.size >>
    <2> HIDE DEF b, i, o, index, offset0, text
    <2>1. /\ Len(text) = n /\ n \in Nat /\ x \in 0 .. n /\ y \in 0 .. n
          /\ text[1] = << "size", op.size >> /\ text[2] = << "[" >>
          /\ x # 0 => text[x] = << "*" >>
          /\ y # 0 => text[y] = << "+" >>
          /\ \A k \in 1 .. n : (text[k] = << "*" >> => k = x) /\ (text[k] = << "+" >> => k = y)
      BY <1>4 DEF BracketsAt
    <2>2. text[3][1] # "hex" \/ x # 0 \/ y # 0
      BY <1>4, <1>6 DEF BracketsAt
    <2> DEFINE z == op.size
    <2> HIDE DEF z
    <2>3. /\ text[1] = << "size", z >>
          /\ \A k \in 1 .. n : (text[k] = << "*" >> => k = x) /\ (text[k] = << "+" >> => k = y)
      BY <2>1 DEF z
    <2>4. TextValue(text) = << "memory",
             (WordValue(text[3]) * (IF x = 0 THEN 1 ELSE WordValue(text[x + 1]))
               + (IF y = 0 THEN 0 ELSE WordValue(text[y + 1]))) % Word, z >>
      BY ZenonT(60), <2>1, <2>2, <2>3, BracketsRead
    <2> QED BY <2>4 DEF z
  <1>8. (IF x = 0 THEN 1 ELSE WordValue(text[x + 1])) = A
    <2> HIDE DEF b, i, o, offset0, text, size, index
    <2> QED BY <1>4, <1>5 DEF BracketsAt
  <1>9. (IF y = 0 THEN 0 ELSE WordValue(text[y + 1])) = B
    <2> HIDE DEF b, i, o, offset0, text, size, index
    <2> QED BY <1>4, <1>5 DEF BracketsAt
  <1>10. WordValue(text[3]) = ItemValue(op.data.base)
    <2> HIDE DEF b, i, o, offset0, text, size, index
    <2> QED BY <1>4, <1>5 DEF BracketsAt
  <1> HIDE DEF text, A, B
  <1> QED BY <1>1, <1>2, <1>7, <1>8, <1>9, <1>10

\* What the disassembler has printed: of every operand, its text.
ListingInv ==
    /\ IsSequence(listing)
    /\ \A i \in 1 .. Len(listing) :
          /\ Len(listing[i].text) \in Nat
          /\ \A j \in 1 .. Len(listing[i].text) :
                /\ DecodedOperand(listing[i].ins.operands[j])
                /\ listing[i].text[j] = StringifyOperand(listing[i].ins.operands[j])

LEMMA ListingInit == Init => ListingInv
  BY EmptySequence DEF Init, ListingInv

LEMMA DecodedOperands ==
    ASSUME NEW stream, NEW place, NEW ins, DecodeInstruction(stream, place).ok,
           ins = DecodeInstruction(stream, place).ins
    PROVE  \E n \in 0 .. 3 : /\ IsSequence(ins.operands)
                             /\ Len(ins.operands) = n
                             /\ \A j \in 1 .. n : DecodedOperand(ins.operands[j])
  <1> DEFINE count  == GetArgCountForOpcode(stream[place + 1])
             info[i \in 1 .. 3] ==
                InfoAt(stream, place + 1 + (IF i > 1 THEN info[1].length ELSE 0)
                                  + (IF i > 2 THEN info[2].length ELSE 0))
             start[i \in 1 .. 4] ==
                IF i = 1 THEN place + 1 + (IF count > 0 THEN info[1].length ELSE 0)
                                   + (IF count > 1 THEN info[2].length ELSE 0)
                                   + (IF count > 2 THEN info[3].length ELSE 0)
                         ELSE start[i - 1] + OperandLength(info[i - 1])
             operands == [i \in 1 .. count |-> OperandAt(stream, start[i], info[i])]
  <1>1. ins.operands = operands
    <2> HIDE DEF info, start
    <2> DEFINE ok == /\ place + 1 + 2 * count <= Len(stream)
                     /\ start[count + 1] <= Len(stream)
                     /\ ~Combined(count, info)
                     /\ \A i \in 1 .. count :
                           /\ info[i].type \notin {14, 15}
                           /\ \A r \in OperandRegisters(operands[i]) : ValidRegister(r)
    <2>1. DecodeInstruction(stream, place) =
             IF ok THEN [ok |-> TRUE, next |-> start[count + 1],
                         ins |-> [opcode |-> stream[place + 1], operands |-> operands]]
             ELSE NotDecoded
      BY DEF DecodeInstruction, info, start
    <2> HIDE DEF ok, operands, count
    <2>2. ok
      BY <2>1 DEF NotDecoded
    <2> QED BY <2>1, <2>2
  <1>2. count \in 0 .. 3
    BY DEF GetArgCountForOpcode
  <1> HIDE DEF count, info, start
  <1>3. operands = [i \in 1 .. count |-> operands[i]] /\ count \in Nat
    BY <1>2
  <1>4. \A j \in 1 .. count : DecodedOperand(operands[j])
    BY OperandDecoded
  <1> HIDE DEF operands
  <1>5. IsSequence(operands) /\ Len(operands) = count
    BY <1>3, FunctionSequence
  <1> QED BY <1>1, <1>2, <1>4, <1>5

LEMMA ListingStep == ListingInv /\ [Next]_vars => ListingInv'
  <1> SUFFICES ASSUME ListingInv, [Next]_vars PROVE ListingInv'
    OBVIOUS
  <1>1. CASE listing' = listing
    BY <1>1 DEF ListingInv
  <1>2. CASE Disassemble
    <2> DEFINE ins   == DecodeInstruction(file, offset).ins
               entry == [ins  |-> ins,
                         text |-> [i \in 1 .. Len(ins.operands) |-> StringifyOperand(ins.operands[i])]]
    <2>1. DecodeInstruction(file, offset).ok /\ listing' = Append(listing, entry)
      BY <1>2 DEF Disassemble
    <2>2. PICK n \in 0 .. 3 : Len(ins.operands) = n /\ \A j \in 1 .. n : DecodedOperand(ins.operands[j])
      BY <2>1, DecodedOperands
    <2> HIDE DEF ins
    <2>3. /\ Len(entry.text) = n
          /\ \A j \in 1 .. n : entry.text[j] = StringifyOperand(entry.ins.operands[j])
      <3>1. entry.text = [i \in 1 .. n |-> StringifyOperand(ins.operands[i])]
        BY <2>2
      <3> DEFINE t == entry.text
      <3>2. t = [i \in 1 .. n |-> t[i]] /\ n \in Nat /\ \A j \in 1 .. n : t[j] = StringifyOperand(ins.operands[j])
        BY <3>1
      <3>3. entry.ins = ins
        OBVIOUS
      <3> HIDE DEF entry
      <3>4. Len(t) = n
        BY <3>2, FunctionSequence
      <3> QED BY <3>2, <3>3, <3>4
    <2>4. entry.ins = ins
      OBVIOUS
    <2> HIDE DEF entry
    <2>5. /\ IsSequence(listing')
          /\ Len(listing') = Len(listing) + 1
          /\ listing'[Len(listing) + 1] = entry
          /\ \A i \in 1 .. Len(listing) : listing'[i] = listing[i]
      BY <2>1, AppendSequence DEF ListingInv
    <2>6. ASSUME NEW i \in 1 .. Len(listing')
          PROVE  /\ Len(listing'[i].text) \in Nat
                 /\ \A j \in 1 .. Len(listing'[i].text) :
                       /\ DecodedOperand(listing'[i].ins.operands[j])
                       /\ listing'[i].text[j] = StringifyOperand(listing'[i].ins.operands[j])
      <3>1. Len(listing) \in Nat
        BY DEF ListingInv, IsSequence
      <3>2. CASE i = Len(listing) + 1
        <4>1. listing'[i] = entry
          BY <2>5, <3>2
        <4> QED BY <2>2, <2>3, <2>4, <4>1
      <3>3. CASE i \in 1 .. Len(listing)
        <4>1. listing'[i] = listing[i]
          BY <2>5, <3>3
        <4> QED BY <3>3, <4>1 DEF ListingInv
      <3> QED BY <2>5, <3>1, <3>2, <3>3
    <2> QED BY <2>5, <2>6 DEF ListingInv
  <1> QED
    BY <1>1, <1>2 DEF Next, vars, StartSection, StartBlock, EmitInstruction, EmitData, EmitReference,
       EmitAlignment, EmitSkip, Refuse, EndSection, FillBlock, EndFill, WriteBinary, WriteELF

LEMMA ListingInvReads == ListingInv => ListingReads
  <1> SUFFICES ASSUME ListingInv, NEW i \in 1 .. Len(listing), NEW j \in 1 .. Len(listing[i].text)
               PROVE  LET op    == listing[i].ins.operands[j]
                          value == GetValue(op)
                          read  == TextValue(listing[i].text[j])
                      IN  \/ op.type = "COMPLEX" /\ op.data.offset.type = "REGISTER" /\ ~op.data.offset.sign
                          \/ read = IF op.type = "IMMEDIATE" THEN SubSeq(value, 1, 2) ELSE value
    BY DEF ListingReads
  <1> DEFINE op == listing[i].ins.operands[j]
  <1>1. DecodedOperand(op) /\ listing[i].text[j] = StringifyOperand(op)
    BY DEF ListingInv
  <1> HIDE DEF op
  <1>2. op.type \in {"REGISTER", "IMMEDIATE", "MEMORY", "COMPLEX"}
    BY <1>1 DEF DecodedOperand
  <1>3. CASE op.type = "REGISTER"
    BY <1>1, <1>3, RegisterReads DEF op
  <1>4. CASE op.type = "IMMEDIATE"
    BY <1>1, <1>4, ImmediateReads DEF op
  <1>5. CASE op.type = "MEMORY"
    BY <1>1, <1>5, MemoryReads DEF op
  <1>6. CASE op.type = "COMPLEX"
    BY <1>1, <1>6, ComplexReads DEF op
  <1> QED BY <1>2, <1>3, <1>4, <1>5, <1>6

THEOREM ListingReadsCorrect == Spec => []ListingReads
  <1>1. Spec => []ListingInv
    BY ListingInit, ListingStep, PTL DEF Spec
  <1> QED BY <1>1, ListingInvReads, PTL

-----------------------------------------------------------------------------
(* DecodeInstruction without its recursive functions                       *)

\* The infos and the starts of the operands that DecodeInstruction works with.
InfosAt(stream, place, info) ==
    /\ info[1] = InfoAt(stream, place + 1)
    /\ info[2] = InfoAt(stream, place + 1 + info[1].length)
    /\ info[3] = InfoAt(stream, place + 1 + info[1].length + info[2].length)

StartsAt(place, count, info, start) ==
    /\ start[1] = place + 1 + (IF count > 0 THEN info[1].length ELSE 0)
                            + (IF count > 1 THEN info[2].length ELSE 0)
                            + (IF count > 2 THEN info[3].length ELSE 0)
    /\ \A i \in 1 .. 3 : start[i + 1] = start[i] + OperandLength(info[i])

LEMMA InfoLength ==
    ASSUME NEW stream, NEW place
    PROVE  InfoAt(stream, place).length \in Nat
  BY DEF InfoAt

InfoOf(stream, place, info) ==
    [i \in 1 .. 3 |-> InfoAt(stream, place + 1 + (IF i > 1 THEN info[1].length ELSE 0)
                                          + (IF i > 2 THEN info[2].length ELSE 0))]

LEMMA InfosExist ==
    ASSUME NEW stream, NEW place \in Nat
    PROVE  LET info == CHOOSE f : f = InfoOf(stream, place, f)
           IN  InfosAt(stream, place, info)
  <1> DEFINE i1 == InfoAt(stream, place + 1)
             i2 == InfoAt(stream, place + 1 + i1.length)
             i3 == InfoAt(stream, place + 1 + i1.length + i2.length)
             g  == << i1, i2, i3 >>
  <1>1. i1.length \in Nat /\ i2.length \in Nat
    BY InfoLength
  <1>2. InfoOf(stream, place, g) = g
    <2>1. g[1] = i1 /\ g[2] = i2 /\ g[3] = i3 /\ g = [i \in 1 .. 3 |-> g[i]]
      OBVIOUS
    <2> DEFINE h == InfoOf(stream, place, g)
    <2>2. h = [i \in 1 .. 3 |-> h[i]]
      BY DEF InfoOf
    <2>3. h[1] = i1
      <3>1. h[1] = InfoAt(stream, place + 1 + 0 + 0)
        BY DEF InfoOf
      <3>2. place + 1 + 0 + 0 = place + 1
        OBVIOUS
      <3> QED BY <3>1, <3>2
    <2>4. h[2] = i2
      <3>1. h[2] = InfoAt(stream, place + 1 + g[1].length + 0)
        BY DEF InfoOf
      <3>2. place + 1 + i1.length + 0 = place + 1 + i1.length
        BY <1>1
      <3> QED BY <2>1, <3>1, <3>2
    <2>5. h[3] = i3
      BY <2>1 DEF InfoOf
    <2> HIDE DEF g, h, i1, i2, i3
    <2>6. \A i \in 1 .. 3 : h[i] = g[i]
      BY <2>1, <2>3, <2>4, <2>5
    <2> QED BY <2>1, <2>2, <2>6 DEF h
  <1> DEFINE info == CHOOSE f : f = InfoOf(stream, place, f)
  <1> HIDE DEF g
  <1>3. info = InfoOf(stream, place, info)
    BY <1>2
  <1> HIDE DEF info, i1, i2, i3
  <1>4. info[1] = InfoAt(stream, place + 1)
    <2>1. info[1] = InfoAt(stream, place + 1 + 0 + 0)
      BY <1>3 DEF InfoOf
    <2>2. place + 1 + 0 + 0 = place + 1
      OBVIOUS
    <2> QED BY <2>1, <2>2
  <1>5. info[1].length \in Nat
    BY <1>4, InfoLength
  <1>6. info[2] = InfoAt(stream, place + 1 + info[1].length)
    <2>1. info[2] = InfoAt(stream, place + 1 + info[1].length + 0)
      BY <1>3 DEF InfoOf
    <2>2. place + 1 + info[1].length + 0 = place + 1 + info[1].length
      BY <1>5
    <2> QED BY <2>1, <2>2
  <1>7. info[3] = InfoAt(stream, place + 1 + info[1].length + info[2].length)
    BY <1>3 DEF InfoOf
  <1> QED BY <1>4, <1>6, <1>7 DEF InfosAt, info

StartOf(place, count, info, start) ==
    [i \in 1 .. 4 |-> IF i = 1 THEN place + 1 + (IF count > 0 THEN info[1].length ELSE 0)
                                             + (IF count > 1 THEN info[2].length ELSE 0)
                                             + (IF count > 2 THEN info[3].length ELSE 0)
                      ELSE start[i - 1] + OperandLength(info[i - 1])]

LEMMA StartsExist ==
    ASSUME NEW place, NEW count, NEW info
    PROVE  LET start == CHOOSE f : f = StartOf(place, count, info, f)
           IN  StartsAt(place, count, info, start)
  <1> DEFINE s1 == place + 1 + (IF count > 0 THEN info[1].length ELSE 0)
                             + (IF count > 1 THEN info[2].length ELSE 0)
                             + (IF count > 2 THEN info[3].length ELSE 0)
             s2 == s1 + OperandLength(info[1])
             s3 == s2 + OperandLength(info[2])
             s4 == s3 + OperandLength(info[3])
             g  == << s1, s2, s3, s4 >>
  <1>1. StartOf(place, count, info, g) = g
    <2> DEFINE h == StartOf(place, count, info, g)
    <2>1. g[1] = s1 /\ g[2] = s2 /\ g[3] = s3 /\ g[4] = s4 /\ g = [i \in 1 .. 4 |-> g[i]]
      OBVIOUS
    <2>2. h = [i \in 1 .. 4 |-> h[i]]
      BY DEF StartOf
    <2>3. h[1] = s1
      BY DEF StartOf
    <2>4. h[2] = s2 /\ h[3] = s3 /\ h[4] = s4
      <3> HIDE DEF s1, s2, s3, s4
      <3>1. g[2 - 1] = s1 /\ g[3 - 1] = s2 /\ g[4 - 1] = s3
        BY <2>1
      <3>2. /\ h[2] = g[2 - 1] + OperandLength(info[2 - 1])
            /\ h[3] = g[3 - 1] + OperandLength(info[3 - 1])
            /\ h[4] = g[4 - 1] + OperandLength(info[4 - 1])
        BY DEF StartOf
      <3>3. info[2 - 1] = info[1] /\ info[3 - 1] = info[2] /\ info[4 - 1] = info[3]
        OBVIOUS
      <3> HIDE DEF g, h
      <3> QED BY <3>1, <3>2, <3>3 DEF s2, s3, s4
    <2> HIDE DEF g, h, s1, s2, s3, s4
    <2>5. \A i \in 1 .. 4 : h[i] = g[i]
      BY <2>1, <2>3, <2>4
    <2> QED BY <2>1, <2>2, <2>5 DEF h
  <1> DEFINE start == CHOOSE f : f = StartOf(place, count, info, f)
  <1> HIDE DEF g
  <1>2. start = StartOf(place, count, info, start)
    BY <1>1
  <1> HIDE DEF start
  <1>3. start[1] = s1
    BY <1>2 DEF StartOf
  <1>4. ASSUME NEW i \in 1 .. 3
        PROVE  start[i + 1] = start[i] + OperandLength(info[i])
    <2>1. i + 1 \in 1 .. 4 /\ i + 1 # 1 /\ (i + 1) - 1 = i
      OBVIOUS
    <2> DEFINE j == i + 1
    <2>2. j \in 1 .. 4 /\ j # 1 /\ j - 1 = i
      BY <2>1
    <2> HIDE DEF j
    <2>3. start[j] = start[j - 1] + OperandLength(info[j - 1])
      BY <1>2, <2>2 DEF StartOf
    <2> QED BY <2>2, <2>3 DEF j
  <1> QED BY <1>3, <1>4 DEF StartsAt, start

\* DecodeInstruction without its recursive functions.
LEMMA DecodeShape ==
    ASSUME NEW stream, NEW place \in Nat
    PROVE  LET count == GetArgCountForOpcode(stream[place + 1])
           IN  \E info, start :
                 /\ InfosAt(stream, place, info)
                 /\ StartsAt(place, count, info, start)
                 /\ LET operands == [i \in 1 .. count |-> OperandAt(stream, start[i], info[i])]
                    IN  DecodeInstruction(stream, place) =
                          IF /\ place + 1 + 2 * count <= Len(stream)
                             /\ start[count + 1] <= Len(stream)
                             /\ ~Combined(count, info)
                             /\ \A i \in 1 .. count :
                                   /\ info[i].type \notin {14, 15}
                                   /\ \A r \in OperandRegisters(operands[i]) : ValidRegister(r)
                          THEN [ok |-> TRUE, next |-> start[count + 1],
                                ins |-> [opcode |-> stream[place + 1], operands |-> operands]]
                          ELSE NotDecoded
  <1> DEFINE count == GetArgCountForOpcode(stream[place + 1])
             info  == CHOOSE f : f = InfoOf(stream, place, f)
             start == CHOOSE f : f = StartOf(place, count, info, f)
             operands == [i \in 1 .. count |-> OperandAt(stream, start[i], info[i])]
  <1>1. DecodeInstruction(stream, place) =
          IF /\ place + 1 + 2 * count <= Len(stream)
             /\ start[count + 1] <= Len(stream)
             /\ ~Combined(count, info)
             /\ \A i \in 1 .. count :
                   /\ info[i].type \notin {14, 15}
                   /\ \A r \in OperandRegisters(operands[i]) : ValidRegister(r)
          THEN [ok |-> TRUE, next |-> start[count + 1],
                ins |-> [opcode |-> stream[place + 1], operands |-> operands]]
          ELSE NotDecoded
    BY DEF DecodeInstruction, InfoOf, StartOf
  <1>2. InfosAt(stream, place, info)
    BY InfosExist
  <1>3. StartsAt(place, count, info, start)
    <2> HIDE DEF count, info
    <2> QED BY StartsExist
  <1> HIDE DEF count, info, start
  <1> QED BY <1>1, <1>2, <1>3 DEF count

-----------------------------------------------------------------------------
(* One item, one operand                                                   *)

\* The bytes stand in the stream behind position p.
Has(stream, p, bytes) ==
    /\ p \in Nat /\ p + Len(bytes) <= Len(stream)
    /\ \A y \in 1 .. Len(bytes) : stream[p + y] = bytes[y]

LEMMA BytesRead ==
    ASSUME NEW stream, NEW p, NEW bytes, NEW w, IsSequence(stream), IsSequence(bytes),
           Has(stream, p, bytes), w = Len(bytes)
    PROVE  Bytes(stream, p, w) = bytes
  <1> DEFINE m == p + 1
             n == p + w
             t == SubSeq(stream, m, n)
  <1>1. w \in Nat /\ p \in Nat /\ Len(stream) \in Nat
    BY DEF IsSequence, Has
  <1>2. m \in Int /\ n \in Int /\ 1 <= m /\ n <= Len(stream)
    BY <1>1 DEF Has
  <1> HIDE DEF m, n
  <1>3. /\ IsSequence(t) /\ Len(t) = IF m <= n THEN n - m + 1 ELSE 0
        /\ \A i \in 1 .. n - m + 1 : t[i] = stream[m + i - 1]
    BY <1>2, SubSequence
  <1> HIDE DEF t
  <1>4. Len(t) = w
    BY <1>1, <1>3 DEF m, n
  <1>5. ASSUME NEW i \in 1 .. w
        PROVE  t[i] = bytes[i]
    <2>1. i \in 1 .. n - m + 1 /\ m + i - 1 = p + i
      BY <1>1 DEF m, n
    <2> QED BY <1>3, <2>1 DEF Has
  <1>6. IsSequence(t) /\ IsSequence(bytes) /\ Len(t) = Len(bytes)
    BY <1>3, <1>4
  <1>7. t = bytes
    BY <1>4, <1>5, <1>6, SameSequence
  <1> QED BY <1>7 DEF Bytes, t, m, n

\* The bytes of a field once the addresses are known.
Filled(field, where) ==
    IF field.awaits = << >> THEN field.bytes ELSE AddressBytes(where[field.awaits[1]])

\* An item, and an operand, with addresses for the blocks it names.
ResolvedItemBy(item, where) ==
    IF item.type \in {"LABEL", "SUBLABEL"}
    THEN [type |-> "IMMEDIATE", data |-> AddressBytes(where[item.data]), sign |-> FALSE]
    ELSE item

ResolvedBy(op, where) ==
    CASE op.type \in {"LABEL", "SUBLABEL"} ->
            [type |-> "IMMEDIATE", size |-> QWORD, data |-> AddressBytes(where[op.data])]
      [] op.type = "COMPLEX" /\ CompactType(op) = 3 ->
            [type |-> "MEMORY", size |-> op.size, data |-> ResolvedItemBy(op.data.base, where).data]
      [] op.type = "COMPLEX" /\ CompactType(op) # 3 ->
            [op EXCEPT !.data = [part \in DOMAIN @ |-> ResolvedItemBy(@[part], where)]]
      [] OTHER -> op

\* The one field of an item that is there, and its kind for the decoder.
ItemField(item, isOffset) ==
    CASE item.type = "REGISTER"  -> Field(<< item.data + IF isOffset /\ item.sign THEN 128 ELSE 0 >>)
      [] item.type = "IMMEDIATE" -> Field(item.data)
      [] OTHER                   -> Await(item.data)

Kind(item) ==
    CASE item.type = "NONE"     -> << "NONE", 0 >>
      [] item.type = "REGISTER" -> << "REGISTER", 0 >>
      [] OTHER                  -> << "IMMEDIATE", ItemSize(item) >>

LEMMA Widths == Width(0) = 1 /\ Width(1) = 2 /\ Width(2) = 4 /\ Width(3) = 8
  BY DEF Width

LEMMA AddressSequence ==
    ASSUME NEW a
    PROVE  IsSequence(AddressBytes(a)) /\ Len(AddressBytes(a)) = 8
  BY DEF IsSequence, AddressBytes

LEMMA PlaceholderSequence == IsSequence(Placeholder) /\ Len(Placeholder) = 8
  BY DEF IsSequence, Placeholder

LEMMA ItemSizes ==
    ASSUME NEW item, NEW isOffset, NEW blocks, GoodItem(item, isOffset, blocks),
           item.type # "NONE"
    PROVE  /\ ItemSize(item) \in 0 .. 3
           /\ item.type = "IMMEDIATE" => Width(ItemSize(item)) = Len(item.data)
           /\ item.type \in {"LABEL", "SUBLABEL"} => ItemSize(item) = 3
           /\ item.type \in {"REGISTER", "IMMEDIATE", "LABEL", "SUBLABEL"}
  <1>1. item.type \in {"REGISTER", "IMMEDIATE", "LABEL", "SUBLABEL"}
    <2> SUFFICES ASSUME item.type \notin {"REGISTER", "IMMEDIATE", "LABEL", "SUBLABEL"}
                 PROVE  FALSE
      OBVIOUS
    <2> QED BY DEF GoodItem, NoItem
  <1>2. CASE item.type = "IMMEDIATE"
    <2>1. \E s \in 0 .. 3 : Width(s) = Len(item.data)
      BY <1>2 DEF GoodItem, IsNumber
    <2>2. ItemSize(item) = CHOOSE s \in 0 .. 3 : Width(s) = Len(item.data)
      BY <1>2 DEF ItemSize
    <2>3. ItemSize(item) \in 0 .. 3 /\ Width(ItemSize(item)) = Len(item.data)
      BY <2>1, <2>2
    <2> QED BY <1>2, <2>3
  <1>3. CASE item.type # "IMMEDIATE"
    BY <1>1, <1>3 DEF ItemSize, QWORD
  <1> QED BY <1>1, <1>2, <1>3

LEMMA ItemFieldFilled ==
    ASSUME NEW item, NEW isOffset, NEW blocks, NEW where, GoodItem(item, isOffset, blocks),
           item.type # "NONE"
    PROVE  LET field == ItemField(item, isOffset)
           IN  /\ ItemFields(item, isOffset) = << field >>
               /\ field.awaits = << >> \/ (\E b \in blocks : field = Await(b))
               /\ IsSequence(Filled(field, where)) /\ IsSequence(field.bytes)
               /\ Len(Filled(field, where)) = Len(field.bytes)
               /\ Len(field.bytes) = KindLength(Kind(item))
               /\ Len(field.bytes) \in 1 .. 8
  <1>1. item.type \in {"REGISTER", "IMMEDIATE", "LABEL", "SUBLABEL"}
    BY ItemSizes
  <1>2. CASE item.type = "REGISTER"
    <2> DEFINE r == item.data + IF isOffset /\ item.sign THEN 128 ELSE 0
    <2>1. ItemField(item, isOffset) = Field(<< r >>) /\ ItemFields(item, isOffset) = << Field(<< r >>) >>
      BY <1>2 DEF ItemField, ItemFields
    <2> HIDE DEF r
    <2>2. Field(<< r >>).bytes = << r >> /\ Field(<< r >>).awaits = << >>
      BY DEF Field
    <2>3. Filled(Field(<< r >>), where) = << r >>
      BY <2>2 DEF Filled
    <2>4. IsSequence(<< r >>) /\ Len(<< r >>) = 1
      BY SingleSequence
    <2>5. KindLength(Kind(item)) = 1
      BY <1>2 DEF KindLength, Kind
    <2> QED BY <2>1, <2>2, <2>3, <2>4, <2>5
  <1>3. CASE item.type = "IMMEDIATE"
    <2>1. ItemField(item, isOffset) = Field(item.data) /\ ItemFields(item, isOffset) = << Field(item.data) >>
      BY <1>3 DEF ItemField, ItemFields
    <2>2. Field(item.data).bytes = item.data /\ Field(item.data).awaits = << >>
      BY DEF Field
    <2>3. Filled(Field(item.data), where) = item.data
      BY <2>2 DEF Filled
    <2>4. IsSequence(item.data)
      BY <1>3 DEF GoodItem, IsNumber
    <2>5. KindLength(Kind(item)) = Len(item.data)
      BY <1>3, ItemSizes DEF KindLength, Kind
    <2>6. Len(item.data) \in 1 .. 8
      <3>1. ItemSize(item) \in 0 .. 3 /\ Width(ItemSize(item)) = Len(item.data)
        BY <1>3, ItemSizes
      <3> DEFINE size == ItemSize(item)
      <3> HIDE DEF size
      <3>2. size \in 0 .. 3 => Width(size) \in 1 .. 8
        BY Widths
      <3> QED BY <3>1, <3>2 DEF size
    <2> QED BY <2>1, <2>2, <2>3, <2>4, <2>5, <2>6
  <1>4. CASE item.type \in {"LABEL", "SUBLABEL"}
    <2>1. ItemField(item, isOffset) = Await(item.data) /\ ItemFields(item, isOffset) = << Await(item.data) >>
      BY <1>4 DEF ItemField, ItemFields
    <2>2. Await(item.data).bytes = Placeholder /\ Await(item.data).awaits = << item.data >>
      BY DEF Await
    <2>3. Filled(Await(item.data), where) = AddressBytes(where[item.data])
      BY <2>2 DEF Filled
    <2>4. KindLength(Kind(item)) = 8
      <3>1. ItemSize(item) = 3
        BY <1>4, ItemSizes
      <3>2. Kind(item) = << "IMMEDIATE", 3 >>
        BY <1>4, <3>1 DEF Kind
      <3> QED BY <3>2, Widths DEF KindLength
    <2>5. item.data \in blocks
      BY <1>4 DEF GoodItem
    <2> QED BY <2>1, <2>2, <2>3, <2>4, <2>5, AddressSequence, PlaceholderSequence
  <1> QED BY <1>1, <1>2, <1>3, <1>4

\* An item decodes as it was written.
LEMMA ItemReads ==
    ASSUME NEW stream, NEW p, NEW item, NEW isOffset \in BOOLEAN, NEW blocks, NEW where,
           IsSequence(stream), GoodItem(item, isOffset, blocks), item.type # "NONE",
           item.type = "REGISTER" => item.data \in RegisterIDs,
           Has(stream, p, Filled(ItemField(item, isOffset), where))
    PROVE  ItemAt(stream, p, Kind(item), isOffset) = ResolvedItemBy(item, where)
  <1> DEFINE field == ItemField(item, isOffset)
  <1>1. item.type \in {"REGISTER", "IMMEDIATE", "LABEL", "SUBLABEL"}
    BY ItemSizes
  <1>2. CASE item.type = "REGISTER"
    <2> DEFINE r == item.data + IF isOffset /\ item.sign THEN 128 ELSE 0
    <2>1. field = Field(<< r >>)
      BY <1>2 DEF ItemField
    <2>2. Filled(field, where) = << r >>
      <3> HIDE DEF r, field
      <3> QED BY <2>1 DEF Filled, Field
    <2>3. stream[p + 1] = r
      <3> HIDE DEF r
      <3>1. Has(stream, p, << r >>)
        BY <2>2
      <3> QED BY <3>1, SingleSequence DEF Has
    <2>4. item.data \in 0 .. 41 /\ item.sign \in BOOLEAN /\ (~isOffset => item.sign = FALSE)
      BY <1>2 DEF GoodItem, RegisterIDs
    <2>5. item = [type |-> "REGISTER", data |-> item.data, sign |-> item.sign]
      BY <1>2 DEF GoodItem
    <2>6. ResolvedItemBy(item, where) = item
      BY <1>2 DEF ResolvedItemBy
    <2> DEFINE id   == stream[p + 1]
               sign == isOffset /\ id > 127
    <2>7. ItemAt(stream, p, Kind(item), isOffset) =
             [type |-> "REGISTER", data |-> IF sign THEN id - 128 ELSE id, sign |-> sign]
      BY <1>2 DEF ItemAt, Kind
    <2>8. (IF sign THEN id - 128 ELSE id) = item.data /\ sign = item.sign
      BY <2>3, <2>4
    <2> HIDE DEF id, sign
    <2> QED BY <2>5, <2>6, <2>7, <2>8
  <1>3. CASE item.type = "IMMEDIATE"
    <2>1. field = Field(item.data)
      BY <1>3 DEF ItemField
    <2>2. Filled(field, where) = item.data
      <3> HIDE DEF field
      <3> QED BY <2>1 DEF Filled, Field
    <2>3. Bytes(stream, p, Width(ItemSize(item))) = item.data
      <3>1. IsSequence(item.data)
        BY <1>3 DEF GoodItem, IsNumber
      <3> QED BY <1>3, <2>2, <3>1, BytesRead, ItemSizes
    <2>4. item = [type |-> "IMMEDIATE", data |-> item.data, sign |-> FALSE]
      BY <1>3 DEF GoodItem
    <2>5. ResolvedItemBy(item, where) = item
      BY <1>3 DEF ResolvedItemBy
    <2>6. ItemAt(stream, p, Kind(item), isOffset) =
             [type |-> "IMMEDIATE", data |-> Bytes(stream, p, Width(ItemSize(item))), sign |-> FALSE]
      BY <1>3 DEF ItemAt, Kind
    <2> QED BY <2>3, <2>4, <2>5, <2>6
  <1>4. CASE item.type \in {"LABEL", "SUBLABEL"}
    <2> DEFINE b == AddressBytes(where[item.data])
    <2>1. field = Await(item.data)
      BY <1>4 DEF ItemField
    <2>2. Filled(field, where) = b
      <3> HIDE DEF field
      <3> QED BY <2>1 DEF Filled, Await
    <2>3. Width(ItemSize(item)) = 8
      BY <1>4, ItemSizes, Widths
    <2>4. Bytes(stream, p, Width(ItemSize(item))) = b
      <3>1. IsSequence(b) /\ Len(b) = 8
        BY AddressSequence
      <3> HIDE DEF b
      <3> QED BY <2>2, <2>3, <3>1, BytesRead
    <2>5. ResolvedItemBy(item, where) = [type |-> "IMMEDIATE", data |-> b, sign |-> FALSE]
      BY <1>4 DEF ResolvedItemBy
    <2>6. ItemAt(stream, p, Kind(item), isOffset) =
             [type |-> "IMMEDIATE", data |-> Bytes(stream, p, Width(ItemSize(item))), sign |-> FALSE]
      BY <1>4 DEF ItemAt, Kind
    <2> QED BY <2>4, <2>5, <2>6
  <1> QED BY <1>1, <1>2, <1>3, <1>4

\* The info that the decoder reads is that of the operand.
InfoMatches(info, op, stale) ==
    /\ info.type = CompactType(op) /\ info.size = op.size
    /\ info.imm0 = Imm0Size(op, stale)
    /\ info.type \in Extended => info.imm1 = ItemSize(op.data.offset)

LEMMA ComplexTypes ==
    ASSUME NEW op, op.type = "COMPLEX", op.data.base.type # "NONE", CompactType(op) # -1
    PROVE  LET b == IsRegister(op.data.base)
               i == IsRegister(op.data.index)
               o == IsRegister(op.data.offset)
           IN  /\ op.data.index.type # "NONE" => b
               /\ CompactType(op) =
                     IF op.data.index.type # "NONE"
                     THEN IF op.data.offset.type # "NONE"
                          THEN IF i THEN (IF o THEN 10 ELSE 11) ELSE (IF o THEN 12 ELSE 13)
                          ELSE IF i THEN 8 ELSE 9
                     ELSE IF op.data.offset.type # "NONE"
                          THEN IF b THEN (IF o THEN 4 ELSE 5) ELSE (IF o THEN 6 ELSE 7)
                          ELSE IF b THEN 2 ELSE 3
  BY DEF CompactType, CompactOfComplex

LEMMA ShapeOf ==
    ASSUME NEW op, NEW info, NEW stale, op.type = "COMPLEX", op.data.base.type # "NONE",
           CompactType(op) # -1, CompactType(op) # 3, InfoMatches(info, op, stale)
    PROVE  ConvertCompactToComplex(info) =
              [base |-> Kind(op.data.base), index |-> Kind(op.data.index), offset |-> Kind(op.data.offset)]
  <1> DEFINE c == op.data
             t == CompactType(op)
             b == IsRegister(c.base)
             i == IsRegister(c.index)
             o == IsRegister(c.offset)
             reg == << "REGISTER", 0 >>
             none == << "NONE", 0 >>
  <1>1. info.type = t /\ info.imm0 = Imm0Size(op, stale) /\ (t \in Extended => info.imm1 = ItemSize(c.offset))
    BY DEF InfoMatches
  <1>2. /\ c.base.type # "NONE"
        /\ c.index.type # "NONE" => b
        /\ t = IF c.index.type # "NONE"
               THEN IF c.offset.type # "NONE"
                    THEN IF i THEN (IF o THEN 10 ELSE 11) ELSE (IF o THEN 12 ELSE 13)
                    ELSE IF i THEN 8 ELSE 9
               ELSE IF c.offset.type # "NONE"
                    THEN IF b THEN (IF o THEN 4 ELSE 5) ELSE (IF o THEN 6 ELSE 7)
                    ELSE 2
        /\ t = 2 => b
    BY ComplexTypes
  <1>3. /\ b => Kind(c.base) = reg
        /\ ~b => Kind(c.base) = << "IMMEDIATE", ItemSize(c.base) >>
        /\ c.index.type = "NONE" => Kind(c.index) = none
        /\ c.index.type # "NONE" /\ i => Kind(c.index) = reg
        /\ ~i => Kind(c.index) = << "IMMEDIATE", ItemSize(c.index) >>
        /\ c.offset.type = "NONE" => Kind(c.offset) = none
        /\ c.offset.type # "NONE" /\ o => Kind(c.offset) = reg
        /\ ~o => Kind(c.offset) = << "IMMEDIATE", ItemSize(c.offset) >>
    BY DEF IsRegister, Kind
  <1>4. /\ t \in {6, 7} => Imm0Size(op, stale) = ItemSize(c.base)
        /\ t \in {9, 12, 13} => Imm0Size(op, stale) = ItemSize(c.index)
        /\ t \in {5, 11} => Imm0Size(op, stale) = ItemSize(c.offset)
    BY DEF Imm0Size
  <1>5. /\ t \in {7, 13} => info.imm1 = ItemSize(c.offset)
    BY <1>1 DEF Extended
  <1>6. /\ c.index.type = "NONE" => i
        /\ c.offset.type = "NONE" => o
    BY DEF IsRegister
  <1>7. ConvertCompactToComplex(info) =
           [base   |-> IF t \in {6, 7} THEN << "IMMEDIATE", info.imm0 >> ELSE reg,
            index  |-> CASE t \in {8, 10, 11} -> reg
                         [] t \in {9, 12, 13} -> << "IMMEDIATE", info.imm0 >>
                         [] OTHER -> none,
            offset |-> CASE t \in {4, 6, 10, 12} -> reg
                         [] t \in {5, 11} -> << "IMMEDIATE", info.imm0 >>
                         [] t \in {7, 13} -> << "IMMEDIATE", info.imm1 >>
                         [] OTHER -> none]
    <2>1. t \in {2, 4, 5, 6, 7, 8, 9, 10, 11, 12, 13}
      <3> HIDE DEF b, i, o, t, c
      <3> QED BY <1>2
    <2> HIDE DEF t
    <2>2. CASE t = 2
      BY <1>1, <2>2 DEF ConvertCompactToComplex, Immediate
    <2>3. CASE t = 4
      BY <1>1, <2>3 DEF ConvertCompactToComplex, Immediate
    <2>4. CASE t = 5
      BY <1>1, <2>4 DEF ConvertCompactToComplex, Immediate
    <2>5. CASE t = 6
      BY <1>1, <2>5 DEF ConvertCompactToComplex, Immediate
    <2>6. CASE t = 7
      BY <1>1, <2>6 DEF ConvertCompactToComplex, Immediate
    <2>7. CASE t = 8
      BY <1>1, <2>7 DEF ConvertCompactToComplex, Immediate
    <2>8. CASE t = 9
      BY <1>1, <2>8 DEF ConvertCompactToComplex, Immediate
    <2>9. CASE t = 10
      BY <1>1, <2>9 DEF ConvertCompactToComplex, Immediate
    <2>10. CASE t = 11
      BY <1>1, <2>10 DEF ConvertCompactToComplex, Immediate
    <2>11. CASE t = 12
      BY <1>1, <2>11 DEF ConvertCompactToComplex, Immediate
    <2>12. CASE t = 13
      BY <1>1, <2>12 DEF ConvertCompactToComplex, Immediate
    <2> QED BY <2>1, <2>2, <2>3, <2>4, <2>5, <2>6, <2>7, <2>8, <2>9, <2>10, <2>11, <2>12
  <1> HIDE DEF t, b, i, o, c, reg, none
  <1>8. (IF t \in {6, 7} THEN << "IMMEDIATE", info.imm0 >> ELSE reg) = Kind(c.base)
    BY <1>1, <1>2, <1>3, <1>4
  <1>9. (CASE t \in {8, 10, 11} -> reg
           [] t \in {9, 12, 13} -> << "IMMEDIATE", info.imm0 >>
           [] OTHER -> none) = Kind(c.index)
    BY <1>1, <1>2, <1>3, <1>4, <1>6
  <1>10. (CASE t \in {4, 6, 10, 12} -> reg
            [] t \in {5, 11} -> << "IMMEDIATE", info.imm0 >>
            [] t \in {7, 13} -> << "IMMEDIATE", info.imm1 >>
            [] OTHER -> none) = Kind(c.offset)
    BY <1>1, <1>2, <1>3, <1>4, <1>5, <1>6
  <1> QED BY <1>7, <1>8, <1>9, <1>10 DEF c

\* The fields of an operand, by its parts.
LEMMA ComplexFields ==
    ASSUME NEW op, NEW blocks, GoodOperand(op, blocks), op.type = "COMPLEX"
    PROVE  LET b == ItemField(op.data.base, FALSE)
               i == ItemField(op.data.index, FALSE)
               o == ItemField(op.data.offset, TRUE)
           IN  OperandFields(op) =
                 IF op.data.index.type # "NONE"
                 THEN IF op.data.offset.type # "NONE" THEN << b, i, o >> ELSE << b, i >>
                 ELSE IF op.data.offset.type # "NONE" THEN << b, o >> ELSE << b >>
  <1> DEFINE b == ItemField(op.data.base, FALSE)
             i == ItemField(op.data.index, FALSE)
             o == ItemField(op.data.offset, TRUE)
             B == ItemFields(op.data.base, FALSE)
             I == ItemFields(op.data.index, FALSE)
             O == ItemFields(op.data.offset, TRUE)
  <1>1. OperandFields(op) = B \o I \o O
    BY DEF OperandFields
  <1>2. /\ GoodItem(op.data.base, FALSE, blocks) /\ op.data.base.type # "NONE"
        /\ GoodItem(op.data.index, FALSE, blocks)
        /\ GoodItem(op.data.offset, TRUE, blocks)
    BY DEF GoodOperand
  <1>3. B = << b >>
    BY <1>2, ItemFieldFilled
  <1>4. I = IF op.data.index.type # "NONE" THEN << i >> ELSE << >>
    <2>1. CASE op.data.index.type # "NONE"
      BY <1>2, <2>1, ItemFieldFilled
    <2>2. CASE op.data.index.type = "NONE"
      BY <2>2 DEF ItemFields
    <2> QED BY <2>1, <2>2
  <1>5. O = IF op.data.offset.type # "NONE" THEN << o >> ELSE << >>
    <2>1. CASE op.data.offset.type # "NONE"
      BY <1>2, <2>1, ItemFieldFilled
    <2>2. CASE op.data.offset.type = "NONE"
      BY <2>2 DEF ItemFields
    <2> QED BY <2>1, <2>2
  <1> HIDE DEF b, i, o, B, I, O
  <1>6. << b >> \o << >> = << b >> /\ << b >> \o << i >> = << b, i >>
        /\ << b >> \o << o >> = << b, o >> /\ << b, i >> \o << o >> = << b, i, o >>
    BY ConcatEmpty, SingleSequence, Concat11, Concat21
  <1>7. << b, i >> \o << >> = << b, i >>
    <2>1. IsSequence(<< b, i >>)
      BY DEF IsSequence
    <2> QED BY <2>1, ConcatEmpty
  <1>8. OperandFields(op) =
                 IF op.data.index.type # "NONE"
                 THEN IF op.data.offset.type # "NONE" THEN << b, i, o >> ELSE << b, i >>
                 ELSE IF op.data.offset.type # "NONE" THEN << b, o >> ELSE << b >>
    BY <1>1, <1>3, <1>4, <1>5, <1>6, <1>7
  <1> QED BY <1>8 DEF b, i, o

\* The fields stand in the stream one after the other, from e[0] on.
FieldsAt(stream, e, fs, where) ==
    \A k \in 1 .. Len(fs) : /\ Has(stream, e[k - 1], Filled(fs[k], where))
                            /\ e[k] = e[k - 1] + Len(fs[k].bytes)

LEMMA OneField ==
    ASSUME NEW stream, NEW e, NEW f, NEW where, FieldsAt(stream, e, << f >>, where)
    PROVE  /\ Has(stream, e[0], Filled(f, where))
           /\ e[1] = e[0] + Len(f.bytes)
  <1> DEFINE fs == << f >>
  <1>1. Len(fs) = 1 /\ fs[1] = f
    OBVIOUS
  <1> HIDE DEF fs
  <1>2. FieldsAt(stream, e, fs, where)
    BY DEF fs
  <1>3. /\ Has(stream, e[1 - 1], Filled(fs[1], where))
        /\ e[1] = e[1 - 1] + Len(fs[1].bytes)
    BY <1>1, <1>2 DEF FieldsAt
  <1>4. e[1 - 1] = e[0]
    OBVIOUS
  <1> QED BY <1>1, <1>3, <1>4

LEMMA TwoFields ==
    ASSUME NEW stream, NEW e, NEW f, NEW g, NEW where, FieldsAt(stream, e, << f, g >>, where)
    PROVE  /\ Has(stream, e[0], Filled(f, where))
           /\ Has(stream, e[1], Filled(g, where))
           /\ e[1] = e[0] + Len(f.bytes)
           /\ e[2] = e[1] + Len(g.bytes)
  <1> DEFINE fs == << f, g >>
  <1>1. Len(fs) = 2 /\ fs[1] = f /\ fs[2] = g
    OBVIOUS
  <1> HIDE DEF fs
  <1>2. FieldsAt(stream, e, fs, where)
    BY DEF fs
  <1>3. /\ Has(stream, e[1 - 1], Filled(fs[1], where))
        /\ e[1] = e[1 - 1] + Len(fs[1].bytes)
        /\ Has(stream, e[2 - 1], Filled(fs[2], where))
        /\ e[2] = e[2 - 1] + Len(fs[2].bytes)
    BY <1>1, <1>2 DEF FieldsAt
  <1>4. e[1 - 1] = e[0] /\ e[2 - 1] = e[1]
    OBVIOUS
  <1> QED BY <1>1, <1>3, <1>4

LEMMA ThreeFields ==
    ASSUME NEW stream, NEW e, NEW f, NEW g, NEW h, NEW where, FieldsAt(stream, e, << f, g, h >>, where)
    PROVE  /\ Has(stream, e[0], Filled(f, where))
           /\ Has(stream, e[1], Filled(g, where))
           /\ Has(stream, e[2], Filled(h, where))
           /\ e[1] = e[0] + Len(f.bytes)
           /\ e[2] = e[1] + Len(g.bytes)
           /\ e[3] = e[2] + Len(h.bytes)
  <1> DEFINE fs == << f, g, h >>
  <1>1. Len(fs) = 3 /\ fs[1] = f /\ fs[2] = g /\ fs[3] = h
    OBVIOUS
  <1> HIDE DEF fs
  <1>2. FieldsAt(stream, e, fs, where)
    BY DEF fs
  <1>3. /\ Has(stream, e[1 - 1], Filled(fs[1], where))
        /\ e[1] = e[1 - 1] + Len(fs[1].bytes)
        /\ Has(stream, e[2 - 1], Filled(fs[2], where))
        /\ e[2] = e[2 - 1] + Len(fs[2].bytes)
        /\ Has(stream, e[3 - 1], Filled(fs[3], where))
        /\ e[3] = e[3 - 1] + Len(fs[3].bytes)
    BY <1>1, <1>2 DEF FieldsAt
  <1>4. e[1 - 1] = e[0] /\ e[2 - 1] = e[1] /\ e[3 - 1] = e[2]
    OBVIOUS
  <1> QED BY <1>1, <1>3, <1>4

KnownRegister(item) == item.type = "REGISTER" => item.data \in RegisterIDs

\* An item that may be missing.
LEMMA PartReads ==
    ASSUME NEW stream, NEW p \in Nat, NEW item, NEW isOffset \in BOOLEAN, NEW blocks, NEW where,
           IsSequence(stream), GoodItem(item, isOffset, blocks), KnownRegister(item),
           item.type # "NONE" => Has(stream, p, Filled(ItemField(item, isOffset), where))
    PROVE  /\ ItemAt(stream, p, Kind(item), isOffset) = ResolvedItemBy(item, where)
           /\ KindLength(Kind(item)) = IF item.type = "NONE" THEN 0 ELSE Len(ItemField(item, isOffset).bytes)
           /\ KindLength(Kind(item)) \in Nat
  <1>1. CASE item.type = "NONE"
    <2>1. item = NoItem
      BY <1>1 DEF GoodItem
    <2>2. Kind(item) = << "NONE", 0 >>
      BY <1>1 DEF Kind
    <2>3. ResolvedItemBy(item, where) = item
      BY <1>1 DEF ResolvedItemBy
    <2>4. ItemAt(stream, p, << "NONE", 0 >>, isOffset) = NoItem /\ KindLength(<< "NONE", 0 >>) = 0
      BY DEF ItemAt, KindLength
    <2> QED BY <1>1, <2>1, <2>2, <2>3, <2>4
  <1>2. CASE item.type # "NONE"
    <2>1. ItemAt(stream, p, Kind(item), isOffset) = ResolvedItemBy(item, where)
      BY <1>2, ItemReads DEF KnownRegister
    <2>2. Len(ItemField(item, isOffset).bytes) = KindLength(Kind(item))
          /\ Len(ItemField(item, isOffset).bytes) \in 1 .. 8
      BY <1>2, ItemFieldFilled
    <2> QED BY <1>2, <2>1, <2>2
  <1> QED BY <1>1, <1>2

RegistersKnown(op) == OperandRegisters(op) \subseteq RegisterIDs

\* The decoder reads at p, with the info of the operand, the fields of it.
Reading(stream, e, p, op, blocks, where, info, stale) ==
    /\ IsSequence(stream) /\ p \in Nat /\ e[0] = p
    /\ GoodOperand(op, blocks) /\ CompactType(op) # -1 /\ RegistersKnown(op) /\ ~Dangling(op)
    /\ InfoMatches(info, op, stale)
    /\ FieldsAt(stream, e, OperandFields(op), where)

LEMMA ComplexReadsBack ==
    ASSUME NEW stream, NEW e, NEW p, NEW op, NEW blocks, NEW where, NEW info, NEW stale,
           Reading(stream, e, p, op, blocks, where, info, stale),
           op.type = "COMPLEX", CompactType(op) # 3
    PROVE  /\ OperandAt(stream, p, info) = ResolvedBy(op, where)
           /\ p + OperandLength(info) = e[Len(OperandFields(op))]
           /\ OperandLength(info) \in Nat \ {0}
  <1>0. /\ IsSequence(stream) /\ p \in Nat /\ e[0] = p
        /\ GoodOperand(op, blocks) /\ CompactType(op) # -1 /\ RegistersKnown(op)
        /\ InfoMatches(info, op, stale)
        /\ FieldsAt(stream, e, OperandFields(op), where)
    BY DEF Reading
  <1> USE <1>0
  <1> DEFINE c  == op.data
             kb == KindLength(Kind(c.base))
             ki == KindLength(Kind(c.index))
             ko == KindLength(Kind(c.offset))
             b  == ItemField(c.base, FALSE)
             i  == ItemField(c.index, FALSE)
             o  == ItemField(c.offset, TRUE)
             fs == OperandFields(op)
  <1>1. /\ GoodItem(c.base, FALSE, blocks) /\ c.base.type # "NONE"
        /\ GoodItem(c.index, FALSE, blocks)
        /\ GoodItem(c.offset, TRUE, blocks)
        /\ op = [type |-> op.type, size |-> op.size, data |-> c]
        /\ c = [base |-> c.base, index |-> c.index, offset |-> c.offset]
    BY DEF GoodOperand
  <1>2. KnownRegister(c.base) /\ KnownRegister(c.index) /\ KnownRegister(c.offset)
    BY DEF RegistersKnown, OperandRegisters, KnownRegister
  <1>3. /\ kb = Len(b.bytes) /\ kb \in Nat /\ kb # 0
        /\ ki = (IF c.index.type = "NONE" THEN 0 ELSE Len(i.bytes)) /\ ki \in Nat
        /\ ko = (IF c.offset.type = "NONE" THEN 0 ELSE Len(o.bytes)) /\ ko \in Nat
    <2>1. ASSUME NEW item, NEW isOffset, GoodItem(item, isOffset, blocks)
          PROVE  /\ KindLength(Kind(item)) = (IF item.type = "NONE" THEN 0 ELSE Len(ItemField(item, isOffset).bytes))
                 /\ KindLength(Kind(item)) \in Nat
                 /\ item.type # "NONE" => KindLength(Kind(item)) # 0
      <3>1. CASE item.type = "NONE"
        <4>1. Kind(item) = << "NONE", 0 >>
          BY <3>1 DEF Kind
        <4>2. KindLength(<< "NONE", 0 >>) = 0
          BY DEF KindLength
        <4> QED BY <3>1, <4>1, <4>2
      <3>2. CASE item.type # "NONE"
        <4>1. /\ Len(ItemField(item, isOffset).bytes) = KindLength(Kind(item))
              /\ Len(ItemField(item, isOffset).bytes) \in 1 .. 8
          BY <2>1, <3>2, ItemFieldFilled
        <4> QED BY <3>2, <4>1
      <3> QED BY <3>1, <3>2
    <2> QED BY <1>1, <2>1
  <1>4. fs = IF c.index.type # "NONE"
             THEN IF c.offset.type # "NONE" THEN << b, i, o >> ELSE << b, i >>
             ELSE IF c.offset.type # "NONE" THEN << b, o >> ELSE << b >>
    BY ComplexFields
  <1> HIDE DEF kb, ki, ko, b, i, o
  <1>5. /\ Has(stream, p, Filled(b, where))
        /\ c.index.type # "NONE" => Has(stream, p + kb, Filled(i, where))
        /\ c.offset.type # "NONE" => Has(stream, p + kb + ki, Filled(o, where))
        /\ e[Len(fs)] = p + kb + ki + ko
    <2>1. CASE c.index.type # "NONE" /\ c.offset.type # "NONE"
      <3>1. fs = << b, i, o >>
        BY <1>4, <2>1
      <3>2. Len(fs) = 3
        BY <3>1
      <3>3. FieldsAt(stream, e, << b, i, o >>, where)
        BY <3>1
      <3> QED BY SMTT(60), <1>3, <2>1, <3>2, <3>3, ThreeFields
    <2>2. CASE c.index.type # "NONE" /\ c.offset.type = "NONE"
      <3>1. fs = << b, i >>
        BY <1>4, <2>2
      <3>2. Len(fs) = 2
        BY <3>1
      <3>3. FieldsAt(stream, e, << b, i >>, where)
        BY <3>1
      <3>4. Has(stream, p, Filled(b, where)) /\ Has(stream, p + kb, Filled(i, where)) /\ e[2] = p + kb + ki
        <4>1. /\ Has(stream, e[0], Filled(b, where))
              /\ Has(stream, e[1], Filled(i, where))
              /\ e[1] = e[0] + Len(b.bytes)
              /\ e[2] = e[1] + Len(i.bytes)
          BY <3>3, TwoFields
        <4>2. kb = Len(b.bytes) /\ ki = Len(i.bytes)
          BY <1>3, <2>2
        <4> QED BY <4>1, <4>2
      <3>5. p + kb + ki + 0 = p + kb + ki /\ ko = 0
        BY <1>3, <2>2
      <3> QED BY <2>2, <3>2, <3>4, <3>5
    <2>3. CASE c.index.type = "NONE" /\ c.offset.type # "NONE"
      <3>1. fs = << b, o >>
        BY <1>4, <2>3
      <3>2. Len(fs) = 2
        BY <3>1
      <3>3. FieldsAt(stream, e, << b, o >>, where)
        BY <3>1
      <3>4. kb = Len(b.bytes) /\ ki = 0 /\ ko = Len(o.bytes) /\ p + kb + 0 = p + kb
        BY <1>3, <2>3
      <3>5. /\ Has(stream, e[0], Filled(b, where))
            /\ Has(stream, e[1], Filled(o, where))
            /\ e[1] = e[0] + Len(b.bytes)
            /\ e[2] = e[1] + Len(o.bytes)
        BY <3>3, TwoFields
      <3> QED BY <2>3, <3>2, <3>4, <3>5
    <2>4. CASE c.index.type = "NONE" /\ c.offset.type = "NONE"
      <3>1. fs = << b >>
        BY <1>4, <2>4
      <3>2. Len(fs) = 1
        BY <3>1
      <3>3. FieldsAt(stream, e, << b >>, where)
        BY <3>1
      <3> QED BY <1>3, <2>4, <3>2, <3>3, OneField
    <2> QED BY <2>1, <2>2, <2>3, <2>4
  <1>18. kb # 0
    BY <1>3
  <1>16. kb \in Nat /\ ki \in Nat /\ ko \in Nat
    BY <1>3
  <1>6. p + kb \in Nat /\ p + kb + ki \in Nat
    BY <1>16
  <1>7. ItemAt(stream, p, Kind(c.base), FALSE) = ResolvedItemBy(c.base, where)
    <2> DEFINE item == c.base
               f    == FALSE
               at0  == p
    <2>1. /\ f \in BOOLEAN /\ GoodItem(item, f, blocks) /\ KnownRegister(item) /\ at0 \in Nat
          /\ item.type # "NONE" => Has(stream, at0, Filled(ItemField(item, f), where))
      BY <1>1, <1>2, <1>5, <1>6 DEF b
    <2> HIDE DEF item, f, at0
    <2>2. ItemAt(stream, at0, Kind(item), f) = ResolvedItemBy(item, where)
      BY <2>1, PartReads
    <2> QED BY <2>2 DEF item, f, at0
  <1>8. ItemAt(stream, p + kb, Kind(c.index), FALSE) = ResolvedItemBy(c.index, where)
    <2> DEFINE item == c.index
               f    == FALSE
               at0  == p + kb
    <2>1. /\ f \in BOOLEAN /\ GoodItem(item, f, blocks) /\ KnownRegister(item) /\ at0 \in Nat
          /\ item.type # "NONE" => Has(stream, at0, Filled(ItemField(item, f), where))
      BY <1>1, <1>2, <1>5, <1>6 DEF i
    <2> HIDE DEF item, f, at0
    <2>2. ItemAt(stream, at0, Kind(item), f) = ResolvedItemBy(item, where)
      BY <2>1, PartReads
    <2> QED BY <2>2 DEF item, f, at0
  <1>9. ItemAt(stream, p + kb + ki, Kind(c.offset), TRUE) = ResolvedItemBy(c.offset, where)
    <2> DEFINE item == c.offset
               f    == TRUE
               at0  == p + kb + ki
    <2>1. /\ f \in BOOLEAN /\ GoodItem(item, f, blocks) /\ KnownRegister(item) /\ at0 \in Nat
          /\ item.type # "NONE" => Has(stream, at0, Filled(ItemField(item, f), where))
      BY <1>1, <1>2, <1>5, <1>6 DEF o
    <2> HIDE DEF item, f, at0
    <2>2. ItemAt(stream, at0, Kind(item), f) = ResolvedItemBy(item, where)
      BY <2>1, PartReads
    <2> QED BY <2>2 DEF item, f, at0
  <1> DEFINE shape == ConvertCompactToComplex(info)
  <1>10. shape = [base |-> Kind(c.base), index |-> Kind(c.index), offset |-> Kind(c.offset)]
    BY <1>1, ShapeOf
  <1>11. info.type \notin {0, 1, 3} /\ info.size = op.size
    <2>1. info.type = CompactType(op) /\ info.size = op.size
      BY DEF InfoMatches
    <2>2. CompactType(op) \notin {0, 1}
      BY <1>1, ComplexTypes
    <2> QED BY <2>1, <2>2
  <1>12. OperandLength(info) = kb + ki + ko
    <2>1. OperandLength(info) = KindLength(shape.base) + KindLength(shape.index) + KindLength(shape.offset)
      BY <1>11 DEF OperandLength
    <2> HIDE DEF shape
    <2> QED BY <1>10, <2>1 DEF kb, ki, ko
  <1>13. OperandAt(stream, p, info) =
            [type |-> "COMPLEX", size |-> op.size,
             data |-> [base   |-> ResolvedItemBy(c.base, where),
                       index  |-> ResolvedItemBy(c.index, where),
                       offset |-> ResolvedItemBy(c.offset, where)]]
    <2> DEFINE atIndex  == p + KindLength(shape.base)
               atOffset == atIndex + KindLength(shape.index)
               complex  == [base   |-> ItemAt(stream, p, shape.base, FALSE),
                            index  |-> ItemAt(stream, atIndex, shape.index, FALSE),
                            offset |-> ItemAt(stream, atOffset, shape.offset, TRUE)]
    <2>1. OperandAt(stream, p, info) = [type |-> "COMPLEX", size |-> info.size, data |-> complex]
      BY <1>11 DEF OperandAt
    <2> HIDE DEF shape
    <2>2. complex = [base   |-> ItemAt(stream, p, Kind(c.base), FALSE),
                     index  |-> ItemAt(stream, p + kb, Kind(c.index), FALSE),
                     offset |-> ItemAt(stream, p + kb + ki, Kind(c.offset), TRUE)]
      BY <1>10 DEF kb, ki
    <2> HIDE DEF complex
    <2> QED BY <1>7, <1>8, <1>9, <1>11, <2>1, <2>2
  <1>14. ResolvedBy(op, where) =
            [type |-> "COMPLEX", size |-> op.size,
             data |-> [base   |-> ResolvedItemBy(c.base, where),
                       index  |-> ResolvedItemBy(c.index, where),
                       offset |-> ResolvedItemBy(c.offset, where)]]
    <2>1. ResolvedBy(op, where) = [op EXCEPT !.data = [part \in DOMAIN c |-> ResolvedItemBy(c[part], where)]]
      BY DEF ResolvedBy
    <2>2. [part \in DOMAIN c |-> ResolvedItemBy(c[part], where)] =
             [base   |-> ResolvedItemBy(c.base, where),
              index  |-> ResolvedItemBy(c.index, where),
              offset |-> ResolvedItemBy(c.offset, where)]
      <3>1. DOMAIN c = {"base", "index", "offset"}
        BY <1>1
      <3> HIDE DEF c
      <3> QED BY <3>1
    <2> DEFINE d == [part \in DOMAIN c |-> ResolvedItemBy(c[part], where)]
    <2> HIDE DEF d
    <2>3. [op EXCEPT !.data = d] = [type |-> "COMPLEX", size |-> op.size, data |-> d]
      BY <1>1
    <2> QED BY <2>1, <2>2, <2>3 DEF d
  <1> HIDE DEF fs
  <1>15. p + OperandLength(info) = e[Len(fs)] /\ OperandLength(info) \in Nat \ {0}
    <2>1. e[Len(fs)] = p + kb + ki + ko
      BY <1>5
    <2> DEFINE end == e[Len(fs)]
    <2> HIDE DEF end
    <2>2. end = p + kb + ki + ko
      BY <2>1 DEF end
    <2>3. p + OperandLength(info) = end /\ OperandLength(info) \in Nat \ {0}
      BY <1>12, <1>16, <1>18, <2>2
    <2> QED BY <2>3 DEF end
  <1> QED BY <1>13, <1>14, <1>15 DEF fs

LEMMA KnownRegisters ==
    ASSUME NEW op, NEW where, RegistersKnown(op),
           op.type = "COMPLEX" =>
              /\ op = [type |-> op.type, size |-> op.size, data |-> op.data]
              /\ op.data = [base |-> op.data.base, index |-> op.data.index, offset |-> op.data.offset]
    PROVE  \A r \in OperandRegisters(ResolvedBy(op, where)) : ValidRegister(r)
  <1> DEFINE v == ResolvedBy(op, where)
  <1>1. \A r \in OperandRegisters(op) : ValidRegister(r)
    BY DEF RegistersKnown, RegisterIDs, ValidRegister
  <1>2. CASE op.type = "COMPLEX" /\ CompactType(op) # 3
    <2>1. v = [op EXCEPT !.data = [part \in DOMAIN @ |-> ResolvedItemBy(@[part], where)]]
      BY <1>2 DEF ResolvedBy
    <2>2. v.type = "COMPLEX" /\ v.data = [part \in DOMAIN op.data |-> ResolvedItemBy(op.data[part], where)]
      BY <1>2, <2>1
    <2>3. DOMAIN op.data = {"base", "index", "offset"}
      BY <1>2
    <2> HIDE DEF v
    <2>4. \A j \in {"base", "index", "offset"} :
             v.data[j].type = "REGISTER" => op.data[j].type = "REGISTER" /\ op.data[j].data = v.data[j].data
      BY <2>2, <2>3 DEF ResolvedItemBy
    <2>5. OperandRegisters(v) \subseteq OperandRegisters(op)
      BY <1>2, <2>2, <2>4 DEF OperandRegisters
    <2> QED BY <1>1, <2>5 DEF v
  <1>3. CASE ~(op.type = "COMPLEX" /\ CompactType(op) # 3)
    <2>1. CASE op.type \in {"COMPLEX", "LABEL", "SUBLABEL"}
      <3>1. v.type \in {"MEMORY", "IMMEDIATE"}
        BY <1>3, <2>1 DEF ResolvedBy
      <3> HIDE DEF v
      <3>2. OperandRegisters(v) = {}
        BY <3>1 DEF OperandRegisters
      <3> QED BY <3>2 DEF v
    <2>2. CASE op.type \notin {"COMPLEX", "LABEL", "SUBLABEL"}
      <3>1. v = op
        BY <2>2 DEF ResolvedBy
      <3> HIDE DEF v
      <3> QED BY <1>1, <3>1 DEF v
    <2> QED BY <2>1, <2>2
  <1> QED BY <1>2, <1>3

\* One field: a register, a number, an address in place of a label.
LEMMA PlainReadsBack ==
    ASSUME NEW stream, NEW e, NEW p, NEW op, NEW blocks, NEW where, NEW info, NEW stale,
           Reading(stream, e, p, op, blocks, where, info, stale),
           op.type \in {"REGISTER", "IMMEDIATE", "MEMORY", "LABEL", "SUBLABEL"}
    PROVE  /\ OperandAt(stream, p, info) = ResolvedBy(op, where)
           /\ p + OperandLength(info) = e[Len(OperandFields(op))]
           /\ OperandLength(info) \in Nat \ {0}
  <1>0. /\ IsSequence(stream) /\ p \in Nat /\ e[0] = p
        /\ GoodOperand(op, blocks) /\ CompactType(op) # -1 /\ RegistersKnown(op) /\ ~Dangling(op)
        /\ InfoMatches(info, op, stale)
        /\ FieldsAt(stream, e, OperandFields(op), where)
    BY DEF Reading
  <1> USE <1>0
  <1>1. info.type = CompactType(op) /\ info.size = op.size /\ op.size \in 0 .. 3
    BY DEF InfoMatches, GoodOperand
  <1>2. op = [type |-> op.type, size |-> op.size, data |-> op.data]
    BY DEF GoodOperand
  <1>3. Width(op.size) \in Nat \ {0}
    <2>1. \A size \in 0 .. 3 : Width(size) \in Nat \ {0}
      BY Widths
    <2> QED BY <1>1, <2>1
  <1> DEFINE data == CASE op.type = "REGISTER" -> << op.data >>
                       [] op.type \in {"IMMEDIATE", "MEMORY"} -> op.data
                       [] OTHER -> AddressBytes(where[op.data])
  <1>4. IsSequence(data) /\ Len(data) \in Nat
    <2>1. CASE op.type = "REGISTER"
      BY <2>1, SingleSequence
    <2>2. CASE op.type \in {"IMMEDIATE", "MEMORY"}
      BY <2>2 DEF GoodOperand, IsSequence
    <2>3. CASE op.type \in {"LABEL", "SUBLABEL"}
      BY <2>3, AddressSequence
    <2> QED BY <2>1, <2>2, <2>3
  <1>5. PICK f : OperandFields(op) = << f >> /\ Filled(f, where) = data /\ Len(f.bytes) = Len(data)
    <2>1. CASE op.type = "REGISTER"
      BY <2>1 DEF OperandFields, Filled, Field
    <2>2. CASE op.type \in {"IMMEDIATE", "MEMORY"}
      <3>1. OperandFields(op) = << Field(op.data) >>
        BY <2>2 DEF OperandFields
      <3>2. Filled(Field(op.data), where) = op.data /\ Field(op.data).bytes = op.data
        BY DEF Filled, Field
      <3>3. data = op.data
        BY <2>2
      <3> QED BY <3>1, <3>2, <3>3
    <2>3. CASE op.type \in {"LABEL", "SUBLABEL"}
      <3>1. OperandFields(op) = << Await(op.data) >>
        BY <2>3 DEF OperandFields
      <3>2. Filled(Await(op.data), where) = AddressBytes(where[op.data]) /\ Await(op.data).bytes = Placeholder
        BY DEF Filled, Await
      <3> QED BY <2>3, <3>1, <3>2, AddressSequence, PlaceholderSequence
    <2> QED BY <2>1, <2>2, <2>3
  <1>6. Has(stream, p, data) /\ e[1] = p + Len(data)
    BY <1>5, OneField
  <1>7. Len(OperandFields(op)) = 1
    BY <1>5
  <1> DEFINE n == Len(data)
  <1>8. Bytes(stream, p, n) = data
    <2> HIDE DEF data
    <2> QED BY <1>4, <1>6, BytesRead
  <1>9. CASE op.type = "REGISTER"
    <2>1. info.type = 0
      BY <1>1, <1>9 DEF CompactType
    <2>2. OperandAt(stream, p, info) = [type |-> "REGISTER", size |-> info.size, data |-> stream[p + 1]]
          /\ OperandLength(info) = 1
      BY <2>1 DEF OperandAt, OperandLength
    <2>3. data = << op.data >>
      BY <1>9
    <2>4. stream[p + 1] = op.data /\ Len(data) = 1
      <3> HIDE DEF data
      <3>1. Has(stream, p, << op.data >>)
        BY <1>6, <2>3
      <3> QED BY <2>3, <3>1, SingleSequence DEF Has
    <2>5. ResolvedBy(op, where) = op
      BY <1>9 DEF ResolvedBy
    <2> HIDE DEF data
    <2> QED BY <1>1, <1>2, <1>6, <1>7, <1>9, <2>2, <2>4, <2>5
  <1>10. CASE op.type = "IMMEDIATE"
    <2>1. info.type = 1
      BY <1>1, <1>10 DEF CompactType
    <2>2. OperandAt(stream, p, info) = [type |-> "IMMEDIATE", size |-> info.size,
                                        data |-> Bytes(stream, p, Width(info.size))]
          /\ OperandLength(info) = Width(info.size)
      BY <2>1 DEF OperandAt, OperandLength
    <2>3. data = op.data
      BY <1>10
    <2>4. Width(info.size) = n
      BY <1>1, <1>10, <2>3 DEF GoodOperand
    <2>5. ResolvedBy(op, where) = op
      BY <1>10 DEF ResolvedBy
    <2> HIDE DEF data
    <2> QED BY <1>1, <1>2, <1>3, <1>4, <1>6, <1>7, <1>8, <1>10, <2>2, <2>3, <2>4, <2>5
  <1>11. CASE op.type = "MEMORY"
    <2>1. info.type = 3
      BY <1>1, <1>11 DEF CompactType
    <2>2. OperandAt(stream, p, info) = [type |-> "MEMORY", size |-> info.size, data |-> Bytes(stream, p, 8)]
          /\ OperandLength(info) = 8
      BY <2>1 DEF OperandAt, OperandLength
    <2>3. data = op.data
      BY <1>11
    <2>4. n = 8
      BY <1>11, <2>3 DEF GoodOperand
    <2>5. ResolvedBy(op, where) = op
      BY <1>11 DEF ResolvedBy
    <2> HIDE DEF data
    <2> QED BY <1>1, <1>2, <1>4, <1>6, <1>7, <1>8, <1>11, <2>2, <2>3, <2>4, <2>5
  <1>12. CASE op.type \in {"LABEL", "SUBLABEL"}
    <2>1. info.type = 1 /\ info.size = QWORD
      BY <1>1, <1>12 DEF CompactType, GoodOperand
    <2>2. OperandAt(stream, p, info) = [type |-> "IMMEDIATE", size |-> info.size,
                                        data |-> Bytes(stream, p, Width(info.size))]
          /\ OperandLength(info) = Width(info.size)
      BY <2>1 DEF OperandAt, OperandLength
    <2>3. data = AddressBytes(where[op.data])
      BY <1>12
    <2>4. Width(info.size) = 8 /\ n = 8
      BY <2>1, <2>3, Widths, AddressSequence DEF QWORD
    <2>5. ResolvedBy(op, where) = [type |-> "IMMEDIATE", size |-> QWORD, data |-> AddressBytes(where[op.data])]
      BY <1>12 DEF ResolvedBy
    <2> HIDE DEF data
    <2> QED BY <1>1, <1>4, <1>6, <1>7, <1>8, <2>1, <2>2, <2>3, <2>4, <2>5
  <1> QED BY <1>9, <1>10, <1>11, <1>12

\* A number or a label alone in brackets: its eight bytes are the address.
LEMMA AbsoluteReadsBack ==
    ASSUME NEW stream, NEW e, NEW p, NEW op, NEW blocks, NEW where, NEW info, NEW stale,
           Reading(stream, e, p, op, blocks, where, info, stale),
           op.type = "COMPLEX", CompactType(op) = 3
    PROVE  /\ OperandAt(stream, p, info) = ResolvedBy(op, where)
           /\ p + OperandLength(info) = e[Len(OperandFields(op))]
           /\ OperandLength(info) \in Nat \ {0}
  <1>0. /\ IsSequence(stream) /\ p \in Nat /\ e[0] = p
        /\ GoodOperand(op, blocks) /\ CompactType(op) # -1 /\ RegistersKnown(op) /\ ~Dangling(op)
        /\ InfoMatches(info, op, stale)
        /\ FieldsAt(stream, e, OperandFields(op), where)
    BY DEF Reading
  <1> USE <1>0
  <1> DEFINE item == op.data.base
             flag == FALSE
             f    == ItemField(item, flag)
             data == Filled(f, where)
  <1>1. /\ op.data.index.type = "NONE" /\ op.data.offset.type = "NONE" /\ ~IsRegister(item)
        /\ item.type # "NONE" /\ GoodItem(item, flag, blocks)
    <2>1. item.type # "NONE" /\ GoodItem(item, flag, blocks)
      BY DEF GoodOperand
    <2>2. /\ op.data.index.type = "NONE" /\ op.data.offset.type = "NONE" /\ ~IsRegister(item)
      BY <2>1, ComplexTypes
    <2> QED BY <2>1, <2>2
  <1>2. OperandFields(op) = << f >>
    BY <1>1, ComplexFields
  <1> HIDE DEF flag
  <1>3. item.type \in {"IMMEDIATE", "LABEL", "SUBLABEL"}
    BY <1>1, ItemSizes DEF IsRegister
  <1>4. /\ IsSequence(data) /\ Len(data) = Len(f.bytes)
        /\ Len(f.bytes) = KindLength(Kind(item))
        /\ Len(f.bytes) \in 1 .. 8
    BY <1>1, ItemFieldFilled
  <1>5. data = ResolvedItemBy(item, where).data
    <2>1. CASE item.type = "IMMEDIATE"
      BY <2>1 DEF ItemField, Filled, Field, ResolvedItemBy
    <2>2. CASE item.type \in {"LABEL", "SUBLABEL"}
      BY <2>2 DEF ItemField, Filled, Await, ResolvedItemBy
    <2> QED BY <1>3, <2>1, <2>2
  <1>6. Len(data) = 8
    <2>1. CASE item.type = "IMMEDIATE"
      <3>1. ~(Len(item.data) < 8)
        BY <2>1 DEF Dangling
      <3>2. data = item.data
        BY <2>1 DEF ItemField, Filled, Field
      <3> HIDE DEF data, f
      <3> QED BY <1>4, <3>1, <3>2
    <2>2. CASE item.type \in {"LABEL", "SUBLABEL"}
      <3>1. data = AddressBytes(where[item.data])
        BY <2>2 DEF ItemField, Filled, Await
      <3> HIDE DEF data
      <3> QED BY <3>1, AddressSequence
    <2> QED BY <1>3, <2>1, <2>2
  <1> HIDE DEF f, item
  <1>7. Has(stream, p, data) /\ e[1] = p + 8
    BY <1>2, <1>4, <1>6, OneField
  <1>8. Len(OperandFields(op)) = 1
    BY <1>2
  <1> HIDE DEF data
  <1>9. Bytes(stream, p, 8) = data
    BY <1>4, <1>6, <1>7, BytesRead
  <1>10. info.type = 3 /\ info.size = op.size
    BY DEF InfoMatches
  <1>11. OperandAt(stream, p, info) = [type |-> "MEMORY", size |-> op.size, data |-> Bytes(stream, p, 8)]
         /\ OperandLength(info) = 8
    BY <1>10 DEF OperandAt, OperandLength
  <1>12. ResolvedBy(op, where) = [type |-> "MEMORY", size |-> op.size, data |-> ResolvedItemBy(item, where).data]
    BY DEF ResolvedBy, item
  <1> QED BY <1>5, <1>7, <1>8, <1>9, <1>11, <1>12

\* An operand decodes as it was written.
LEMMA OperandReadsBack ==
    ASSUME NEW stream, NEW e, NEW p, NEW op, NEW blocks, NEW where, NEW info, NEW stale,
           Reading(stream, e, p, op, blocks, where, info, stale)
    PROVE  /\ OperandAt(stream, p, info) = ResolvedBy(op, where)
           /\ p + OperandLength(info) = e[Len(OperandFields(op))]
           /\ OperandLength(info) \in Nat \ {0}
           /\ \A r \in OperandRegisters(OperandAt(stream, p, info)) : ValidRegister(r)
           /\ info.type \in 0 .. 13
  <1>0. /\ IsSequence(stream) /\ p \in Nat /\ e[0] = p
        /\ GoodOperand(op, blocks) /\ CompactType(op) # -1 /\ RegistersKnown(op) /\ ~Dangling(op)
        /\ InfoMatches(info, op, stale)
        /\ FieldsAt(stream, e, OperandFields(op), where)
    BY DEF Reading
  <1> USE <1>0
  <1>1. op.type \in {"REGISTER", "IMMEDIATE", "MEMORY", "LABEL", "SUBLABEL", "COMPLEX"}
    BY DEF CompactType
  <1>2. /\ OperandAt(stream, p, info) = ResolvedBy(op, where)
        /\ p + OperandLength(info) = e[Len(OperandFields(op))]
        /\ OperandLength(info) \in Nat \ {0}
    <2>1. CASE op.type = "COMPLEX" /\ CompactType(op) = 3
      BY <2>1, AbsoluteReadsBack
    <2>2. CASE op.type = "COMPLEX" /\ CompactType(op) # 3
      <3>1. op.type = "COMPLEX" /\ CompactType(op) # 3
        BY <2>2
      <3> DEFINE length == OperandLength(info)
                 end    == e[Len(OperandFields(op))]
      <3>2. /\ OperandAt(stream, p, info) = ResolvedBy(op, where)
            /\ p + length = end
            /\ length \in Nat \ {0}
        BY <3>1, ComplexReadsBack
      <3> QED BY <3>2
    <2>3. CASE op.type # "COMPLEX"
      BY <1>1, <2>3, PlainReadsBack
    <2> QED BY <2>1, <2>2, <2>3
  <1>3. op.type = "COMPLEX" =>
              /\ op = [type |-> op.type, size |-> op.size, data |-> op.data]
              /\ op.data = [base |-> op.data.base, index |-> op.data.index, offset |-> op.data.offset]
    BY DEF GoodOperand
  <1>4. \A r \in OperandRegisters(ResolvedBy(op, where)) : ValidRegister(r)
    BY <1>3, KnownRegisters
  <1>5. CompactType(op) \in 0 .. 13
    <2>1. CASE op.type = "COMPLEX"
      BY <2>1 DEF CompactType, CompactOfComplex
    <2>2. CASE op.type # "COMPLEX"
      BY <1>1, <2>2 DEF CompactType
    <2> QED BY <2>1, <2>2
  <1> QED BY <1>2, <1>4, <1>5 DEF InfoMatches

\* The operand that the parser hands over, in an instruction that is accepted.
Encoded(op, blocks) == GoodOperand(op, blocks) /\ CompactType(op) # -1

LEMMA EncodedType ==
    ASSUME NEW op, NEW blocks, Encoded(op, blocks)
    PROVE  CompactType(op) \in 0 .. 13
  <1>1. CASE op.type = "COMPLEX"
    BY <1>1 DEF Encoded, CompactType, CompactOfComplex
  <1>2. CASE op.type # "COMPLEX"
    BY <1>2 DEF Encoded, CompactType
  <1> QED BY <1>1, <1>2

LEMMA Imm0Typed ==
    ASSUME NEW op, NEW blocks, NEW st \in 0 .. 3, Encoded(op, blocks)
    PROVE  /\ Imm0Size(op, st) \in 0 .. 3
           /\ CompactType(op) \in Extended => ItemSize(op.data.offset) \in 0 .. 3
  <1>1. ASSUME NEW item, NEW isOffset, GoodItem(item, isOffset, blocks)
        PROVE  ItemSize(item) \in 0 .. 3
    <2>1. CASE item.type = "NONE"
      BY <2>1 DEF ItemSize, QWORD
    <2>2. CASE item.type # "NONE"
      BY <1>1, <2>2, ItemSizes
    <2> QED BY <2>1, <2>2
  <1>2. CASE op.type = "COMPLEX"
    <2>1. /\ ItemSize(op.data.base) \in 0 .. 3
          /\ ItemSize(op.data.index) \in 0 .. 3
          /\ ItemSize(op.data.offset) \in 0 .. 3
      BY <1>1, <1>2 DEF Encoded, GoodOperand
    <2>2. Imm0Size(op, st) \in {ItemSize(op.data.base), ItemSize(op.data.index), ItemSize(op.data.offset),
                                op.size, st}
      BY <1>2 DEF Imm0Size
    <2> QED BY <2>1, <2>2 DEF Encoded, GoodOperand
  <1>3. CASE op.type # "COMPLEX"
    <2>1. CompactType(op) \in {0, 1, 3} /\ (CompactType(op) = 3 => op.type = "MEMORY")
      BY <1>3 DEF Encoded, CompactType
    <2>2. op.size \in 0 .. 3
      BY DEF Encoded, GoodOperand
    <2>3. Imm0Size(op, st) \in {QWORD, op.size}
      BY <1>3, <2>1 DEF Imm0Size
    <2> QED BY <2>1, <2>2, <2>3 DEF QWORD, Extended
  <1> QED BY <1>2, <1>3

LEMMA FirstByte ==
    ASSUME NEW t \in 0 .. 15, NEW s \in 0 .. 3, NEW i \in 0 .. 3
    PROVE  /\ (t + 16 * s + 64 * i) % 16 = t
           /\ ((t + 16 * s + 64 * i) \div 16) % 4 = s
           /\ (t + 16 * s + 64 * i) \div 64 = i
  OBVIOUS

\* The decoder reads the info that was written.
LEMMA InfoReads ==
    ASSUME NEW stream, NEW q \in Nat, NEW op, NEW blocks, NEW st \in 0 .. 3,
           Encoded(op, blocks), Has(stream, q, OperandInfo(op, st))
    PROVE  /\ InfoMatches(InfoAt(stream, q), op, st)
           /\ InfoAt(stream, q).reserved = 0
           /\ InfoAt(stream, q).length = Len(OperandInfo(op, st))
  <1> DEFINE t == CompactType(op)
             a == t + 16 * op.size + 64 * Imm0Size(op, st)
             b == ItemSize(op.data.offset)
             info == InfoAt(stream, q)
  <1>1. t \in 0 .. 13 /\ op.size \in 0 .. 3 /\ Imm0Size(op, st) \in 0 .. 3 /\ (t \in Extended => b \in 0 .. 3)
    BY EncodedType, Imm0Typed DEF Encoded, GoodOperand
  <1>2. OperandInfo(op, st) = << a >> \o IF t \in Extended THEN << b >> ELSE << >>
    BY DEF OperandInfo
  <1>3. a % 16 = t /\ (a \div 16) % 4 = op.size /\ a \div 64 = Imm0Size(op, st)
    <2> HIDE DEF t
    <2> DEFINE s == op.size
               i == Imm0Size(op, st)
    <2> HIDE DEF s, i
    <2>1. t \in 0 .. 15 /\ s \in 0 .. 3 /\ i \in 0 .. 3
      BY <1>1 DEF s, i
    <2>2. /\ (t + 16 * s + 64 * i) % 16 = t
          /\ ((t + 16 * s + 64 * i) \div 16) % 4 = s
          /\ (t + 16 * s + 64 * i) \div 64 = i
      BY <2>1, FirstByte
    <2> QED BY <2>2 DEF s, i
  <1> HIDE DEF t, a, b
  <1>4. CASE t \in Extended
    <2>1. OperandInfo(op, st) = << a, b >>
      BY <1>2, <1>4, Concat11
    <2>2. stream[q + 1] = a /\ stream[q + 2] = b /\ Len(OperandInfo(op, st)) = 2
      <3> DEFINE w == << a, b >>
      <3>1. Len(w) = 2 /\ w[1] = a /\ w[2] = b
        OBVIOUS
      <3> HIDE DEF w
      <3>2. Has(stream, q, w)
        BY <2>1 DEF w
      <3>3. Len(OperandInfo(op, st)) = 2
        BY <2>1
      <3> QED BY <3>1, <3>2, <3>3 DEF Has
    <2>3. b % 4 = b /\ b \div 4 = 0
      BY <1>1, <1>4
    <2>4. info = [type |-> t, size |-> op.size, imm0 |-> Imm0Size(op, st), imm1 |-> b, reserved |-> 0, length |-> 2]
      BY <1>3, <1>4, <2>2, <2>3 DEF InfoAt
    <2> HIDE DEF info
    <2> QED BY <2>2, <2>4 DEF InfoMatches, info, t, b
  <1>5. CASE t \notin Extended
    <2>1. OperandInfo(op, st) = << a >>
      BY <1>2, <1>5, ConcatEmpty, SingleSequence
    <2>2. stream[q + 1] = a /\ Len(OperandInfo(op, st)) = 1
      <3>1. Has(stream, q, << a >>)
        BY <2>1
      <3> QED BY <2>1, <3>1, SingleSequence DEF Has
    <2>4. info = [type |-> t, size |-> op.size, imm0 |-> Imm0Size(op, st), imm1 |-> 0, reserved |-> 0, length |-> 1]
      BY <1>3, <1>5, <2>2 DEF InfoAt
    <2> HIDE DEF info
    <2> QED BY <1>5, <2>2, <2>4 DEF InfoMatches, info, t
  <1> QED BY <1>4, <1>5

LEMMA InfoSequence ==
    ASSUME NEW op, NEW st
    PROVE  IsSequence(OperandInfo(op, st)) /\ Len(OperandInfo(op, st)) \in 1 .. 2
  <1> DEFINE t == CompactType(op)
             a == t + 16 * op.size + 64 * Imm0Size(op, st)
             b == ItemSize(op.data.offset)
  <1>1. OperandInfo(op, st) = << a >> \o IF t \in Extended THEN << b >> ELSE << >>
    BY DEF OperandInfo
  <1> HIDE DEF t, a, b
  <1>2. << a >> \o << b >> = << a, b >> /\ << a >> \o << >> = << a >>
    BY Concat11, ConcatEmpty, SingleSequence
  <1>3. IsSequence(<< a, b >>) /\ IsSequence(<< a >>) /\ Len(<< a, b >>) = 2 /\ Len(<< a >>) = 1
    BY DEF IsSequence
  <1>4. OperandInfo(op, st) = << a, b >> \/ OperandInfo(op, st) = << a >>
    BY <1>1, <1>2
  <1> QED BY <1>3, <1>4

\* A field that waits for nothing, or for the address of a block.
GoodField(field, blocks) ==
    /\ IsSequence(field.bytes) /\ Len(field.bytes) \in Nat \ {0}
    /\ \/ field.awaits = << >>
       \/ \E b \in blocks : field.awaits = << b >> /\ Len(field.bytes) = 8

LEMMA FieldsGood ==
    ASSUME NEW op, NEW blocks, Encoded(op, blocks)
    PROVE  /\ IsSequence(OperandFields(op)) /\ Len(OperandFields(op)) \in 1 .. 3
           /\ \A k \in 1 .. Len(OperandFields(op)) : GoodField(OperandFields(op)[k], blocks)
  <1>1. ASSUME NEW item, NEW isOffset, GoodItem(item, isOffset, blocks), item.type # "NONE"
        PROVE  GoodField(ItemField(item, isOffset), blocks)
    <2> DEFINE field == ItemField(item, isOffset)
    <2>1. /\ field.awaits = << >> \/ (\E b \in blocks : field = Await(b))
          /\ IsSequence(field.bytes)
          /\ Len(field.bytes) \in 1 .. 8
      BY <1>1, ItemFieldFilled
    <2> HIDE DEF field
    <2>2. Len(field.bytes) \in Nat \ {0}
      BY <2>1
    <2>3. CASE field.awaits = << >>
      BY <2>1, <2>2, <2>3 DEF GoodField, field
    <2>4. CASE field.awaits # << >>
      <3>1. PICK b \in blocks : field = Await(b)
        BY <2>1, <2>4
      <3>2. Await(b).awaits = << b >> /\ Len(Await(b).bytes) = 8
        BY PlaceholderSequence DEF Await
      <3> QED BY <2>1, <2>2, <3>1, <3>2 DEF GoodField, field
    <2> QED BY <2>3, <2>4
  <1>2. ASSUME NEW f, GoodField(f, blocks), OperandFields(op) = << f >>
        PROVE  /\ IsSequence(OperandFields(op)) /\ Len(OperandFields(op)) \in 1 .. 3
               /\ \A k \in 1 .. Len(OperandFields(op)) : GoodField(OperandFields(op)[k], blocks)
    BY <1>2, SingleSequence
  <1>3. CASE op.type = "COMPLEX"
    <2> DEFINE b == ItemField(op.data.base, FALSE)
               i == ItemField(op.data.index, FALSE)
               o == ItemField(op.data.offset, TRUE)
    <2>1. /\ GoodField(b, blocks)
          /\ op.data.index.type # "NONE" => GoodField(i, blocks)
          /\ op.data.offset.type # "NONE" => GoodField(o, blocks)
      BY <1>1, <1>3 DEF Encoded, GoodOperand
    <2>2. OperandFields(op) =
                 IF op.data.index.type # "NONE"
                 THEN IF op.data.offset.type # "NONE" THEN << b, i, o >> ELSE << b, i >>
                 ELSE IF op.data.offset.type # "NONE" THEN << b, o >> ELSE << b >>
      BY <1>3, ComplexFields DEF Encoded
    <2> HIDE DEF b, i, o
    <2>4. ASSUME NEW f, NEW g, GoodField(f, blocks), GoodField(g, blocks)
          PROVE  Len(<< f, g >>) = 2 /\ \A k \in 1 .. 2 : GoodField(<< f, g >>[k], blocks)
      BY <2>4
    <2>5. ASSUME NEW f, NEW g, NEW h, GoodField(f, blocks), GoodField(g, blocks), GoodField(h, blocks)
          PROVE  Len(<< f, g, h >>) = 3 /\ \A k \in 1 .. 3 : GoodField(<< f, g, h >>[k], blocks)
      BY <2>5
    <2>6. CASE op.data.index.type # "NONE" /\ op.data.offset.type # "NONE"
      <3>1. OperandFields(op) = << b, i, o >>
        BY <2>2, <2>6
      <3>2. Len(<< b, i, o >>) = 3 /\ \A k \in 1 .. 3 : GoodField(<< b, i, o >>[k], blocks)
        BY <2>1, <2>5, <2>6
      <3>3. IsSequence(<< b, i, o >>)
        BY DEF IsSequence
      <3> DEFINE fs == << b, i, o >>
      <3> HIDE DEF fs
      <3>4. OperandFields(op) = fs
        BY <3>1 DEF fs
      <3>5. IsSequence(fs) /\ Len(fs) = 3 /\ \A k \in 1 .. 3 : GoodField(fs[k], blocks)
        BY <3>2, <3>3 DEF fs
      <3> QED BY <3>4, <3>5
    <2>7. CASE op.data.index.type # "NONE" /\ op.data.offset.type = "NONE"
      <3>1. OperandFields(op) = << b, i >>
        BY <2>2, <2>7
      <3>2. Len(<< b, i >>) = 2 /\ \A k \in 1 .. 2 : GoodField(<< b, i >>[k], blocks)
        BY <2>1, <2>4, <2>7
      <3>3. IsSequence(<< b, i >>)
        BY DEF IsSequence
      <3> DEFINE fs == << b, i >>
      <3> HIDE DEF fs
      <3>4. OperandFields(op) = fs
        BY <3>1 DEF fs
      <3>5. IsSequence(fs) /\ Len(fs) = 2 /\ \A k \in 1 .. 2 : GoodField(fs[k], blocks)
        BY <3>2, <3>3 DEF fs
      <3> QED BY <3>4, <3>5
    <2>8. CASE op.data.index.type = "NONE" /\ op.data.offset.type # "NONE"
      <3>1. OperandFields(op) = << b, o >>
        BY <2>2, <2>8
      <3>2. Len(<< b, o >>) = 2 /\ \A k \in 1 .. 2 : GoodField(<< b, o >>[k], blocks)
        BY <2>1, <2>4, <2>8
      <3>3. IsSequence(<< b, o >>)
        BY DEF IsSequence
      <3> DEFINE fs == << b, o >>
      <3> HIDE DEF fs
      <3>4. OperandFields(op) = fs
        BY <3>1 DEF fs
      <3>5. IsSequence(fs) /\ Len(fs) = 2 /\ \A k \in 1 .. 2 : GoodField(fs[k], blocks)
        BY <3>2, <3>3 DEF fs
      <3> QED BY <3>4, <3>5
    <2>9. CASE op.data.index.type = "NONE" /\ op.data.offset.type = "NONE"
      BY <1>2, <2>1, <2>2, <2>9
    <2> QED BY <2>6, <2>7, <2>8, <2>9
  <1>4. CASE op.type = "REGISTER"
    <2>1. OperandFields(op) = << Field(<< op.data >>) >>
      BY <1>4 DEF OperandFields
    <2>2. GoodField(Field(<< op.data >>), blocks)
      BY SingleSequence DEF GoodField, Field
    <2> QED BY <1>2, <2>1, <2>2
  <1>5. CASE op.type \in {"IMMEDIATE", "MEMORY"}
    <2>1. OperandFields(op) = << Field(op.data) >>
      BY <1>5 DEF OperandFields
    <2>2. IsSequence(op.data) /\ Len(op.data) \in Nat \ {0}
      <3>1. \A size \in 0 .. 3 : Width(size) \in Nat \ {0}
        BY Widths
      <3>2. op.size \in 0 .. 3 /\ IsSequence(op.data) /\ (Len(op.data) = Width(op.size) \/ Len(op.data) = 8)
        BY <1>5 DEF Encoded, GoodOperand
      <3> DEFINE size == op.size
                 length == Len(op.data)
      <3> HIDE DEF size, length
      <3>3. size \in 0 .. 3 /\ (length = Width(size) \/ length = 8)
        BY <3>2 DEF size, length
      <3>4. length \in Nat \ {0}
        BY <3>1, <3>3
      <3> QED BY <3>2, <3>4 DEF length
    <2>3. GoodField(Field(op.data), blocks)
      BY <2>2 DEF GoodField, Field
    <2> QED BY <1>2, <2>1, <2>3
  <1>6. CASE op.type \in {"LABEL", "SUBLABEL"}
    <2>1. OperandFields(op) = << Await(op.data) >>
      BY <1>6 DEF OperandFields
    <2>2. op.data \in blocks
      BY <1>6 DEF Encoded, GoodOperand
    <2>3. GoodField(Await(op.data), blocks)
      BY <2>2, PlaceholderSequence DEF GoodField, Await
    <2> QED BY <1>2, <2>1, <2>3
  <1>7. op.type \in {"REGISTER", "IMMEDIATE", "MEMORY", "LABEL", "SUBLABEL", "COMPLEX"}
    BY DEF Encoded, CompactType
  <1> QED BY <1>3, <1>4, <1>5, <1>6, <1>7

LEMMA FilledSequence ==
    ASSUME NEW field, NEW blocks, NEW where, GoodField(field, blocks)
    PROVE  IsSequence(Filled(field, where)) /\ Len(Filled(field, where)) = Len(field.bytes)
  <1>1. CASE field.awaits = << >>
    BY <1>1 DEF GoodField, Filled
  <1>2. CASE field.awaits # << >>
    BY <1>2, AddressSequence DEF GoodField, Filled
  <1> QED BY <1>1, <1>2

-----------------------------------------------------------------------------
(* The bytes of an instruction, in which the addresses are filled in       *)

Parts(ins) == [i \in 1 .. Len(ins.operands) |-> OperandFields(ins.operands[i])]

Lead(ins, stale) == << ins.opcode >> \o Infos(ins.operands, stale)

Fields(ins) == FlattenSeq(Parts(ins))

BytesOf(fields) == [k \in 1 .. Len(fields) |-> fields[k].bytes]

\* The fields of the operands stand behind the head, one after the other; a jump
\* stands for every field that awaits an address.
Laid(enc, head, fields, bend, blocks) ==
    /\ IsSequence(head) /\ IsSequence(fields) /\ IsSequence(enc.bytes)
    /\ Ends(BytesOf(fields), bend)
    /\ \A k \in 1 .. Len(fields) : GoodField(fields[k], blocks)
    /\ Len(enc.bytes) = Len(head) + bend[Len(fields)]
    /\ \A x \in 1 .. Len(head) : enc.bytes[x] = head[x]
    /\ \A k \in 1 .. Len(fields) : \A y \in 1 .. Len(fields[k].bytes) :
          enc.bytes[Len(head) + (bend[k - 1] + y)] = fields[k].bytes[y]
    /\ enc.jumps = {[at |-> Len(head) + bend[k - 1], block |-> fields[k].awaits[1]] :
                       k \in {j \in 1 .. Len(fields) : fields[j].awaits # << >>}}

LEMMA BytesOfFields ==
    ASSUME NEW fields, NEW blocks, IsSequence(fields),
           \A k \in 1 .. Len(fields) : GoodField(fields[k], blocks)
    PROVE  /\ IsSequences(BytesOf(fields)) /\ Len(BytesOf(fields)) = Len(fields)
           /\ \A k \in 1 .. Len(fields) : BytesOf(fields)[k] = fields[k].bytes
  <1> DEFINE n == Len(fields)
             b == BytesOf(fields)
  <1>1. n \in Nat /\ b = [k \in 1 .. n |-> fields[k].bytes]
    BY DEF IsSequence, BytesOf
  <1>2. b = [k \in 1 .. n |-> b[k]] /\ \A k \in 1 .. n : b[k] = fields[k].bytes
    BY <1>1
  <1> HIDE DEF b, n
  <1>3. IsSequence(b) /\ Len(b) = n
    BY <1>1, <1>2, FunctionSequence
  <1>4. \A k \in 1 .. n : IsSequence(fields[k].bytes)
    BY DEF GoodField, n
  <1> QED BY <1>2, <1>3, <1>4 DEF IsSequences, b, n

\* Only the first k of the sequences.
LEMMA EndsOfPrefix ==
    ASSUME NEW seqs, IsSequences(seqs), NEW end, Ends(seqs, end), NEW k \in 0 .. Len(seqs),
           NEW f, f = [j \in 1 .. k |-> seqs[j]]
    PROVE  IsSequence(FlattenSeq(f)) /\ Len(FlattenSeq(f)) = end[k]
  <1> DEFINE g == [j \in 0 .. k |-> end[j]]
  <1>1. PICK n \in Nat : n = Len(seqs)
    BY DEF IsSequences, IsSequence
  <1>2. k \in Nat /\ k <= n
    BY <1>1
  <1>3. f = [j \in 1 .. k |-> f[j]] /\ \A j \in 1 .. k : f[j] = seqs[j]
    OBVIOUS
  <1>4. IsSequence(f) /\ Len(f) = k
    BY <1>2, <1>3, FunctionSequence
  <1>5. IsSequences(f)
    BY <1>1, <1>2, <1>3, <1>4 DEF IsSequences
  <1>6. /\ \A j \in 0 .. n : end[j] \in Nat
        /\ end[0] = 0
        /\ \A j \in 1 .. n : end[j] = end[j - 1] + Len(seqs[j])
    BY <1>1 DEF Ends
  <1>7. g \in [0 .. k -> Nat]
    BY <1>2, <1>6
  <1>8. g[0] = 0 /\ g[k] = end[k]
    BY <1>2, <1>6
  <1>9. ASSUME NEW j \in 1 .. k
        PROVE  g[j] = g[j - 1] + Len(f[j])
    <2>1. j \in 0 .. k /\ j - 1 \in 0 .. k /\ j \in 1 .. n
      BY <1>2
    <2>2. g[j] = end[j] /\ g[j - 1] = end[j - 1]
      BY <2>1
    <2> HIDE DEF g
    <2> QED BY <1>3, <1>6, <2>1, <2>2
  <1> HIDE DEF g
  <1>10. Ends(f, g)
    BY <1>4, <1>7, <1>8, <1>9 DEF Ends
  <1> QED BY <1>4, <1>5, <1>8, <1>10, FlattenPlaces

LEMMA PartsGood ==
    ASSUME NEW ins, NEW blocks, GoodInstruction(ins, blocks), Encodable(ins)
    PROVE  /\ IsSequences(Parts(ins)) /\ Len(Parts(ins)) = Len(ins.operands)
           /\ \A i \in 1 .. Len(ins.operands) : Parts(ins)[i] = OperandFields(ins.operands[i])
           /\ IsSequence(Fields(ins))
           /\ \A k \in 1 .. Len(Fields(ins)) : GoodField(Fields(ins)[k], blocks)
  <1> DEFINE n == Len(ins.operands)
             p == Parts(ins)
  <1>1. n \in Nat
    BY DEF GoodInstruction, IsSequence
  <1>2. p = [i \in 1 .. n |-> p[i]] /\ \A i \in 1 .. n : p[i] = OperandFields(ins.operands[i])
    BY DEF Parts
  <1>3. \A i \in 1 .. n : Encoded(ins.operands[i], blocks)
    BY DEF GoodInstruction, Encodable, Encoded
  <1> HIDE DEF p, n
  <1>4. IsSequence(p) /\ Len(p) = n
    BY <1>1, <1>2, FunctionSequence
  <1>5. ASSUME NEW i \in 1 .. n
        PROVE  /\ IsSequence(p[i])
               /\ \A k \in 1 .. Len(p[i]) : GoodField(p[i][k], blocks)
    <2> DEFINE op == ins.operands[i]
    <2>1. Encoded(op, blocks) /\ p[i] = OperandFields(op)
      BY <1>2, <1>3
    <2> HIDE DEF op
    <2> QED BY <2>1, FieldsGood
  <1>6. IsSequences(p)
    BY <1>4, <1>5 DEF IsSequences
  <1>7. /\ IsSequence(FlattenSeq(p))
        /\ \A i \in 1 .. Len(FlattenSeq(p)) :
              \E k \in 1 .. Len(p) : \E j \in 1 .. Len(p[k]) : FlattenSeq(p)[i] = p[k][j]
    BY <1>6, FlattenElements
  <1>8. \A i \in 1 .. Len(FlattenSeq(p)) : GoodField(FlattenSeq(p)[i], blocks)
    BY <1>4, <1>5, <1>7
  <1> QED BY <1>2, <1>4, <1>6, <1>7, <1>8 DEF Fields, p, n

InfosOf(ops, stale) == [i \in 1 .. Len(ops) |-> OperandInfo(ops[i], IF Len(ops) = 1 THEN stale ELSE 0)]

LEMMA LeadSequence ==
    ASSUME NEW ins, NEW blocks, NEW stale, GoodInstruction(ins, blocks)
    PROVE  /\ IsSequences(InfosOf(ins.operands, stale))
           /\ Len(InfosOf(ins.operands, stale)) = Len(ins.operands)
           /\ IsSequence(Infos(ins.operands, stale))
           /\ IsSequence(Lead(ins, stale))
           /\ Len(Lead(ins, stale)) = 1 + Len(Infos(ins.operands, stale))
           /\ Lead(ins, stale)[1] = ins.opcode
           /\ \A i \in 1 .. Len(Infos(ins.operands, stale)) :
                 Lead(ins, stale)[1 + i] = Infos(ins.operands, stale)[i]
  <1> DEFINE ops == ins.operands
             n   == Len(ops)
             st  == IF n = 1 THEN stale ELSE 0
             p   == InfosOf(ops, stale)
             q   == Infos(ops, stale)
  <1>1. n \in Nat
    BY DEF GoodInstruction, IsSequence
  <1>2. p = [i \in 1 .. n |-> OperandInfo(ops[i], st)] /\ q = FlattenSeq(p)
    BY DEF InfosOf, Infos
  <1> HIDE DEF p, q, ops, n, st
  <1>3. p = [i \in 1 .. n |-> p[i]] /\ \A i \in 1 .. n : p[i] = OperandInfo(ops[i], st)
    BY <1>2
  <1>4. IsSequence(p) /\ Len(p) = n
    BY <1>1, <1>3, FunctionSequence
  <1>5. IsSequences(p)
    <2>1. \A i \in 1 .. n : IsSequence(p[i])
      <3> TAKE i \in 1 .. n
      <3>1. p[i] = OperandInfo(ops[i], st)
        BY <1>3
      <3> QED BY <3>1, InfoSequence
    <2> QED BY <1>4, <2>1 DEF IsSequences
  <1>6. IsSequence(q)
    BY <1>2, <1>5, FlattenElements
  <1> DEFINE o == << ins.opcode >>
  <1>7. IsSequence(o) /\ Len(o) = 1 /\ o[1] = ins.opcode
    BY SingleSequence
  <1> HIDE DEF o
  <1>8. /\ IsSequence(o \o q)
        /\ Len(o \o q) = 1 + Len(q)
        /\ (o \o q)[1] = ins.opcode
        /\ \A i \in 1 .. Len(q) : (o \o q)[1 + i] = q[i]
    <2> DEFINE u == o \o q
    <2>6. IsSequence(o) /\ IsSequence(q)
      BY <1>6, <1>7
    <2>1. /\ IsSequence(u) /\ Len(u) = Len(o) + Len(q)
          /\ \A i \in 1 .. Len(o) : u[i] = o[i]
          /\ \A i \in 1 .. Len(q) : u[Len(o) + i] = q[i]
      BY <2>6, ConcatSequence
    <2> HIDE DEF u
    <2>2. 1 \in 1 .. Len(o)
      BY <1>7
    <2>3. u[1] = o[1]
      BY <2>1, <2>2
    <2>4. Len(u) = 1 + Len(q)
      BY <1>7, <2>1
    <2>5. \A i \in 1 .. Len(q) : u[1 + i] = q[i]
      <3> TAKE i \in 1 .. Len(q)
      <3>1. u[Len(o) + i] = q[i]
        BY <2>1
      <3>2. Len(o) + i = 1 + i
        BY <1>7
      <3> QED BY <3>1, <3>2
    <2> QED BY <1>7, <2>1, <2>3, <2>4, <2>5 DEF u
  <1>9. Lead(ins, stale) = o \o q
    BY DEF Lead, o, q, ops
  <1> QED BY <1>4, <1>5, <1>6, <1>8, <1>9 DEF p, q, ops, n

LEMMA EncodingLaid ==
    ASSUME NEW ins, NEW blocks, NEW stale, GoodInstruction(ins, blocks), Encodable(ins)
    PROVE  \E bend : Laid(EncodeInstruction(ins, stale), Lead(ins, stale), Fields(ins), bend, blocks)
  <1> DEFINE enc    == EncodeInstruction(ins, stale)
             head   == Lead(ins, stale)
             fields == Fields(ins)
             n      == Len(fields)
             raw    == BytesOf(fields)
             Ahead(k) == Len(head) + Len(FlattenSeq([j \in 1 .. k - 1 |-> fields[j].bytes]))
  <1>1. /\ enc.bytes = head \o FlattenSeq(raw)
        /\ enc.jumps = {[at |-> Ahead(k), block |-> fields[k].awaits[1]] :
                           k \in {j \in 1 .. n : fields[j].awaits # << >>}}
    BY DEF EncodeInstruction, Lead, Fields, Parts, BytesOf
  <1>2. IsSequence(head)
    BY LeadSequence
  <1>3. IsSequence(fields) /\ \A k \in 1 .. n : GoodField(fields[k], blocks)
    BY PartsGood
  <1> HIDE DEF enc, head, fields
  <1>4. /\ IsSequences(raw) /\ Len(raw) = n
        /\ \A k \in 1 .. n : raw[k] = fields[k].bytes
    BY <1>3, BytesOfFields
  <1> HIDE DEF raw
  <1>5. PICK bend : Ends(raw, bend)
    BY <1>4, EndsExist
  <1>6. PICK m \in Nat : m = n
    BY <1>3 DEF IsSequence
  <1>7. /\ \A k \in 0 .. m : bend[k] \in Nat
        /\ \A k \in 1 .. m : Len(raw[k]) \in Nat /\ bend[k] = bend[k - 1] + Len(raw[k])
    BY <1>4, <1>5, <1>6, EndsTyped
  <1>8. /\ IsSequence(FlattenSeq(raw))
        /\ Len(FlattenSeq(raw)) = bend[Len(raw)]
        /\ \A k \in 1 .. Len(raw) : \A j \in 1 .. Len(raw[k]) :
              FlattenSeq(raw)[bend[k - 1] + j] = raw[k][j]
    BY <1>4, <1>5, FlattenPlaces
  <1> DEFINE body == FlattenSeq(raw)
             all  == head \o body
  <1>9. /\ IsSequence(all) /\ Len(all) = Len(head) + Len(body)
        /\ \A i \in 1 .. Len(head) : all[i] = head[i]
        /\ \A i \in 1 .. Len(body) : all[Len(head) + i] = body[i]
    BY <1>2, <1>8, ConcatSequence
  <1>10. enc.bytes = all
    BY <1>1
  <1>11. Len(body) = bend[m] /\ bend[n] = bend[m]
    BY <1>4, <1>6, <1>8
  <1> HIDE DEF all, n
  <1>12. ASSUME NEW k \in 1 .. m, NEW y \in 1 .. Len(fields[k].bytes)
         PROVE  enc.bytes[Len(head) + (bend[k - 1] + y)] = fields[k].bytes[y]
    <2>1. raw[k] = fields[k].bytes
      BY <1>4, <1>6
    <2>2. y \in 1 .. Len(raw[k])
      BY <2>1
    <2>3. body[bend[k - 1] + y] = raw[k][y]
      BY <1>4, <1>6, <1>8, <2>2
    <2> HIDE DEF body
    <2>4. bend[k - 1] + y \in 1 .. bend[k] /\ bend[k] <= bend[m]
      <3>1. k - 1 \in 0 .. m /\ k \in 0 .. m /\ k <= m /\ m \in 0 .. m
        OBVIOUS
      <3>2. bend[k] = bend[k - 1] + Len(raw[k]) /\ bend[k - 1] \in Nat /\ bend[k] \in Nat /\ Len(raw[k]) \in Nat
        BY <1>7, <3>1
      <3>3. bend[k - 1] + y \in 1 .. bend[k]
        BY <2>2, <3>2
      <3>4. bend[k] <= bend[m]
        <4>1. k \in 0 .. Len(raw) /\ m \in 0 .. Len(raw) /\ k <= m
          BY <1>4, <1>6, <3>1
        <4> QED BY <1>4, <1>5, <4>1, EndsGrow
      <3> QED BY <3>3, <3>4
    <2>5. bend[k - 1] + y \in 1 .. Len(body)
      <3>1. bend[k] \in Nat /\ bend[m] \in Nat
        BY <1>7
      <3> QED BY <1>11, <2>4, <3>1
    <2>6. all[Len(head) + (bend[k - 1] + y)] = body[bend[k - 1] + y]
      BY <1>9, <2>5
    <2> QED BY <1>10, <2>1, <2>3, <2>6
  <1>13. ASSUME NEW k \in 1 .. m
         PROVE  Ahead(k) = Len(head) + bend[k - 1]
    <2> DEFINE j0 == k - 1
               f  == [j \in 1 .. j0 |-> fields[j].bytes]
    <2>1. j0 \in 0 .. Len(raw)
      BY <1>4, <1>6
    <2>2. \A j \in 1 .. j0 : raw[j] = fields[j].bytes
      <3>1. \A j \in 1 .. j0 : j \in 1 .. m
        OBVIOUS
      <3> QED BY <1>4, <1>6, <3>1
    <2>3. f = [j \in 1 .. j0 |-> raw[j]]
      BY <2>2
    <2>4. Ahead(k) = Len(head) + Len(FlattenSeq(f))
      OBVIOUS
    <2> HIDE DEF f, Ahead
    <2>5. Len(FlattenSeq(f)) = bend[j0]
      <3> HIDE DEF j0
      <3> QED BY <1>4, <1>5, <2>1, <2>3, EndsOfPrefix
    <2> QED BY <2>4, <2>5
  <1> HIDE DEF Ahead
  <1>14. enc.jumps = {[at |-> Len(head) + bend[k - 1], block |-> fields[k].awaits[1]] :
                         k \in {j \in 1 .. n : fields[j].awaits # << >>}}
    <2>1. \A k \in {j \in 1 .. n : fields[j].awaits # << >>} : Ahead(k) = Len(head) + bend[k - 1]
      BY <1>6, <1>13
    <2> QED BY <1>1, <2>1
  <1>15. IsSequence(enc.bytes) /\ Len(enc.bytes) = Len(head) + bend[n]
    BY <1>9, <1>10, <1>11
  <1>16. \A x \in 1 .. Len(head) : enc.bytes[x] = head[x]
    BY <1>9, <1>10
  <1>17. \A k \in 1 .. n : \A y \in 1 .. Len(fields[k].bytes) :
            enc.bytes[Len(head) + (bend[k - 1] + y)] = fields[k].bytes[y]
    BY <1>6, <1>12
  <1>18. Ends(BytesOf(fields), bend)
    BY <1>5 DEF raw
  <1>19. Laid(enc, head, fields, bend, blocks)
    BY <1>2, <1>3, <1>14, <1>15, <1>16, <1>17, <1>18 DEF Laid, n
  <1> QED BY <1>19 DEF enc, head, fields

\* The operators that Linking has from Program are those of the assembler.
LEMMA SameSequences ==
    ASSUME NEW s
    PROVE  Linker!FlattenSeq(s) = FlattenSeq(s) /\ Linker!ToSet(s) = ToSet(s)
  BY DEF FlattenSeq, Linker!FlattenSeq, ToSet, Linker!ToSet

LEMMA SameTypes ==
    ASSUME NEW op
    PROVE  Linker!CompactType(op) = CompactType(op)
  <1>1. \A item : Linker!IsRegister(item) = IsRegister(item)
    BY DEF Linker!IsRegister, IsRegister
  <1>2. \A c : Linker!CompactOfComplex(c) = CompactOfComplex(c)
    BY <1>1 DEF Linker!CompactOfComplex, CompactOfComplex
  <1> QED BY <1>2 DEF Linker!CompactType, CompactType

LEMMA SameItemSize ==
    ASSUME NEW item
    PROVE  Linker!ItemSize(item) = ItemSize(item)
  BY DEF Linker!ItemSize, ItemSize, Linker!Width, Width, Linker!QWORD, QWORD

LEMMA SameInfo ==
    ASSUME NEW op, NEW stale
    PROVE  Linker!OperandInfo(op, stale) = OperandInfo(op, stale)
  <1>1. Linker!Imm0Size(op, stale) = Imm0Size(op, stale)
    BY SameTypes, SameItemSize DEF Linker!Imm0Size, Imm0Size, Linker!QWORD, QWORD
  <1> QED BY <1>1, SameTypes, SameItemSize DEF Linker!OperandInfo, OperandInfo, Linker!Extended, Extended

LEMMA SameInfos ==
    ASSUME NEW ops, NEW stale
    PROVE  Linker!Infos(ops, stale) = Infos(ops, stale)
  <1>1. \A op, st : Linker!OperandInfo(op, st) = OperandInfo(op, st)
    BY SameInfo
  <1> QED BY <1>1, SameSequences DEF Linker!Infos, Infos

LEMMA SameFields ==
    ASSUME NEW op
    PROVE  Linker!OperandFields(op) = OperandFields(op)
  <1>1. \A bytes : Linker!Field(bytes) = Field(bytes)
    BY DEF Linker!Field, Field
  <1>2. \A b : Linker!Await(b) = Await(b)
    BY DEF Linker!Await, Await, Linker!Placeholder, Placeholder
  <1>3. \A item, f : Linker!ItemFields(item, f) = ItemFields(item, f)
    BY <1>1, <1>2 DEF Linker!ItemFields, ItemFields
  <1> QED BY <1>1, <1>2, <1>3 DEF Linker!OperandFields, OperandFields

LEMMA SameEncodable ==
    ASSUME NEW ins
    PROVE  Linker!Encodable(ins) = Encodable(ins)
  <1>1. \A op : Linker!OperandRegisters(op) = OperandRegisters(op)
    BY DEF Linker!OperandRegisters, OperandRegisters
  <1>2. Linker!RegisterIDs = RegisterIDs
    BY DEF Linker!RegisterIDs, RegisterIDs
  <1>3. \A o : Linker!GetArgCountForOpcode(o) = GetArgCountForOpcode(o)
    BY DEF Linker!GetArgCountForOpcode, GetArgCountForOpcode, Linker!ThreeArguments, ThreeArguments,
           Linker!TwoArguments, TwoArguments, Linker!OneArgument, OneArgument
  <1> QED BY <1>1, <1>2, <1>3, SameTypes DEF Linker!Encodable, Encodable

LEMMA SameEncoding ==
    ASSUME NEW ins, NEW stale
    PROVE  Linker!EncodeInstruction(ins, stale) = EncodeInstruction(ins, stale)
  BY SameInfos, SameFields, SameSequences DEF Linker!EncodeInstruction, EncodeInstruction

LEMMA SameProgram ==
    ASSUME NEW p
    PROVE  /\ Linker!AllBlocks(p) = AllBlocks(p)
           /\ \A s : Linker!Enumerated(p, s) = Enumerated(p, s)
  <1>1. \A s : Linker!BlocksOf(p, s) = BlocksOf(p, s)
    <2> TAKE s
    <2> DEFINE t == [l \in 1 .. Len(p[s].labels) |-> [b \in 1 .. Len(p[s].labels[l]) |-> << s, l, b >>]]
    <2>1. Linker!BlocksOf(p, s) = Linker!FlattenSeq(t) /\ BlocksOf(p, s) = FlattenSeq(t)
      BY Zenon DEF Linker!BlocksOf, BlocksOf
    <2> HIDE DEF t
    <2> QED BY <2>1, SameSequences
  <1>2. \A id : Linker!BlockAt(p, id) = BlockAt(p, id)
    BY DEF Linker!BlockAt, BlockAt
  <1>3. Linker!AllBlocks(p) = AllBlocks(p)
    <2> DEFINE t == [s \in 1 .. Len(p) |-> BlocksOf(p, s)]
               u == [s \in 1 .. Len(p) |-> Linker!BlocksOf(p, s)]
    <2>1. Linker!AllBlocks(p) = Linker!FlattenSeq(u) /\ AllBlocks(p) = FlattenSeq(t)
      BY Zenon DEF Linker!AllBlocks, AllBlocks
    <2>2. t = u
      BY <1>1
    <2> HIDE DEF t, u
    <2> QED BY <2>1, <2>2, SameSequences
  <1>4. \A s : Linker!Enumerated(p, s) = Enumerated(p, s)
    <2> TAKE s
    <2> DEFINE Walk(ids) == [k \in 1 .. Len(ids) |->
                               << [kind |-> "begin", block |-> ids[k]] >> \o BlockAt(p, ids[k])]
               LWalk(ids) == [k \in 1 .. Len(ids) |->
                               << [kind |-> "begin", block |-> ids[k]] >> \o Linker!BlockAt(p, ids[k])]
               t == Walk(BlocksOf(p, s))
               u == LWalk(Linker!BlocksOf(p, s))
    <2>1. Linker!Enumerated(p, s) = Linker!FlattenSeq(u) /\ Enumerated(p, s) = FlattenSeq(t)
      BY Zenon DEF Linker!Enumerated, Enumerated
    <2>2. t = u
      BY <1>1, <1>2
    <2> HIDE DEF t, u
    <2> QED BY <2>1, <2>2, SameSequences
  <1> QED BY <1>3, <1>4

LEMMA SameBytes ==
    ASSUME NEW n
    PROVE  /\ Linker!Nops(n) = Nops(n)
           /\ Linker!PowerOfTwo(n) = PowerOfTwo(n)
           /\ Linker!AddressBytes(n) = AddressBytes(n)
           /\ Linker!Access(n) = Access(n)
  <1>1. Linker!Nops(n) = Nops(n)
    BY DEF Linker!Nops, Nops, Linker!NOP, NOP
  <1>2. Linker!PowerOfTwo(n) = PowerOfTwo(n)
    BY DEF Linker!PowerOfTwo, PowerOfTwo
  <1>3. Linker!AddressBytes(n) = AddressBytes(n)
    BY DEF Linker!AddressBytes, AddressBytes
  <1>4. Linker!Access(n) = Access(n)
    BY DEF Linker!Access, Access
  <1> QED BY <1>1, <1>2, <1>3, <1>4

\* The eight bytes of the jumps that reach over byte x.
Over(enc, x) == {j \in enc.jumps : x - j.at \in 1 .. 8}

LEMMA AddressedBytes ==
    ASSUME NEW enc, NEW where, IsSequence(enc.bytes)
    PROVE  /\ IsSequence(Linker!Addressed(enc, where))
           /\ Len(Linker!Addressed(enc, where)) = Len(enc.bytes)
           /\ \A x \in 1 .. Len(enc.bytes) : Over(enc, x) = {} =>
                 Linker!Addressed(enc, where)[x] = enc.bytes[x]
           /\ \A x \in 1 .. Len(enc.bytes) : \A j : Over(enc, x) = {j} =>
                 Linker!Addressed(enc, where)[x] = AddressBytes(where[j.block])[x - j.at]
  <1> DEFINE n == Len(enc.bytes)
             a == Linker!Addressed(enc, where)
             byte(x) == IF Over(enc, x) = {} THEN enc.bytes[x]
                        ELSE LET j == CHOOSE j \in Over(enc, x) : TRUE
                             IN  AddressBytes(where[j.block])[x - j.at]
  <1>1. \A b : Linker!AddressBytes(b) = AddressBytes(b)
    BY SameBytes
  <1>2. a = [x \in 1 .. n |-> byte(x)]
    BY <1>1 DEF Linker!Addressed, Over
  <1>3. n \in Nat
    BY DEF IsSequence
  <1> HIDE DEF a, n, byte
  <1>4. a = [x \in 1 .. n |-> a[x]] /\ \A x \in 1 .. n : a[x] = byte(x)
    BY <1>2
  <1>5. IsSequence(a) /\ Len(a) = n
    BY <1>3, <1>4, FunctionSequence
  <1>6. ASSUME NEW x \in 1 .. n, Over(enc, x) = {}
        PROVE  a[x] = enc.bytes[x]
    BY <1>4, <1>6 DEF byte
  <1>7. ASSUME NEW x \in 1 .. n, NEW j, Over(enc, x) = {j}
        PROVE  a[x] = AddressBytes(where[j.block])[x - j.at]
    <2>1. (CHOOSE i \in Over(enc, x) : TRUE) = j
      BY <1>7
    <2>2. Over(enc, x) # {}
      BY <1>7
    <2> QED BY <1>4, <2>1, <2>2 DEF byte
  <1> QED BY <1>5, <1>6, <1>7 DEF a, n

\* A place in field k is in no other.
LEMMA EndsApart ==
    ASSUME NEW seqs, IsSequences(seqs), NEW end, Ends(seqs, end),
           NEW k \in 1 .. Len(seqs), NEW l \in 1 .. Len(seqs), NEW x \in Nat,
           end[k - 1] < x, x <= end[k], end[l - 1] < x, x <= end[l]
    PROVE  k = l
  <1>1. PICK n \in Nat : n = Len(seqs)
    BY DEF IsSequences, IsSequence
  <1>2. \A i \in 0 .. n : end[i] \in Nat
    BY <1>1 DEF Ends
  <1>3. ASSUME NEW i \in 1 .. n, NEW j \in 1 .. n, i < j, end[j - 1] < x, x <= end[i]
        PROVE  FALSE
    <2>1. i \in 0 .. n /\ j - 1 \in 0 .. n /\ i <= j - 1
      BY <1>3
    <2>2. end[i] <= end[j - 1]
      BY <1>1, <2>1, EndsGrow
    <2> QED BY <1>2, <1>3, <2>1, <2>2
  <1>4. k \in 1 .. n /\ l \in 1 .. n
    BY <1>1
  <1>5. k < l \/ l < k \/ k = l
    BY <1>4
  <1> QED BY <1>3, <1>4, <1>5

LEMMA AddressedFields ==
    ASSUME NEW enc, NEW head, NEW fields, NEW bend, NEW blocks, NEW where,
           Laid(enc, head, fields, bend, blocks)
    PROVE  /\ IsSequence(Linker!Addressed(enc, where))
           /\ Len(Linker!Addressed(enc, where)) = Len(head) + bend[Len(fields)]
           /\ \A x \in 1 .. Len(head) : Linker!Addressed(enc, where)[x] = head[x]
           /\ \A k \in 1 .. Len(fields) : \A y \in 1 .. Len(fields[k].bytes) :
                 Linker!Addressed(enc, where)[Len(head) + (bend[k - 1] + y)] = Filled(fields[k], where)[y]
  <1>0. /\ IsSequence(head) /\ IsSequence(fields) /\ IsSequence(enc.bytes)
        /\ Ends(BytesOf(fields), bend)
        /\ \A k \in 1 .. Len(fields) : GoodField(fields[k], blocks)
        /\ Len(enc.bytes) = Len(head) + bend[Len(fields)]
        /\ \A x \in 1 .. Len(head) : enc.bytes[x] = head[x]
        /\ \A k \in 1 .. Len(fields) : \A y \in 1 .. Len(fields[k].bytes) :
              enc.bytes[Len(head) + (bend[k - 1] + y)] = fields[k].bytes[y]
        /\ enc.jumps = {[at |-> Len(head) + bend[k - 1], block |-> fields[k].awaits[1]] :
                           k \in {j \in 1 .. Len(fields) : fields[j].awaits # << >>}}
    BY DEF Laid
  <1> DEFINE raw == BytesOf(fields)
             a   == Linker!Addressed(enc, where)
             jump(k) == [at |-> Len(head) + bend[k - 1], block |-> fields[k].awaits[1]]
  <1>1. /\ IsSequences(raw) /\ Len(raw) = Len(fields)
        /\ \A k \in 1 .. Len(fields) : raw[k] = fields[k].bytes
    BY <1>0, BytesOfFields
  <1>2. PICK m \in Nat : m = Len(fields)
    BY <1>0 DEF IsSequence
  <1>3. PICK h \in Nat : h = Len(head)
    BY <1>0 DEF IsSequence
  <1>4. Ends(raw, bend)
    BY <1>0
  <1> HIDE DEF raw
  <1>5. /\ \A k \in 0 .. m : bend[k] \in Nat
        /\ \A k \in 1 .. m : Len(raw[k]) \in Nat /\ bend[k] = bend[k - 1] + Len(raw[k])
    BY <1>1, <1>2, <1>4, EndsTyped
  <1>6. /\ IsSequence(a) /\ Len(a) = Len(enc.bytes)
        /\ \A x \in 1 .. Len(enc.bytes) : Over(enc, x) = {} => a[x] = enc.bytes[x]
        /\ \A x \in 1 .. Len(enc.bytes) : \A j : Over(enc, x) = {j} =>
              a[x] = AddressBytes(where[j.block])[x - j.at]
    BY <1>0, AddressedBytes
  <1> HIDE DEF a
  <1>7. \A j \in enc.jumps : \E k \in 1 .. m : fields[k].awaits # << >> /\ j = jump(k)
    BY <1>0, <1>2
  <1>8. \A k \in 1 .. m : fields[k].awaits # << >> => jump(k) \in enc.jumps
    BY <1>0, <1>2
  <1>9. \A k \in 1 .. m : jump(k).at = h + bend[k - 1] /\ jump(k).block = fields[k].awaits[1]
    BY <1>3
  <1> HIDE DEF jump
  <1>10. \A k \in 1 .. m : fields[k].awaits # << >> => Len(raw[k]) = 8
    BY <1>0, <1>1, <1>2 DEF GoodField
  <1>11. ASSUME NEW x \in 1 .. h
         PROVE  a[x] = head[x]
    <2>1. Over(enc, x) = {}
      <3> SUFFICES ASSUME NEW j \in enc.jumps, x - j.at \in 1 .. 8
                   PROVE  FALSE
        BY DEF Over
      <3>1. PICK k \in 1 .. m : j = jump(k)
        BY <1>7
      <3>2. j.at = h + bend[k - 1] /\ bend[k - 1] \in Nat
        BY <1>5, <1>9, <3>1
      <3> QED BY <3>2
    <2>2. x \in 1 .. Len(enc.bytes)
      <3>1. Len(enc.bytes) = h + bend[m] /\ bend[m] \in Nat
        BY <1>0, <1>2, <1>3, <1>5
      <3> QED BY <3>1
    <2> QED BY <1>0, <1>3, <1>6, <2>1, <2>2
  <1>12. ASSUME NEW k \in 1 .. m, NEW y \in 1 .. Len(fields[k].bytes)
         PROVE  a[Len(head) + (bend[k - 1] + y)] = Filled(fields[k], where)[y]
    <2> DEFINE x == h + (bend[k - 1] + y)
    <2>1. /\ k - 1 \in 0 .. m /\ k \in 0 .. m /\ m \in 0 .. m
          /\ k \in 1 .. Len(raw) /\ k \in 0 .. Len(raw) /\ m \in 0 .. Len(raw) /\ k <= m
      BY <1>1, <1>2
    <2>2. /\ bend[k - 1] \in Nat /\ bend[k] \in Nat /\ bend[m] \in Nat /\ Len(raw[k]) \in Nat
          /\ bend[k] = bend[k - 1] + Len(raw[k])
          /\ y \in 1 .. Len(raw[k])
      BY <1>1, <1>2, <1>5, <2>1
    <2>3. bend[k] <= bend[m]
      BY <1>1, <1>4, <2>1, EndsGrow
    <2>9. PICK b \in Nat, c \in Nat : b = bend[k - 1] /\ c = Len(raw[k])
      BY <2>2
    <2>10. y \in 1 .. c /\ bend[k] = b + c
      BY <2>2, <2>9
    <2>11. x = h + (b + y)
      BY <2>9
    <2>4. /\ x \in Nat /\ x - h \in Nat /\ x - h = b + y
          /\ b < x - h /\ x - h <= b + c
      <3> HIDE DEF x
      <3> QED BY <2>10, <2>11
    <2>5. x \in 1 .. Len(enc.bytes)
      <3>1. Len(enc.bytes) = h + bend[m]
        BY <1>0, <1>2, <1>3
      <3>2. PICK e \in Nat : e = bend[m]
        BY <2>2
      <3>3. b + c <= e
        BY <2>3, <2>10, <3>2
      <3> HIDE DEF x
      <3> QED BY <2>4, <2>10, <3>1, <3>2, <3>3
    <2>6. enc.bytes[x] = fields[k].bytes[y]
      BY <1>0, <1>2, <1>3
    <2> HIDE DEF x
    <2>7. ASSUME NEW l \in 1 .. m, fields[l].awaits # << >>, x - jump(l).at \in 1 .. 8
          PROVE  l = k
      <3>1. /\ l - 1 \in 0 .. m /\ l \in 1 .. Len(raw)
        BY <1>1, <1>2
      <3>2. bend[l - 1] \in Nat /\ bend[l] = bend[l - 1] + 8 /\ jump(l).at = h + bend[l - 1]
        BY <1>5, <1>9, <1>10, <2>7, <3>1
      <3> DEFINE z == x - h
      <3>5. PICK d \in Nat : d = bend[l - 1]
        BY <3>2
      <3>6. x - (h + d) \in 1 .. 8
        BY <2>7, <3>2, <3>5
      <3>3. d < z /\ z <= d + 8
        BY <2>4, <3>6
      <3>4. z \in Nat /\ bend[k - 1] < z /\ z <= bend[k] /\ bend[l - 1] < z /\ z <= bend[l]
        BY <2>4, <2>9, <2>10, <3>2, <3>3, <3>5
      <3> HIDE DEF z
      <3> QED BY <1>1, <1>4, <2>1, <3>1, <3>4, EndsApart
    <2>8. a[x] = Filled(fields[k], where)[y]
      <3>1. CASE fields[k].awaits = << >>
        <4>1. Over(enc, x) = {}
          <5> SUFFICES ASSUME NEW j \in enc.jumps, x - j.at \in 1 .. 8
                       PROVE  FALSE
            BY DEF Over
          <5>1. PICK l \in 1 .. m : fields[l].awaits # << >> /\ j = jump(l)
            BY <1>7
          <5>2. l = k
            BY <2>7, <5>1
          <5> QED BY <3>1, <5>1, <5>2
        <4> QED BY <1>6, <2>5, <2>6, <3>1, <4>1 DEF Filled
      <3>2. CASE fields[k].awaits # << >>
        <4>1. jump(k) \in enc.jumps /\ x - jump(k).at = y /\ y \in 1 .. 8
          <5>1. jump(k) \in enc.jumps /\ jump(k).at = h + b
            BY <1>8, <1>9, <2>9, <3>2
          <5>2. c = 8
            BY <1>10, <2>9, <3>2
          <5>3. x - (h + b) = y
            BY <2>10, <2>11
          <5> QED BY <2>10, <5>1, <5>2, <5>3
        <4>2. Over(enc, x) = {jump(k)}
          <5>1. jump(k) \in Over(enc, x)
            BY <4>1 DEF Over
          <5>2. ASSUME NEW j \in Over(enc, x)
                PROVE  j = jump(k)
            <6>1. PICK l \in 1 .. m : fields[l].awaits # << >> /\ j = jump(l)
              BY <1>7 DEF Over
            <6>2. l = k
              BY <2>7, <6>1 DEF Over
            <6> QED BY <6>1, <6>2
          <5> QED BY <5>1, <5>2
        <4>3. a[x] = AddressBytes(where[jump(k).block])[x - jump(k).at]
          BY <1>6, <2>5, <4>2
        <4>4. jump(k).block = fields[k].awaits[1]
          BY <1>9
        <4> QED BY <3>2, <4>1, <4>3, <4>4 DEF Filled
      <3> QED BY <3>1, <3>2
    <2> QED BY <1>3, <2>8 DEF x
  <1>13. Len(a) = Len(head) + bend[Len(fields)]
    BY <1>0, <1>6
  <1> QED BY <1>2, <1>3, <1>6, <1>11, <1>12, <1>13 DEF a

-----------------------------------------------------------------------------
(* An instruction decodes as it was written                                *)

StaleFor(ins, stale) == IF Len(ins.operands) = 1 THEN stale ELSE 0

\* The stream carries the instruction at `place`, with the addresses filled in.
Carried(stream, place, ins, blocks, where, stale) ==
    /\ IsSequence(stream) /\ place \in Nat /\ stale \in 0 .. 3
    /\ GoodInstruction(ins, blocks) /\ Encodable(ins)
    /\ \A i \in 1 .. Len(ins.operands) : ~Dangling(ins.operands[i])
    /\ Has(stream, place, Linker!Addressed(EncodeInstruction(ins, stale), where))

\* The head, and every field behind it.
InStream(stream, place, ins, blocks, where, stale, bend) ==
    /\ \A x \in 1 .. Len(Lead(ins, stale)) : stream[place + x] = Lead(ins, stale)[x]
    /\ Ends(BytesOf(Fields(ins)), bend)
    /\ \A k \in 0 .. Len(Fields(ins)) : bend[k] \in Nat
    /\ \A k \in 1 .. Len(Fields(ins)) :
          /\ bend[k] = bend[k - 1] + Len(Fields(ins)[k].bytes)
          /\ Has(stream, place + Len(Lead(ins, stale)) + bend[k - 1], Filled(Fields(ins)[k], where))
    /\ Len(EncodeInstruction(ins, stale).bytes) = Len(Lead(ins, stale)) + bend[Len(Fields(ins))]
    /\ place + (Len(Lead(ins, stale)) + bend[Len(Fields(ins))]) <= Len(stream)

LEMMA CarriedParts ==
    ASSUME NEW stream, NEW place, NEW ins, NEW blocks, NEW where, NEW stale,
           Carried(stream, place, ins, blocks, where, stale)
    PROVE  \E bend : InStream(stream, place, ins, blocks, where, stale, bend)
  <1>0. /\ IsSequence(stream) /\ place \in Nat /\ stale \in 0 .. 3
        /\ GoodInstruction(ins, blocks) /\ Encodable(ins)
        /\ Has(stream, place, Linker!Addressed(EncodeInstruction(ins, stale), where))
    BY DEF Carried
  <1> DEFINE enc    == EncodeInstruction(ins, stale)
             head   == Lead(ins, stale)
             fields == Fields(ins)
             a      == Linker!Addressed(enc, where)
  <1>1. PICK bend : Laid(enc, head, fields, bend, blocks)
    BY <1>0, EncodingLaid
  <1> HIDE DEF enc, head, fields
  <1>2. /\ IsSequence(a)
        /\ Len(a) = Len(head) + bend[Len(fields)]
        /\ \A x \in 1 .. Len(head) : a[x] = head[x]
        /\ \A k \in 1 .. Len(fields) : \A y \in 1 .. Len(fields[k].bytes) :
              a[Len(head) + (bend[k - 1] + y)] = Filled(fields[k], where)[y]
    BY <1>1, AddressedFields
  <1>3. /\ IsSequence(head) /\ IsSequence(fields)
        /\ Ends(BytesOf(fields), bend)
        /\ \A k \in 1 .. Len(fields) : GoodField(fields[k], blocks)
        /\ Len(enc.bytes) = Len(head) + bend[Len(fields)]
    BY <1>1 DEF Laid
  <1>4. Has(stream, place, a)
    BY <1>0 DEF enc
  <1> HIDE DEF a
  <1>5. PICK h \in Nat, m \in Nat, s \in Nat : h = Len(head) /\ m = Len(fields) /\ s = Len(stream)
    BY <1>0, <1>3 DEF IsSequence
  <1> DEFINE raw == BytesOf(fields)
  <1>6. /\ IsSequences(raw) /\ Len(raw) = m
        /\ \A k \in 1 .. m : raw[k] = fields[k].bytes
    BY <1>3, <1>5, BytesOfFields
  <1>7. Ends(raw, bend)
    BY <1>3
  <1> HIDE DEF raw
  <1>8. /\ \A k \in 0 .. m : bend[k] \in Nat
        /\ \A k \in 1 .. m : Len(fields[k].bytes) \in Nat /\ bend[k] = bend[k - 1] + Len(fields[k].bytes)
    <2>1. /\ \A k \in 0 .. m : bend[k] \in Nat
          /\ \A k \in 1 .. m : Len(raw[k]) \in Nat /\ bend[k] = bend[k - 1] + Len(raw[k])
      BY <1>6, <1>7, EndsTyped
    <2>2. \A k \in 1 .. m : Len(raw[k]) = Len(fields[k].bytes)
      BY <1>6
    <2> QED BY <2>1, <2>2
  <1>9. Len(a) = h + bend[m] /\ m \in 0 .. m
    BY <1>2, <1>5
  <1>10. PICK e \in Nat : e = bend[m]
    BY <1>8, <1>9
  <1>11. place + (h + e) <= s /\ \A x \in 1 .. h + e : stream[place + x] = a[x]
    BY <1>4, <1>5, <1>9, <1>10 DEF Has
  <1>12. ASSUME NEW x \in 1 .. h
         PROVE  stream[place + x] = head[x]
    <2>1. x \in 1 .. h + e
      BY <1>10
    <2> QED BY <1>2, <1>5, <1>11, <2>1
  <1>13. ASSUME NEW k \in 1 .. m
         PROVE  Has(stream, place + h + bend[k - 1], Filled(fields[k], where))
    <2> DEFINE w == Filled(fields[k], where)
    <2>1. IsSequence(w) /\ Len(w) = Len(fields[k].bytes)
      <3> DEFINE f == fields[k]
      <3>1. GoodField(f, blocks)
        BY <1>3, <1>5
      <3> HIDE DEF f
      <3>2. IsSequence(Filled(f, where)) /\ Len(Filled(f, where)) = Len(f.bytes)
        BY <3>1, FilledSequence
      <3> QED BY <3>2 DEF f
    <2> HIDE DEF w
    <2>2. k - 1 \in 0 .. m /\ k \in 0 .. m /\ m \in 0 .. m /\ k <= m
      OBVIOUS
    <2>3. PICK b \in Nat, c \in Nat, l \in Nat : b = bend[k - 1] /\ c = bend[k] /\ l = Len(w)
      BY <1>8, <2>1, <2>2
    <2>4. c = b + l
      BY <1>8, <2>1, <2>3
    <2>5. c <= e
      <3>1. k \in 0 .. Len(raw) /\ m \in 0 .. Len(raw)
        BY <1>6, <2>2
      <3> QED BY <1>6, <1>7, <1>10, <2>2, <2>3, <3>1, EndsGrow
    <2>6. place + h + b \in Nat /\ place + h + b + l <= s
      BY <1>0, <1>11, <2>4, <2>5
    <2>7. ASSUME NEW y \in 1 .. l
          PROVE  stream[place + h + b + y] = w[y]
      <3>1. h + (b + y) \in 1 .. h + e /\ place + h + b + y = place + (h + (b + y))
        BY <1>0, <2>4, <2>5
      <3>2. stream[place + (h + (b + y))] = a[h + (b + y)]
        <4> DEFINE x == h + (b + y)
        <4>1. x \in 1 .. h + e
          BY <3>1
        <4> HIDE DEF x
        <4>2. stream[place + x] = a[x]
          BY <1>11, <4>1
        <4> QED BY <4>2 DEF x
      <3>3. a[h + (b + y)] = w[y]
        <4>1. y \in 1 .. Len(fields[k].bytes)
          BY <2>1, <2>3
        <4>2. a[Len(head) + (bend[k - 1] + y)] = Filled(fields[k], where)[y]
          BY <1>2, <1>5, <4>1
        <4> QED BY <1>5, <2>3, <4>2 DEF w
      <3> QED BY <3>1, <3>2, <3>3
    <2>8. Has(stream, place + h + b, w)
      <3> DEFINE q == place + h + b
      <3>1. q \in Nat /\ q + l <= s /\ \A y \in 1 .. l : stream[q + y] = w[y]
        BY <2>6, <2>7
      <3> HIDE DEF q
      <3>2. Has(stream, q, w)
        BY <1>5, <2>3, <3>1 DEF Has
      <3> QED BY <3>2 DEF q
    <2> QED BY <2>3, <2>8 DEF w
  <1>14. InStream(stream, place, ins, blocks, where, stale, bend)
    <2>1. \A x \in 1 .. Len(head) : stream[place + x] = head[x]
      BY <1>5, <1>12
    <2>2. \A k \in 0 .. Len(fields) : bend[k] \in Nat
      BY <1>5, <1>8
    <2>3. \A k \in 1 .. Len(fields) :
             /\ bend[k] = bend[k - 1] + Len(fields[k].bytes)
             /\ Has(stream, place + Len(head) + bend[k - 1], Filled(fields[k], where))
      BY <1>5, <1>8, <1>13
    <2>4. place + (Len(head) + bend[Len(fields)]) <= Len(stream)
      BY <1>5, <1>10, <1>11
    <2> QED BY <1>3, <2>1, <2>2, <2>3, <2>4 DEF InStream, enc, head, fields
  <1> QED BY <1>14

\* The infos behind the opcode: where each one starts, and that it can be read.
InfosInStream(stream, place, ins, stale, iend) ==
    /\ iend[0] = 0
    /\ \A i \in 0 .. Len(ins.operands) : iend[i] \in Nat
    /\ \A i \in 1 .. Len(ins.operands) :
          /\ InfoMatches(InfoAt(stream, place + 1 + iend[i - 1]), ins.operands[i], StaleFor(ins, stale))
          /\ InfoAt(stream, place + 1 + iend[i - 1]).reserved = 0
          /\ iend[i] = iend[i - 1] + InfoAt(stream, place + 1 + iend[i - 1]).length
          /\ iend[i - 1] + 1 <= iend[i]
    /\ Len(Lead(ins, stale)) = 1 + iend[Len(ins.operands)]

LEMMA CarriedInfos ==
    ASSUME NEW stream, NEW place, NEW ins, NEW blocks, NEW where, NEW stale, NEW bend,
           Carried(stream, place, ins, blocks, where, stale),
           InStream(stream, place, ins, blocks, where, stale, bend)
    PROVE  \E iend : InfosInStream(stream, place, ins, stale, iend)
  <1>0. /\ IsSequence(stream) /\ place \in Nat /\ stale \in 0 .. 3
        /\ GoodInstruction(ins, blocks) /\ Encodable(ins)
    BY DEF Carried
  <1> DEFINE ops  == ins.operands
             st   == StaleFor(ins, stale)
             head == Lead(ins, stale)
             q    == Infos(ops, stale)
             p    == InfosOf(ops, stale)
  <1>1. PICK n \in Nat : n = Len(ops)
    BY <1>0 DEF GoodInstruction, IsSequence
  <1>2. /\ IsSequences(p) /\ Len(p) = n /\ IsSequence(q) /\ IsSequence(head)
        /\ Len(head) = 1 + Len(q)
        /\ \A i \in 1 .. Len(q) : head[1 + i] = q[i]
    BY <1>0, <1>1, LeadSequence
  <1>3. q = FlattenSeq(p) /\ \A i \in 1 .. n : p[i] = OperandInfo(ops[i], st)
    BY <1>1 DEF Infos, InfosOf, StaleFor
  <1>4. \A i \in 1 .. n : Encoded(ops[i], blocks)
    BY <1>0, <1>1 DEF GoodInstruction, Encodable, Encoded
  <1>5. st \in 0 .. 3
    BY <1>0 DEF StaleFor
  <1>6. /\ \A x \in 1 .. Len(head) : stream[place + x] = head[x]
        /\ place + (Len(head) + bend[Len(Fields(ins))]) <= Len(stream)
        /\ bend[Len(Fields(ins))] \in Nat
    <2>1. Len(Fields(ins)) \in Nat
      BY <1>0, PartsGood DEF IsSequence
    <2>2. Len(Fields(ins)) \in 0 .. Len(Fields(ins))
      BY <2>1
    <2> QED BY <2>2 DEF InStream
  <1> HIDE DEF ops, st, head, q, p
  <1>7. PICK iend : Ends(p, iend)
    BY <1>2, EndsExist
  <1>8. /\ \A i \in 0 .. n : iend[i] \in Nat
        /\ iend[0] = 0
        /\ \A i \in 1 .. n : Len(p[i]) \in Nat /\ iend[i] = iend[i - 1] + Len(p[i])
    BY <1>2, <1>7, EndsTyped
  <1>9. /\ Len(FlattenSeq(p)) = iend[Len(p)]
        /\ \A k \in 1 .. Len(p) : \A j \in 1 .. Len(p[k]) :
              FlattenSeq(p)[iend[k - 1] + j] = p[k][j]
    BY <1>2, <1>7, FlattenPlaces
  <1>10. n \in 0 .. n
    OBVIOUS
  <1>11. PICK e \in Nat : e = iend[n]
    BY <1>8, <1>10
  <1>12. Len(q) = e /\ Len(head) = 1 + e
    BY <1>2, <1>3, <1>9, <1>11
  <1>13. PICK s \in Nat : s = Len(stream)
    BY <1>0 DEF IsSequence
  <1>14. place + (1 + e) <= s
    <2>1. PICK b \in Nat : b = bend[Len(Fields(ins))]
      BY <1>6
    <2>2. place + ((1 + e) + b) <= s
      BY <1>6, <1>12, <1>13, <2>1
    <2> QED BY <1>0, <2>2
  <1>15. ASSUME NEW i \in 1 .. n
         PROVE  /\ InfoMatches(InfoAt(stream, place + 1 + iend[i - 1]), ops[i], st)
                /\ InfoAt(stream, place + 1 + iend[i - 1]).reserved = 0
                /\ iend[i] = iend[i - 1] + InfoAt(stream, place + 1 + iend[i - 1]).length
                /\ iend[i - 1] + 1 <= iend[i]
    <2> DEFINE op == ops[i]
               w  == OperandInfo(op, st)
    <2>1. i - 1 \in 0 .. n /\ i \in 0 .. n /\ i <= n
      OBVIOUS
    <2>2. Encoded(op, blocks) /\ w = p[i]
      BY <1>3, <1>4
    <2>3. IsSequence(w) /\ Len(w) \in 1 .. 2
      <3> HIDE DEF op
      <3> QED BY InfoSequence
    <2> HIDE DEF w
    <2>4. PICK b \in Nat, c \in Nat, l \in 1 .. 2 : b = iend[i - 1] /\ c = iend[i] /\ l = Len(w)
      BY <1>8, <2>1, <2>3
    <2>5. c = b + l
      <3>1. iend[i] = iend[i - 1] + Len(p[i])
        BY <1>8
      <3> QED BY <2>2, <2>4, <3>1
    <2>6. c <= e
      <3>1. i \in 0 .. Len(p) /\ n \in 0 .. Len(p)
        BY <1>2, <1>10, <2>1
      <3> QED BY <1>2, <1>7, <1>11, <2>1, <2>4, <3>1, EndsGrow
    <2> DEFINE r == place + 1 + b
    <2>7. r \in Nat /\ r + l <= s
      BY SMTT(60), <1>0, <1>14, <2>4, <2>5, <2>6
    <2>8. ASSUME NEW y \in 1 .. l
          PROVE  stream[r + y] = w[y]
      <3> DEFINE x == b + y
      <3>1. x \in 1 .. e /\ r + y = place + (1 + x) /\ 1 + x \in 1 .. 1 + e
        BY <1>0, <2>5, <2>6
      <3>2. y \in 1 .. Len(p[i]) /\ i \in 1 .. Len(p)
        BY <1>2, <2>2, <2>4
      <3>3. q[x] = w[y]
        BY <1>3, <1>9, <2>2, <2>4, <3>2
      <3> HIDE DEF x, r
      <3>4. head[1 + x] = q[x]
        BY <1>2, <1>12, <3>1
      <3>5. stream[place + (1 + x)] = head[1 + x]
        <4> DEFINE z == 1 + x
        <4>1. z \in 1 .. Len(head)
          BY <1>12, <3>1
        <4> HIDE DEF z
        <4>2. stream[place + z] = head[z]
          BY <1>6, <4>1
        <4> QED BY <4>2 DEF z
      <3> QED BY <3>1, <3>3, <3>4, <3>5
    <2> HIDE DEF r, op
    <2>9. Has(stream, r, w)
      BY <1>13, <2>4, <2>7, <2>8 DEF Has
    <2>10. /\ InfoMatches(InfoAt(stream, r), op, st)
           /\ InfoAt(stream, r).reserved = 0
           /\ InfoAt(stream, r).length = l
      <3>1. Has(stream, r, OperandInfo(op, st))
        BY <2>9 DEF w
      <3>2. l = Len(OperandInfo(op, st))
        BY <2>4 DEF w
      <3> QED BY <1>5, <2>2, <2>7, <3>1, <3>2, InfoReads
    <2>11. r = place + 1 + iend[i - 1]
      BY <2>4 DEF r
    <2>12. c = b + InfoAt(stream, r).length /\ b + 1 <= c
      BY <2>4, <2>5, <2>10
    <2> QED BY <2>4, <2>10, <2>11, <2>12 DEF op
  <1>16. InfosInStream(stream, place, ins, stale, iend)
    <2>1. Len(head) = 1 + iend[Len(ops)]
      BY <1>1, <1>11, <1>12
    <2>2. \A i \in 1 .. Len(ops) :
            /\ InfoMatches(InfoAt(stream, place + 1 + iend[i - 1]), ops[i], st)
            /\ InfoAt(stream, place + 1 + iend[i - 1]).reserved = 0
            /\ iend[i] = iend[i - 1] + InfoAt(stream, place + 1 + iend[i - 1]).length
            /\ iend[i - 1] + 1 <= iend[i]
      BY <1>1, <1>15
    <2>3. iend[0] = 0 /\ \A i \in 0 .. Len(ops) : iend[i] \in Nat
      BY <1>1, <1>8
    <2> QED BY <2>1, <2>2, <2>3 DEF InfosInStream, ops, st, head
  <1> QED BY <1>16

\* An operand decodes where its fields stand.
LEMMA CarriedOperand ==
    ASSUME NEW stream, NEW place, NEW ins, NEW blocks, NEW where, NEW stale, NEW bend, NEW oend,
           Carried(stream, place, ins, blocks, where, stale),
           InStream(stream, place, ins, blocks, where, stale, bend),
           Ends(Parts(ins), oend),
           NEW i \in 1 .. Len(ins.operands), NEW info,
           InfoMatches(info, ins.operands[i], StaleFor(ins, stale))
    PROVE  LET base == place + Len(Lead(ins, stale))
               p    == base + bend[oend[i - 1]]
               op   == ins.operands[i]
           IN  /\ p \in Nat
               /\ OperandAt(stream, p, info) = ResolvedBy(op, where)
               /\ p + OperandLength(info) = base + bend[oend[i]]
               /\ OperandLength(info) \in Nat \ {0}
               /\ \A r \in OperandRegisters(OperandAt(stream, p, info)) : ValidRegister(r)
               /\ info.type \in 0 .. 13
  <1>0. /\ IsSequence(stream) /\ place \in Nat /\ stale \in 0 .. 3
        /\ GoodInstruction(ins, blocks) /\ Encodable(ins)
        /\ \A j \in 1 .. Len(ins.operands) : ~Dangling(ins.operands[j])
    BY DEF Carried
  <1> DEFINE op     == ins.operands[i]
             part   == OperandFields(op)
             base   == place + Len(Lead(ins, stale))
             fields == Fields(ins)
             p      == base + bend[oend[i - 1]]
             st     == StaleFor(ins, stale)
  <1>1. /\ IsSequences(Parts(ins)) /\ Len(Parts(ins)) = Len(ins.operands)
        /\ Parts(ins)[i] = part
        /\ IsSequence(fields)
    BY <1>0, PartsGood
  <1>2. base \in Nat
    <2>1. Len(Lead(ins, stale)) \in Nat
      BY <1>0, LeadSequence DEF IsSequence
    <2> QED BY <1>0, <2>1
  <1>3. /\ GoodOperand(op, blocks) /\ CompactType(op) # -1 /\ RegistersKnown(op) /\ ~Dangling(op)
    BY <1>0 DEF GoodInstruction, Encodable, RegistersKnown
  <1>4. Encoded(op, blocks)
    BY <1>3 DEF Encoded
  <1>5. /\ \A k \in 0 .. Len(fields) : bend[k] \in Nat
        /\ \A k \in 1 .. Len(fields) :
              /\ bend[k] = bend[k - 1] + Len(fields[k].bytes)
              /\ Has(stream, base + bend[k - 1], Filled(fields[k], where))
    BY DEF InStream
  <1> HIDE DEF op, base
  <1>6. IsSequence(part) /\ Len(part) \in 1 .. 3
    BY <1>4, FieldsGood
  <1>7. PICK n \in Nat : n = Len(ins.operands)
    BY <1>0 DEF GoodInstruction, IsSequence
  <1> DEFINE parts == Parts(ins)
  <1>8. IsSequences(parts) /\ Ends(parts, oend) /\ Len(parts) = n /\ i \in 1 .. n
    BY <1>1, <1>7
  <1>9. /\ Len(fields) = oend[n]
        /\ \A k \in 1 .. n : \A j \in 1 .. Len(parts[k]) : fields[oend[k - 1] + j] = parts[k][j]
    <2>1. fields = FlattenSeq(parts)
      BY DEF Fields
    <2> HIDE DEF fields, parts
    <2>2. /\ Len(FlattenSeq(parts)) = oend[Len(parts)]
          /\ \A k \in 1 .. Len(parts) : \A j \in 1 .. Len(parts[k]) :
                FlattenSeq(parts)[oend[k - 1] + j] = parts[k][j]
      BY <1>8, FlattenPlaces
    <2> QED BY <1>8, <2>1, <2>2
  <1>10. parts[i] = part
    BY <1>1
  <1> HIDE DEF fields, parts, part
  <1>11. /\ \A k \in 0 .. n : oend[k] \in Nat
         /\ \A k \in 1 .. n : Len(parts[k]) \in Nat /\ oend[k] = oend[k - 1] + Len(parts[k])
    BY <1>8, EndsTyped
  <1>12. i - 1 \in 0 .. n /\ i \in 0 .. n /\ n \in 0 .. n /\ i <= n
    BY <1>8
  <1>13. PICK b \in Nat, d \in Nat, e \in Nat : b = oend[i - 1] /\ d = oend[i] /\ e = oend[n]
    BY <1>11, <1>12
  <1>14. PICK c \in 1 .. 3 : c = Len(part)
    BY <1>6
  <1>15. d = b + c
    <2>1. oend[i] = oend[i - 1] + Len(parts[i])
      BY <1>8, <1>11
    <2> QED BY <1>10, <1>13, <1>14, <2>1
  <1>16. d <= e
    <2>1. i \in 0 .. Len(parts) /\ n \in 0 .. Len(parts)
      BY <1>8, <1>12
    <2> QED BY <1>8, <1>12, <1>13, <2>1, EndsGrow
  <1> DEFINE place0 == [m \in 0 .. c |-> base + bend[b + m]]
  <1>17. /\ place0[0] = base + bend[b]
         /\ place0[c] = base + bend[d]
    <2>1. 0 \in 0 .. c /\ c \in 0 .. c /\ b + 0 = b
      BY <1>13, <1>14
    <2> QED BY <1>15, <2>1
  <1>18. ASSUME NEW m \in 1 .. Len(part)
         PROVE  /\ Has(stream, place0[m - 1], Filled(part[m], where))
                /\ place0[m] = place0[m - 1] + Len(part[m].bytes)
    <2>1. m \in 1 .. c
      BY <1>14
    <2> DEFINE k == b + m
    <2>2. k \in 1 .. e /\ k - 1 = b + (m - 1) /\ m - 1 \in 0 .. c /\ m \in 0 .. c /\ k \in 0 .. e /\ k - 1 \in 0 .. e
      BY <1>15, <1>16, <2>1
    <2>3. place0[m - 1] = base + bend[k - 1] /\ place0[m] = base + bend[k]
      BY <2>2
    <2>4. fields[k] = part[m]
      <3>1. m \in 1 .. Len(parts[i])
        BY <1>10
      <3> QED BY <1>8, <1>9, <1>10, <1>13, <3>1
    <2> HIDE DEF k, place0
    <2>5. /\ bend[k] = bend[k - 1] + Len(fields[k].bytes)
          /\ Has(stream, base + bend[k - 1], Filled(fields[k], where))
      BY <1>5, <1>9, <1>13, <2>2
    <2>6. bend[k - 1] \in Nat /\ bend[k] \in Nat
      BY <1>5, <1>9, <1>13, <2>2
    <2>7. Len(part[m].bytes) \in Nat
      <3>1. GoodField(part[m], blocks)
        BY <1>4, FieldsGood DEF part
      <3> QED BY <3>1 DEF GoodField
    <2>8. PICK x \in Nat, y \in Nat, z \in Nat : x = bend[k - 1] /\ y = bend[k] /\ z = Len(part[m].bytes)
      BY <2>6, <2>7
    <2>9. y = x + z
      BY <2>4, <2>5, <2>8
    <2>10. base + y = (base + x) + z
      BY <1>2, <2>9
    <2> QED BY <2>3, <2>4, <2>5, <2>8, <2>10
  <1> HIDE DEF place0
  <1>19. FieldsAt(stream, place0, part, where)
    BY <1>18 DEF FieldsAt
  <1>20. p = base + bend[b] /\ p \in Nat
    <2>1. b \in 0 .. Len(fields)
      BY <1>9, <1>13, <1>15, <1>16
    <2>2. bend[b] \in Nat
      BY <1>5, <2>1
    <2> QED BY SMTT(60), <1>2, <1>13, <2>2
  <1> HIDE DEF p
  <1>21. Reading(stream, place0, p, op, blocks, where, info, st)
    BY <1>0, <1>3, <1>17, <1>19, <1>20 DEF Reading, op, part
  <1> HIDE DEF st
  <1>22. /\ OperandAt(stream, p, info) = ResolvedBy(op, where)
         /\ p + OperandLength(info) = place0[Len(OperandFields(op))]
         /\ OperandLength(info) \in Nat \ {0}
         /\ \A r \in OperandRegisters(OperandAt(stream, p, info)) : ValidRegister(r)
         /\ info.type \in 0 .. 13
    BY <1>21, OperandReadsBack
  <1>23. place0[Len(OperandFields(op))] = base + bend[oend[i]]
    BY <1>13, <1>14, <1>17 DEF part
  <1> QED BY <1>20, <1>22, <1>23 DEF p, base, op

LEMMA ArgCount == ASSUME NEW opcode PROVE GetArgCountForOpcode(opcode) \in 0 .. 3
  BY DEF GetArgCountForOpcode

\* The decoder finds the infos where they were written.
LEMMA InfosFound ==
    ASSUME NEW stream, NEW place \in Nat, NEW ins, NEW stale, NEW iend, NEW info,
           InfosInStream(stream, place, ins, stale, iend),
           Len(ins.operands) \in 0 .. 3,
           InfosAt(stream, place, info)
    PROVE  LET n == Len(ins.operands)
           IN  /\ \A i \in 1 .. n : info[i] = InfoAt(stream, place + 1 + iend[i - 1])
               /\ place + 1 + (IF n > 0 THEN info[1].length ELSE 0)
                            + (IF n > 1 THEN info[2].length ELSE 0)
                            + (IF n > 2 THEN info[3].length ELSE 0) = place + 1 + iend[n]
  <1> DEFINE n == Len(ins.operands)
  <1>1. /\ iend[0] = 0
        /\ \A i \in 0 .. n : iend[i] \in Nat
        /\ \A i \in 1 .. n : iend[i] = iend[i - 1] + InfoAt(stream, place + 1 + iend[i - 1]).length
    BY DEF InfosInStream
  <1>2. n \in 0 .. 3
    OBVIOUS
  <1> HIDE DEF n
  <1>3. /\ info[1] = InfoAt(stream, place + 1)
        /\ info[2] = InfoAt(stream, place + 1 + info[1].length)
        /\ info[3] = InfoAt(stream, place + 1 + info[1].length + info[2].length)
    BY DEF InfosAt
  <1>4. info[1].length \in Nat /\ info[2].length \in Nat /\ info[3].length \in Nat
    BY <1>3, InfoLength
  <1>5. n > 0 => info[1] = InfoAt(stream, place + 1 + iend[1 - 1]) /\ iend[1] = info[1].length
    <2> SUFFICES ASSUME n > 0
                 PROVE  info[1] = InfoAt(stream, place + 1 + iend[1 - 1]) /\ iend[1] = info[1].length
      OBVIOUS
    <2>1. 1 \in 1 .. n
      BY <1>2
    <2>2. place + 1 + iend[1 - 1] = place + 1 /\ iend[1 - 1] = 0
      BY <1>1
    <2>3. iend[1] = iend[1 - 1] + InfoAt(stream, place + 1 + iend[1 - 1]).length
      BY <1>1, <2>1
    <2>4. iend[1] = 0 + info[1].length
      BY <1>3, <2>2, <2>3
    <2> QED BY <1>3, <1>4, <2>2, <2>4
  <1>6. n > 1 => info[2] = InfoAt(stream, place + 1 + iend[2 - 1]) /\ iend[2] = info[1].length + info[2].length
    <2> SUFFICES ASSUME n > 1
                 PROVE  info[2] = InfoAt(stream, place + 1 + iend[2 - 1])
                        /\ iend[2] = info[1].length + info[2].length
      OBVIOUS
    <2>1. 2 \in 1 .. n /\ n > 0
      BY <1>2
    <2>2. iend[2 - 1] = info[1].length
      BY <1>5, <2>1
    <2>3. iend[2] = iend[2 - 1] + InfoAt(stream, place + 1 + iend[2 - 1]).length
      BY <1>1, <2>1
    <2> QED BY <1>3, <2>2, <2>3
  <1>7. n > 2 => info[3] = InfoAt(stream, place + 1 + iend[3 - 1])
                 /\ iend[3] = info[1].length + info[2].length + info[3].length
    <2> SUFFICES ASSUME n > 2
                 PROVE  info[3] = InfoAt(stream, place + 1 + iend[3 - 1])
                        /\ iend[3] = info[1].length + info[2].length + info[3].length
      OBVIOUS
    <2>1. 3 \in 1 .. n /\ n > 1
      BY <1>2
    <2>2. iend[3 - 1] = info[1].length + info[2].length
      BY <1>6, <2>1
    <2>3. iend[3] = iend[3 - 1] + InfoAt(stream, place + 1 + iend[3 - 1]).length
      BY <1>1, <2>1
    <2>4. place + 1 + iend[3 - 1] = place + 1 + info[1].length + info[2].length
      BY <1>4, <2>2
    <2> QED BY <1>3, <2>2, <2>3, <2>4
  <1>8. n = 0 \/ n = 1 \/ n = 2 \/ n = 3
    BY <1>2
  <1>9. \A i \in 1 .. n : info[i] = InfoAt(stream, place + 1 + iend[i - 1])
    <2> TAKE i \in 1 .. n
    <2>1. (i = 1 /\ n > 0) \/ (i = 2 /\ n > 1) \/ (i = 3 /\ n > 2)
      BY <1>2
    <2>2. CASE i = 1 /\ n > 0
      BY <1>5, <2>2
    <2>3. CASE i = 2 /\ n > 1
      BY <1>6, <2>3
    <2>4. CASE i = 3 /\ n > 2
      BY <1>7, <2>4
    <2> QED BY <2>1, <2>2, <2>3, <2>4
  <1>10. place + 1 + (IF n > 0 THEN info[1].length ELSE 0)
                   + (IF n > 1 THEN info[2].length ELSE 0)
                   + (IF n > 2 THEN info[3].length ELSE 0) = place + 1 + iend[n]
    <2>1. CASE n = 0
      BY <1>1, <2>1
    <2>2. CASE n = 1
      BY <1>4, <1>5, <2>2
    <2>3. CASE n = 2
      BY <1>4, <1>6, <2>3
    <2>4. CASE n = 3
      BY <1>4, <1>7, <2>4
    <2> QED BY <1>8, <2>1, <2>2, <2>3, <2>4
  <1> QED BY <1>9, <1>10 DEF n

LEMMA NotCombined ==
    ASSUME NEW count \in 0 .. 3, NEW info, \A i \in 1 .. count : info[i].reserved = 0
    PROVE  ~Combined(count, info)
  <1>1. 0 \div 4 = 0 /\ 0 \div 2 = 0 /\ 0 % 2 = 0 /\ 0 \notin Extended
    BY DEF Extended
  <1>2. count > 1 => info[1].reserved = 0 /\ info[2].reserved = 0
    OBVIOUS
  <1> QED BY <1>1, <1>2 DEF Combined

\* Whatever instruction EncodeInstruction accepts, DecodeInstruction makes of its bytes
\* the same opcode and operands, with addresses for the blocks they name, and goes
\* on behind the last of them: for every form and number of operands, at every place
\* of every stream, whatever stands around it.
THEOREM DecodesBack ==
    ASSUME NEW stream, NEW place, NEW ins, NEW blocks, NEW where, NEW stale,
           Carried(stream, place, ins, blocks, where, stale)
    PROVE  LET d == DecodeInstruction(stream, place)
           IN  /\ d.ok
               /\ d.next = place + Len(EncodeInstruction(ins, stale).bytes)
               /\ d.next > place /\ d.next <= Len(stream)
               /\ d.ins = [opcode   |-> ins.opcode,
                           operands |-> [i \in 1 .. Len(ins.operands) |-> ResolvedBy(ins.operands[i], where)]]
  <1>0. /\ IsSequence(stream) /\ place \in Nat /\ stale \in 0 .. 3
        /\ GoodInstruction(ins, blocks) /\ Encodable(ins)
    BY DEF Carried
  <1>1. PICK bend : InStream(stream, place, ins, blocks, where, stale, bend)
    BY CarriedParts
  <1>2. PICK iend : InfosInStream(stream, place, ins, stale, iend)
    BY <1>1, CarriedInfos
  <1>3. IsSequences(Parts(ins)) /\ Len(Parts(ins)) = Len(ins.operands) /\ IsSequence(Fields(ins))
    BY <1>0, PartsGood
  <1>4. PICK oend : Ends(Parts(ins), oend)
    BY <1>3, EndsExist
  <1> DEFINE n    == Len(ins.operands)
             st   == StaleFor(ins, stale)
             base == place + Len(Lead(ins, stale))
             P(i) == base + bend[oend[i - 1]]
  <1>5. GetArgCountForOpcode(ins.opcode) = n /\ n \in 0 .. 3
    BY <1>0, ArgCount DEF Encodable
  <1>6. stream[place + 1] = ins.opcode
    <2>1. /\ Lead(ins, stale)[1] = ins.opcode
          /\ Len(Lead(ins, stale)) = 1 + Len(Infos(ins.operands, stale))
          /\ IsSequence(Infos(ins.operands, stale))
      BY <1>0, LeadSequence
    <2>2. 1 \in 1 .. Len(Lead(ins, stale))
      BY <2>1 DEF IsSequence
    <2>3. stream[place + 1] = Lead(ins, stale)[1]
      BY <1>1, <2>2 DEF InStream
    <2> QED BY <2>1, <2>3
  <1>7. PICK info, start :
           /\ InfosAt(stream, place, info)
           /\ StartsAt(place, n, info, start)
           /\ LET operands == [i \in 1 .. n |-> OperandAt(stream, start[i], info[i])]
              IN  DecodeInstruction(stream, place) =
                    IF /\ place + 1 + 2 * n <= Len(stream)
                       /\ start[n + 1] <= Len(stream)
                       /\ ~Combined(n, info)
                       /\ \A i \in 1 .. n :
                             /\ info[i].type \notin {14, 15}
                             /\ \A r \in OperandRegisters(operands[i]) : ValidRegister(r)
                    THEN [ok |-> TRUE, next |-> start[n + 1],
                          ins |-> [opcode |-> stream[place + 1], operands |-> operands]]
                    ELSE NotDecoded
    <2> DEFINE count == GetArgCountForOpcode(stream[place + 1])
    <2>1. count = n
      BY <1>5, <1>6
    <2> HIDE DEF count, n
    <2>2. \E info, start :
             /\ InfosAt(stream, place, info)
             /\ StartsAt(place, count, info, start)
             /\ LET operands == [i \in 1 .. count |-> OperandAt(stream, start[i], info[i])]
                IN  DecodeInstruction(stream, place) =
                      IF /\ place + 1 + 2 * count <= Len(stream)
                         /\ start[count + 1] <= Len(stream)
                         /\ ~Combined(count, info)
                         /\ \A i \in 1 .. count :
                               /\ info[i].type \notin {14, 15}
                               /\ \A r \in OperandRegisters(operands[i]) : ValidRegister(r)
                      THEN [ok |-> TRUE, next |-> start[count + 1],
                            ins |-> [opcode |-> stream[place + 1], operands |-> operands]]
                      ELSE NotDecoded
      BY <1>0, Zenon, DecodeShape DEF count
    <2> QED BY <2>1, <2>2, Zenon
  <1>8. /\ \A i \in 1 .. n : info[i] = InfoAt(stream, place + 1 + iend[i - 1])
        /\ place + 1 + (IF n > 0 THEN info[1].length ELSE 0)
                     + (IF n > 1 THEN info[2].length ELSE 0)
                     + (IF n > 2 THEN info[3].length ELSE 0) = place + 1 + iend[n]
    <2>1. InfosAt(stream, place, info)
      BY <1>7
    <2>2. place \in Nat /\ Len(ins.operands) \in 0 .. 3
      BY <1>0, <1>5
    <2> QED BY <1>2, <2>1, <2>2, InfosFound
  <1>9. /\ iend[0] = 0
        /\ \A i \in 0 .. n : iend[i] \in Nat
        /\ \A i \in 1 .. n : /\ InfoMatches(InfoAt(stream, place + 1 + iend[i - 1]), ins.operands[i], st)
                             /\ InfoAt(stream, place + 1 + iend[i - 1]).reserved = 0
                             /\ iend[i - 1] + 1 <= iend[i]
        /\ Len(Lead(ins, stale)) = 1 + iend[n]
    BY <1>2 DEF InfosInStream
  <1>10. \A i \in 1 .. n : InfoMatches(info[i], ins.operands[i], st) /\ info[i].reserved = 0
    BY <1>8, <1>9
  <1>11. PICK e \in Nat : e = iend[n]
    BY <1>5, <1>9
  <1>12. base = place + 1 + e /\ base \in Nat
    <2>1. Len(Lead(ins, stale)) = 1 + e
      BY <1>9, <1>11
    <2> QED BY <1>0, <2>1
  <1>13. start[1] = base /\ \A i \in 1 .. 3 : start[i + 1] = start[i] + OperandLength(info[i])
    <2>1. start[1] = place + 1 + (IF n > 0 THEN info[1].length ELSE 0)
                               + (IF n > 1 THEN info[2].length ELSE 0)
                               + (IF n > 2 THEN info[3].length ELSE 0)
          /\ \A i \in 1 .. 3 : start[i + 1] = start[i] + OperandLength(info[i])
      BY <1>7 DEF StartsAt
    <2>2. start[1] = place + 1 + iend[n]
      BY <1>8, <2>1
    <2> QED BY <1>11, <1>12, <2>1, <2>2
  <1>14. ASSUME NEW i \in 1 .. n
         PROVE  /\ P(i) \in Nat
                /\ OperandAt(stream, P(i), info[i]) = ResolvedBy(ins.operands[i], where)
                /\ P(i) + OperandLength(info[i]) = base + bend[oend[i]]
                /\ OperandLength(info[i]) \in Nat \ {0}
                /\ \A r \in OperandRegisters(OperandAt(stream, P(i), info[i])) : ValidRegister(r)
                /\ info[i].type \in 0 .. 13
    <2> DEFINE f == info[i]
    <2>1. InfoMatches(f, ins.operands[i], StaleFor(ins, stale))
      BY <1>10
    <2> HIDE DEF f
    <2>2. /\ P(i) \in Nat
          /\ OperandAt(stream, P(i), f) = ResolvedBy(ins.operands[i], where)
          /\ P(i) + OperandLength(f) = base + bend[oend[i]]
          /\ OperandLength(f) \in Nat \ {0}
          /\ \A r \in OperandRegisters(OperandAt(stream, P(i), f)) : ValidRegister(r)
          /\ f.type \in 0 .. 13
      BY <1>1, <1>4, <2>1, CarriedOperand
    <2> QED BY <2>2 DEF f
  <1>15. oend[0] = 0 /\ bend[0] = 0 /\ oend[n] = Len(Fields(ins))
    <2>1. oend[0] = 0
      BY <1>4 DEF Ends
    <2>2. bend[0] = 0
      BY <1>1 DEF InStream, Ends
    <2>3. Len(Fields(ins)) = oend[Len(Parts(ins))]
      BY <1>3, <1>4, FlattenPlaces DEF Fields
    <2> QED BY <1>3, <2>1, <2>2, <2>3
  <1> HIDE DEF base, n, st
  <1> DEFINE Q(m) == /\ start[m + 1] = base + bend[oend[m]]
                     /\ start[m + 1] \in Nat
                     /\ base + m <= start[m + 1]
                     /\ iend[m] \in Nat /\ m <= iend[m]
             T == {m \in 0 .. n : Q(m)}
  <1>16. 0 \in T
    <2>1. start[0 + 1] = start[1] /\ bend[oend[0]] = 0 /\ base + 0 = base
      BY <1>12, <1>15
    <2>2. Q(0)
      BY <1>9, <1>12, <1>13, <2>1
    <2> QED BY <1>5, <2>2
  <1>17. ASSUME NEW m \in 0 .. (n - 1), m \in T
         PROVE  m + 1 \in T
    <2> DEFINE i == m + 1
    <2>1. i \in 1 .. n /\ i - 1 = m /\ i \in 1 .. 3 /\ m \in Nat
      BY <1>5
    <2> HIDE DEF i
    <2>2. start[i] = base + bend[oend[m]] /\ start[i] \in Nat /\ base + m <= start[i] /\ iend[m] \in Nat /\ m <= iend[m]
      BY <1>17 DEF i
    <2>3. start[i] = P(i)
      BY <2>1, <2>2
    <2>4. start[i + 1] = start[i] + OperandLength(info[i])
      BY <1>13, <2>1
    <2>5. P(i) + OperandLength(info[i]) = base + bend[oend[i]] /\ OperandLength(info[i]) \in Nat \ {0}
      BY <1>14, <2>1
    <2>6. start[i + 1] = base + bend[oend[i]]
      <3> HIDE DEF P
      <3> QED BY <2>3, <2>4, <2>5
    <2>7. PICK a \in Nat, l \in Nat \ {0} : a = start[i] /\ l = OperandLength(info[i])
      BY <2>2, <2>5
    <2>8. start[i + 1] = a + l /\ base + m <= a
      BY <2>2, <2>4, <2>7
    <2>9. start[i + 1] \in Nat /\ base + i <= start[i + 1]
      BY <1>12, <2>1, <2>7, <2>8
    <2>10. iend[i] \in Nat /\ i <= iend[i]
      <3>1. iend[i] \in Nat /\ iend[i - 1] + 1 <= iend[i]
        BY <1>9, <2>1
      <3>2. iend[m] + 1 <= iend[i]
        BY <2>1, <3>1
      <3> QED BY <2>1, <2>2, <3>1, <3>2
    <2>11. i \in T
      BY <2>1, <2>6, <2>9, <2>10
    <2> QED BY <2>11 DEF i
  <1> HIDE DEF T
  <1>18. 0 .. n \subseteq T
    BY <1>5, <1>16, <1>17, Induction
  <1>19. \A m \in 0 .. n : Q(m)
    BY <1>18 DEF T
  <1> HIDE DEF Q
  <1>20. ASSUME NEW i \in 1 .. n
         PROVE  start[i] = P(i)
    <2> DEFINE m == i - 1
    <2>1. m \in 0 .. n /\ m + 1 = i
      BY <1>5
    <2> HIDE DEF m
    <2>2. start[m + 1] = base + bend[oend[m]]
      BY <1>19, <2>1 DEF Q
    <2> QED BY <2>1, <2>2 DEF m
  <1>21. /\ start[n + 1] = base + bend[Len(Fields(ins))] /\ start[n + 1] \in Nat
         /\ base + n <= start[n + 1] /\ n <= e
    <2>1. Q(n)
      BY <1>5, <1>19
    <2> QED BY <1>11, <1>15, <2>1 DEF Q
  <1>22. start[n + 1] <= Len(stream) /\ start[n + 1] = place + Len(EncodeInstruction(ins, stale).bytes)
    <2>1. /\ Len(EncodeInstruction(ins, stale).bytes) = Len(Lead(ins, stale)) + bend[Len(Fields(ins))]
          /\ place + (Len(Lead(ins, stale)) + bend[Len(Fields(ins))]) <= Len(stream)
      BY <1>1 DEF InStream
    <2>2. bend[Len(Fields(ins))] \in Nat /\ Len(Lead(ins, stale)) \in Nat
      <3>1. Len(Fields(ins)) \in 0 .. Len(Fields(ins))
        BY <1>3 DEF IsSequence
      <3>2. Len(Lead(ins, stale)) = 1 + e
        BY <1>9, <1>11
      <3> QED BY <1>1, <3>1, <3>2 DEF InStream
    <2>3. PICK h \in Nat, b \in Nat : h = Len(Lead(ins, stale)) /\ b = bend[Len(Fields(ins))]
      BY <2>2
    <2>4. start[n + 1] = (place + h) + b
      BY <1>21, <2>3 DEF base
    <2>5. (place + h) + b = place + (h + b)
      BY <1>0
    <2> QED BY <2>1, <2>3, <2>4, <2>5
  <1>23. place + 1 + 2 * n <= Len(stream) /\ place < start[n + 1]
    <2>1. PICK z \in Nat, s \in Nat : z = start[n + 1] /\ s = Len(stream)
      BY <1>0, <1>21 DEF IsSequence
    <2>2. (place + 1 + e) + n <= z /\ z <= s /\ n <= e
      BY <1>12, <1>21, <1>22, <2>1
    <2>3. place + 1 + 2 * n <= s /\ place < z
      BY <1>0, <1>5, <2>2
    <2> QED BY <2>1, <2>3
  <1>24. ~Combined(n, info)
    BY <1>5, <1>10, NotCombined
  <1> DEFINE operands == [i \in 1 .. n |-> OperandAt(stream, start[i], info[i])]
  <1>25. \A i \in 1 .. n : operands[i] = ResolvedBy(ins.operands[i], where)
    BY <1>14, <1>20
  <1>26. \A i \in 1 .. n : /\ info[i].type \notin {14, 15}
                           /\ \A r \in OperandRegisters(operands[i]) : ValidRegister(r)
    <2> TAKE i \in 1 .. n
    <2>1. operands[i] = OperandAt(stream, P(i), info[i])
      BY <1>20
    <2>2. \A r \in OperandRegisters(OperandAt(stream, P(i), info[i])) : ValidRegister(r)
      BY <1>14
    <2>3. info[i].type \in 0 .. 13
      BY <1>14
    <2>4. info[i].type \notin {14, 15}
      BY <2>3
    <2> HIDE DEF operands, P
    <2> QED BY <2>1, <2>2, <2>4
  <1>27. operands = [i \in 1 .. n |-> ResolvedBy(ins.operands[i], where)]
    BY <1>25
  <1> HIDE DEF operands
  <1>28. DecodeInstruction(stream, place) =
            [ok |-> TRUE, next |-> start[n + 1], ins |-> [opcode |-> stream[place + 1], operands |-> operands]]
    BY <1>7, <1>22, <1>23, <1>24, <1>26 DEF operands
  <1> DEFINE d == DecodeInstruction(stream, place)
  <1> HIDE DEF d
  <1>29. d.ok /\ d.next = start[n + 1] /\ d.ins = [opcode |-> stream[place + 1], operands |-> operands]
    BY <1>28 DEF d
  <1> QED BY <1>6, <1>22, <1>23, <1>27, <1>29 DEF d, n

-----------------------------------------------------------------------------
(* The pieces of a sequence                                                *)

LEMMA FlattenConcat ==
    ASSUME NEW s, NEW t, IsSequences(s), IsSequences(t)
    PROVE  /\ IsSequences(s \o t)
           /\ FlattenSeq(s \o t) = FlattenSeq(s) \o FlattenSeq(t)
  <1> DEFINE u == s \o t
  <1>1. PICK m \in Nat, n \in Nat : m = Len(s) /\ n = Len(t)
    BY DEF IsSequences, IsSequence
  <1>2. /\ IsSequence(u) /\ Len(u) = m + n
        /\ \A k \in 1 .. m : u[k] = s[k]
        /\ \A k \in 1 .. n : u[m + k] = t[k]
    <2>1. IsSequence(s) /\ IsSequence(t)
      BY DEF IsSequences
    <2>2. /\ IsSequence(u) /\ Len(u) = Len(s) + Len(t)
          /\ \A i \in 1 .. Len(s) : u[i] = s[i]
          /\ \A i \in 1 .. Len(t) : u[Len(s) + i] = t[i]
      BY <2>1, ConcatSequence
    <2> QED BY <1>1, <2>2
  <1> HIDE DEF u
  <1>3. PICK es : Ends(s, es)
    BY EndsExist
  <1>4. PICK et : Ends(t, et)
    BY EndsExist
  <1>5. /\ es[0] = 0 /\ \A k \in 0 .. m : es[k] \in Nat
        /\ \A k \in 1 .. m : Len(s[k]) \in Nat /\ es[k] = es[k - 1] + Len(s[k])
    BY <1>1, <1>3, EndsTyped
  <1>6. /\ et[0] = 0 /\ \A k \in 0 .. n : et[k] \in Nat
        /\ \A k \in 1 .. n : Len(t[k]) \in Nat /\ et[k] = et[k - 1] + Len(t[k])
    BY <1>1, <1>4, EndsTyped
  <1>7. ASSUME NEW k \in 1 .. m + n
        PROVE  k \in 1 .. m \/ (k - m \in 1 .. n /\ u[k] = t[k - m])
    <2>1. CASE k <= m
      BY <2>1
    <2>2. CASE k > m
      <3>1. k - m \in 1 .. n /\ m + (k - m) = k
        BY <2>2
      <3>2. u[m + (k - m)] = t[k - m]
        BY <1>2, <3>1
      <3> QED BY <3>1, <3>2
    <2> QED BY <2>1, <2>2
  <1>8. IsSequences(u)
    <2>1. ASSUME NEW k \in 1 .. m + n
          PROVE  IsSequence(u[k])
      BY <1>1, <1>2, <1>7 DEF IsSequences
    <2> QED BY <1>2, <2>1 DEF IsSequences
  <1> DEFINE e == [k \in 0 .. m + n |-> IF k <= m THEN es[k] ELSE es[m] + et[k - m]]
  <1>9. /\ e[0] = 0
        /\ \A k \in 0 .. m : e[k] = es[k]
        /\ \A k \in 0 .. n : e[m + k] = es[m] + et[k]
    <2>1. ASSUME NEW k \in 0 .. m
          PROVE  e[k] = es[k]
      <3>1. k \in 0 .. m + n /\ k <= m
        OBVIOUS
      <3> QED BY <3>1
    <2>2. ASSUME NEW k \in 0 .. n
          PROVE  e[m + k] = es[m] + et[k]
      <3>1. m + k \in 0 .. m + n /\ (m + k) - m = k
        OBVIOUS
      <3>2. CASE k = 0
        <4>1. e[m] = es[m] /\ es[m] \in Nat
          BY <1>5, <2>1
        <4>2. m + k = m /\ et[k] = 0
          BY <1>6, <3>2
        <4> HIDE DEF e
        <4> QED BY <4>1, <4>2
      <3>3. CASE k # 0
        <4>1. ~(m + k <= m)
          BY <3>3
        <4> QED BY <3>1, <4>1
      <3> QED BY <3>2, <3>3
    <2>3. e[0] = 0
      BY <1>5, <2>1
    <2> HIDE DEF e
    <2> QED BY <2>1, <2>2, <2>3
  <1>10. e \in [0 .. m + n -> Nat]
    <2>1. ASSUME NEW k \in 0 .. m + n
          PROVE  (IF k <= m THEN es[k] ELSE es[m] + et[k - m]) \in Nat
      <3>1. CASE k <= m
        BY <1>5, <3>1
      <3>2. CASE ~(k <= m)
        <4>1. k - m \in 0 .. n /\ m \in 0 .. m
          BY <3>2
        <4>2. et[k - m] \in Nat /\ es[m] \in Nat
          BY <1>5, <1>6, <4>1
        <4> QED BY <3>2, <4>2
      <3> QED BY <3>1, <3>2
    <2> QED BY <2>1
  <1> HIDE DEF e
  <1>11. ASSUME NEW k \in 1 .. m + n
         PROVE  e[k] = e[k - 1] + Len(u[k])
    <2>1. CASE k <= m
      <3>1. k \in 1 .. m /\ k \in 0 .. m /\ k - 1 \in 0 .. m
        BY <2>1
      <3> QED BY <1>2, <1>5, <1>9, <3>1
    <2>2. CASE k > m
      <3>1. PICK j \in Int : j = k - m
        OBVIOUS
      <3>2. j \in 1 .. n /\ j \in 0 .. n /\ j - 1 \in 0 .. n /\ k = m + j /\ k - 1 = m + (j - 1)
        BY <2>2, <3>1
      <3>3. e[k] = es[m] + et[j] /\ e[k - 1] = es[m] + et[j - 1] /\ u[k] = t[j]
        BY <1>2, <1>9, <3>2
      <3>4. PICK x \in Nat, y \in Nat, z \in Nat : x = es[m] /\ y = et[j - 1] /\ z = Len(t[j])
        BY SMTT(60), <1>5, <1>6, <3>2
      <3>5. et[j] = y + z
        BY <1>6, <3>2, <3>4
      <3>6. e[k] = x + (y + z) /\ e[k - 1] = x + y
        BY <3>3, <3>4, <3>5
      <3>7. Len(u[k]) = z
        BY <3>3, <3>4
      <3> QED BY <3>6, <3>7
    <2> QED BY <2>1, <2>2
  <1>12. Ends(u, e)
    BY <1>2, <1>9, <1>10, <1>11 DEF Ends
  <1> DEFINE f == FlattenSeq(s)
             g == FlattenSeq(t)
             h == FlattenSeq(u)
  <1>13. /\ IsSequence(f) /\ Len(f) = es[m]
         /\ \A k \in 1 .. m : \A j \in 1 .. Len(s[k]) : f[es[k - 1] + j] = s[k][j]
    BY <1>1, <1>3, FlattenPlaces
  <1>14. /\ IsSequence(g) /\ Len(g) = et[n]
         /\ \A k \in 1 .. n : \A j \in 1 .. Len(t[k]) : g[et[k - 1] + j] = t[k][j]
    BY <1>1, <1>4, FlattenPlaces
  <1>15. /\ IsSequence(h) /\ Len(h) = e[m + n]
         /\ \A k \in 1 .. m + n : \A j \in 1 .. Len(u[k]) : h[e[k - 1] + j] = u[k][j]
    <2>1. /\ IsSequence(h) /\ Len(h) = e[Len(u)]
          /\ \A k \in 1 .. Len(u) : \A j \in 1 .. Len(u[k]) : h[e[k - 1] + j] = u[k][j]
      BY <1>8, <1>12, FlattenPlaces
    <2>2. Len(u) = m + n
      BY <1>2
    <2> HIDE DEF h
    <2> QED BY <2>1, <2>2
  <1> HIDE DEF f, g, h
  <1>16. PICK x \in Nat, y \in Nat : x = es[m] /\ y = et[n]
    BY <1>5, <1>6
  <1>17. Len(h) = x + y /\ Len(f) = x /\ Len(g) = y
    BY <1>9, <1>13, <1>14, <1>15, <1>16
  <1>18. \A i \in 1 .. x : h[i] = f[i]
    <2> TAKE i \in 1 .. x
    <2>8. i \in 1 .. es[Len(s)]
      BY <1>1, <1>16
    <2>9. \E k \in 1 .. Len(s) : \E j \in 1 .. Len(s[k]) : i = es[k - 1] + j
      BY <1>3, <2>8, EndsFind
    <2>0. PICK k \in 1 .. m : \E j \in 1 .. Len(s[k]) : i = es[k - 1] + j
      BY <1>1, <2>9
    <2>1. PICK j \in 1 .. Len(s[k]) : i = es[k - 1] + j
      BY <2>0
    <2>2. f[i] = s[k][j]
      BY <1>13, <2>1
    <2>3. k \in 1 .. m + n /\ k - 1 \in 0 .. m /\ u[k] = s[k]
      BY <1>2
    <2>4. e[k - 1] = es[k - 1]
      BY <1>9, <2>3
    <2>5. h[e[k - 1] + j] = u[k][j]
      BY <1>15, <2>3
    <2> QED BY <2>1, <2>2, <2>3, <2>4, <2>5
  <1>19. \A i \in 1 .. y : h[x + i] = g[i]
    <2> TAKE i \in 1 .. y
    <2>8. i \in 1 .. et[Len(t)]
      BY <1>1, <1>16
    <2>9. \E k \in 1 .. Len(t) : \E j \in 1 .. Len(t[k]) : i = et[k - 1] + j
      BY <1>4, <2>8, EndsFind
    <2>0. PICK k \in 1 .. n : \E j \in 1 .. Len(t[k]) : i = et[k - 1] + j
      BY <1>1, <2>9
    <2>1. PICK j \in 1 .. Len(t[k]) : i = et[k - 1] + j
      BY <2>0
    <2>2. g[i] = t[k][j]
      BY <1>14, <2>1
    <2>3. /\ m + k \in 1 .. m + n /\ k - 1 \in 0 .. n /\ (m + k) - 1 = m + (k - 1)
          /\ u[m + k] = t[k]
      BY <1>2
    <2>4. e[m + (k - 1)] = x + et[k - 1]
      BY <1>9, <1>16, <2>3
    <2>5. h[e[(m + k) - 1] + j] = u[m + k][j]
      BY <1>15, <2>3
    <2>6. et[k - 1] \in Nat /\ j \in Nat
      <3>1. et[k - 1] \in Nat /\ Len(t[k]) \in Nat
        BY <1>6, <2>3
      <3> QED BY <3>1
    <2>7. (x + et[k - 1]) + j = x + i
      BY <2>1, <2>6
    <2> QED BY <2>2, <2>3, <2>4, <2>5, <2>7
  <1>20. f \o g = h
    BY <1>13, <1>14, <1>15, <1>16, <1>17, <1>18, <1>19, ConcatIs
  <1> QED BY <1>8, <1>20 DEF f, g, h, u

LEMMA FlattenOne ==
    ASSUME NEW e, IsSequence(e)
    PROVE  IsSequences(<< e >>) /\ FlattenSeq(<< e >>) = e
  <1> DEFINE s == << e >>
             f == FlattenSeq(s)
  <1>1. IsSequence(s) /\ Len(s) = 1 /\ s[1] = e
    BY SingleSequence
  <1>2. IsSequences(s)
    BY <1>1 DEF IsSequences
  <1> HIDE DEF s
  <1>3. PICK end : Ends(s, end)
    BY <1>2, EndsExist
  <1>4. end[0] = 0 /\ end[1] = end[0] + Len(s[1]) /\ Len(e) \in Nat
    BY <1>1, <1>3 DEF Ends, IsSequence
  <1>5. /\ IsSequence(f) /\ Len(f) = end[1]
        /\ \A j \in 1 .. Len(s[1]) : f[end[0] + j] = s[1][j]
    <2>1. /\ IsSequence(f) /\ Len(f) = end[Len(s)]
          /\ \A k \in 1 .. Len(s) : \A j \in 1 .. Len(s[k]) : f[end[k - 1] + j] = s[k][j]
      BY <1>2, <1>3, FlattenPlaces
    <2>2. 1 \in 1 .. Len(s) /\ 1 - 1 = 0
      BY <1>1
    <2> QED BY <1>1, <2>1, <2>2
  <1>6. Len(f) = Len(e)
    BY <1>1, <1>4, <1>5
  <1>7. \A j \in 1 .. Len(f) : f[j] = e[j]
    <2> TAKE j \in 1 .. Len(f)
    <2>1. j \in 1 .. Len(e) /\ j \in Nat
      BY <1>4, <1>6
    <2>2. f[0 + j] = e[j]
      BY <1>1, <1>4, <1>5, <2>1
    <2> QED BY <2>1, <2>2
  <1> HIDE DEF f
  <1>8. f = e
    BY <1>5, <1>6, <1>7, SameSequence
  <1> QED BY <1>2, <1>8 DEF f, s

\* Appending a block appends its bytes.
LEMMA FlattenAppend ==
    ASSUME NEW s, NEW e, IsSequences(s), IsSequence(e)
    PROVE  /\ IsSequences(Append(s, e))
           /\ FlattenSeq(Append(s, e)) = FlattenSeq(s) \o e
  <1>1. Append(s, e) = s \o << e >>
    <2>1. IsSequence(s)
      BY DEF IsSequences
    <2>2. PICK S : s \in Seq(S)
      BY <2>1, SequenceOfSet
    <2>3. s \in Seq(S \cup {e}) /\ e \in S \cup {e}
      <3>1. s \in [1 .. Len(s) -> S] /\ Len(s) \in Nat
        BY <2>2
      <3> QED BY <3>1
    <2> QED BY <2>3
  <1>2. IsSequences(<< e >>) /\ FlattenSeq(<< e >>) = e
    BY FlattenOne
  <1>3. /\ IsSequences(s \o << e >>)
        /\ FlattenSeq(s \o << e >>) = FlattenSeq(s) \o FlattenSeq(<< e >>)
    BY <1>2, FlattenConcat
  <1> QED BY <1>1, <1>2, <1>3

\* A block replaced by one of its length changes its own bytes only.
LEMMA FlattenPut ==
    ASSUME NEW s, IsSequences(s), NEW end, Ends(s, end),
           NEW b \in 1 .. Len(s), NEW e, IsSequence(e), Len(e) = Len(s[b])
    PROVE  LET w == Put(s, b, e)
           IN  /\ IsSequences(w) /\ Len(w) = Len(s) /\ Ends(w, end)
               /\ \A k \in 1 .. Len(s) : Len(w[k]) = Len(s[k])
               /\ IsSequence(FlattenSeq(w)) /\ Len(FlattenSeq(w)) = Len(FlattenSeq(s))
               /\ \A j \in 1 .. Len(e) : FlattenSeq(w)[end[b - 1] + j] = e[j]
               /\ \A i \in 1 .. Len(FlattenSeq(s)) :
                     i <= end[b - 1] \/ end[b] < i => FlattenSeq(w)[i] = FlattenSeq(s)[i]
  <1> DEFINE w == Put(s, b, e)
             f == FlattenSeq(s)
             g == FlattenSeq(w)
  <1>1. PICK n \in Nat : n = Len(s)
    BY DEF IsSequences, IsSequence
  <1>2. /\ IsSequence(w) /\ Len(w) = n /\ w[b] = e
        /\ \A k \in 1 .. n : k # b => w[k] = s[k]
    BY <1>1, PutSequence DEF IsSequences
  <1> HIDE DEF w
  <1>3. \A k \in 1 .. n : IsSequence(w[k]) /\ Len(w[k]) = Len(s[k])
    <2> TAKE k \in 1 .. n
    <2>1. CASE k = b
      BY <1>2, <2>1
    <2>2. CASE k # b
      BY <1>1, <1>2, <2>2 DEF IsSequences
    <2> QED BY <2>1, <2>2
  <1>4. IsSequences(w)
    BY <1>2, <1>3 DEF IsSequences
  <1>5. Ends(w, end)
    BY <1>1, <1>2, <1>3 DEF Ends
  <1>6. /\ IsSequence(f) /\ Len(f) = end[n]
        /\ \A k \in 1 .. n : \A j \in 1 .. Len(s[k]) : f[end[k - 1] + j] = s[k][j]
    BY <1>1, FlattenPlaces
  <1>7. /\ IsSequence(g) /\ Len(g) = end[n]
        /\ \A k \in 1 .. n : \A j \in 1 .. Len(w[k]) : g[end[k - 1] + j] = w[k][j]
    BY <1>2, <1>4, <1>5, FlattenPlaces
  <1> HIDE DEF f, g
  <1>8. \A j \in 1 .. Len(e) : g[end[b - 1] + j] = e[j]
    BY <1>1, <1>2, <1>7
  <1>9. ASSUME NEW i \in 1 .. Len(f), i <= end[b - 1] \/ end[b] < i
        PROVE  g[i] = f[i]
    <2>8. i \in 1 .. end[Len(s)]
      BY <1>1, <1>6
    <2>9. \E k \in 1 .. Len(s) : \E j \in 1 .. Len(s[k]) : i = end[k - 1] + j
      BY SMTT(60), <2>8, EndsFind
    <2>0. PICK k \in 1 .. n : \E j \in 1 .. Len(s[k]) : i = end[k - 1] + j
      BY <1>1, <2>9
    <2>1. PICK j \in 1 .. Len(s[k]) : i = end[k - 1] + j
      BY <2>0
    <2>2. k # b
      <3>1. SUFFICES ASSUME k = b PROVE FALSE
        OBVIOUS
      <3>0. /\ \A l \in 0 .. Len(s) : end[l] \in Nat
            /\ \A l \in 1 .. Len(s) : Len(s[l]) \in Nat /\ end[l] = end[l - 1] + Len(s[l])
        BY EndsTyped
      <3>2. PICK x \in Nat, y \in Nat : x = end[b - 1] /\ y = Len(s[b])
        <4>1. b - 1 \in 0 .. Len(s)
          BY <1>1
        <4> QED BY <3>0, <4>1
      <3>3. end[b] = x + y
        BY <1>1, <3>0, <3>2
      <3>4. i = x + j /\ j \in 1 .. y
        BY <2>1, <3>1, <3>2
      <3> QED BY SMTT(60), <1>9, <3>2, <3>3, <3>4
    <2>3. w[k] = s[k]
      BY <1>2, <2>2
    <2>4. f[end[k - 1] + j] = s[k][j]
      BY <1>6
    <2>5. g[end[k - 1] + j] = w[k][j]
      BY <1>7, <2>3
    <2> QED BY <2>1, <2>3, <2>4, <2>5
  <1>10. Len(g) = Len(f)
    BY <1>6, <1>7
  <1> QED BY <1>1, <1>2, <1>3, <1>4, <1>5, <1>6, <1>7, <1>8, <1>9, <1>10 DEF f, g, w

-----------------------------------------------------------------------------
(* What is written into a buffer                                           *)

\* f with the data over it from `from` on: g may be longer.
Overwritten(f, g, from, data) ==
    /\ IsSequence(g)
    /\ Len(g) >= Len(f) /\ Len(g) >= from + Len(data)
    /\ \A i \in 1 .. Len(data) : g[from + i] = data[i]
    /\ \A i \in 1 .. Len(f) : i <= from \/ from + Len(data) < i => g[i] = f[i]

LEMMA CopiedBlock ==
    ASSUME NEW block, NEW from \in Nat, NEW data, IsSequence(block), IsSequence(data)
    PROVE  /\ IsSequence(Copied(block, from, data))
           /\ Len(Copied(block, from, data)) = Len(block)
           /\ \A i \in 1 .. Len(block) :
                 /\ from < i /\ i <= from + Len(data) => Copied(block, from, data)[i] = data[i - from]
                 /\ i <= from \/ from + Len(data) < i => Copied(block, from, data)[i] = block[i]
  <1> DEFINE c == Copied(block, from, data)
  <1>1. PICK n \in Nat, m \in Nat : n = Len(block) /\ m = Len(data)
    BY DEF IsSequence
  <1>2. c = [i \in 1 .. n |-> IF i - from \in 1 .. m THEN data[i - from] ELSE block[i]]
    BY <1>1 DEF Copied
  <1> HIDE DEF c
  <1>3. \A i \in 1 .. n : c[i] = IF i - from \in 1 .. m THEN data[i - from] ELSE block[i]
    BY <1>2
  <1>4. c = [i \in 1 .. n |-> c[i]]
    BY <1>2, Zenon
  <1>5. IsSequence(c) /\ Len(c) = n
    BY <1>4, FunctionSequence
  <1>6. ASSUME NEW i \in 1 .. n
        PROVE  /\ from < i /\ i <= from + m => c[i] = data[i - from]
               /\ i <= from \/ from + m < i => c[i] = block[i]
    <2>1. CASE from < i /\ i <= from + m
      <3>1. i - from \in 1 .. m
        BY <2>1
      <3> QED BY <1>3, <2>1, <3>1
    <2>2. CASE i <= from \/ from + m < i
      <3>1. i - from \notin 1 .. m
        BY <2>2
      <3> QED BY <1>3, <2>2, <3>1
    <2> QED BY <2>1, <2>2
  <1> QED BY <1>1, <1>5, <1>6 DEF c

Rounded(size) == ((size + BlockSize - 1) \div BlockSize) * BlockSize

LEMMA RoundedUp ==
    ASSUME NEW size \in Nat
    PROVE  Rounded(size) \in Nat /\ Rounded(size) >= size
  <1>1. BlockSize \in Nat \ {0}
    BY BlockSizeAssumption
  <1>2. PICK b \in Nat \ {0}, a \in Nat : b = BlockSize /\ a = size + BlockSize - 1
    BY <1>1
  <1>3. PICK q \in Int, r \in Int : q = a \div b /\ r = a % b
    OBVIOUS
  <1>4. a = b * q + r /\ 0 <= r /\ r < b
    BY <1>3
  <1>5. q >= 0
    <2>1. SUFFICES ASSUME q < 0 PROVE FALSE
      OBVIOUS
    <2>2. b * q <= -b
      BY <2>1
    <2> QED BY <1>4, <2>2
  <1>6. q * b \in Nat /\ q * b = b * q
    BY <1>5
  <1>7. q * b >= size
    BY <1>2, <1>4, <1>6
  <1> QED BY <1>2, <1>3, <1>6, <1>7 DEF Rounded

LEMMA NewBlock ==
    ASSUME NEW size \in Nat
    PROVE  \E new : /\ \A blocks : AddBlock(blocks, size) = Append(blocks, new)
                    /\ IsSequence(new) /\ Len(new) >= size /\ Len(new) \in Nat
  <1>1. PICK n \in Nat : n = Rounded(size) /\ n >= size
    BY RoundedUp
  <1> DEFINE new == [i \in 1 .. n |-> Garbage]
  <1>2. new = [i \in 1 .. n |-> new[i]]
    OBVIOUS
  <1>3. IsSequence(new) /\ Len(new) = n
    BY <1>2, FunctionSequence
  <1>4. \A blocks : AddBlock(blocks, size) = Append(blocks, new)
    BY <1>1 DEF AddBlock, Rounded
  <1> QED BY <1>1, <1>3, <1>4

\* A new block with data at its beginning, behind the others.
LEMMA AddedBlock ==
    ASSUME NEW blocks, NEW data, IsSequences(blocks), IsSequence(data)
    PROVE  LET grown == AddBlock(blocks, Len(data))
               w     == [grown EXCEPT ![Len(grown)] = Copied(@, 0, data)]
           IN  /\ IsSequences(w)
               /\ Overwritten(FlattenSeq(blocks), FlattenSeq(w), Len(FlattenSeq(blocks)), data)
  <1> DEFINE grown == AddBlock(blocks, Len(data))
             w     == [grown EXCEPT ![Len(grown)] = Copied(@, 0, data)]
             f     == FlattenSeq(blocks)
             g     == FlattenSeq(w)
  <1>1. PICK n \in Nat, m \in Nat : n = Len(blocks) /\ m = Len(data)
    BY DEF IsSequences, IsSequence
  <1>2. PICK new : /\ \A bs : AddBlock(bs, m) = Append(bs, new)
                   /\ IsSequence(new) /\ Len(new) >= m /\ Len(new) \in Nat
    BY NewBlock
  <1>3. grown = Append(blocks, new)
    BY <1>1, <1>2
  <1> HIDE DEF grown
  <1> DEFINE c == Copied(new, 0, data)
  <1>4. /\ IsSequence(grown) /\ Len(grown) = n + 1 /\ grown[n + 1] = new
        /\ \A i \in 1 .. n : grown[i] = blocks[i]
    <2>1. IsSequence(blocks)
      BY DEF IsSequences
    <2>2. /\ IsSequence(Append(blocks, new)) /\ Len(Append(blocks, new)) = Len(blocks) + 1
          /\ Append(blocks, new)[Len(blocks) + 1] = new
          /\ \A i \in 1 .. Len(blocks) : Append(blocks, new)[i] = blocks[i]
      BY <2>1, AppendSequence
    <2> QED BY <1>1, <1>3, <2>2
  <1>5. /\ IsSequence(c) /\ Len(c) = Len(new)
        /\ \A i \in 1 .. m : c[i] = data[i]
    <2>1. /\ IsSequence(c) /\ Len(c) = Len(new)
          /\ \A i \in 1 .. Len(new) : 0 < i /\ i <= 0 + Len(data) => c[i] = data[i - 0]
      BY <1>2, CopiedBlock
    <2>2. ASSUME NEW i \in 1 .. m
          PROVE  c[i] = data[i]
      <3>1. i \in 1 .. Len(new) /\ 0 < i /\ i <= 0 + m /\ i - 0 = i
        BY <1>2
      <3> QED BY <1>1, <2>1, <3>1
    <2> QED BY <2>1, <2>2
  <1> HIDE DEF c
  <1>6. w = Put(grown, n + 1, c)
    BY <1>4 DEF Put, c
  <1>7. w = Append(blocks, c)
    <2>1. /\ IsSequence(w) /\ Len(w) = n + 1 /\ w[n + 1] = c
          /\ \A j \in 1 .. n + 1 : j # n + 1 => w[j] = grown[j]
      <3>1. /\ IsSequence(Put(grown, n + 1, c)) /\ Len(Put(grown, n + 1, c)) = Len(grown)
            /\ n + 1 \in 1 .. Len(grown) => Put(grown, n + 1, c)[n + 1] = c
            /\ \A j \in 1 .. Len(grown) : j # n + 1 => Put(grown, n + 1, c)[j] = grown[j]
        BY <1>4, PutSequence
      <3>2. n + 1 \in 1 .. Len(grown)
        BY <1>4
      <3> HIDE DEF w
      <3> QED BY <1>4, <1>6, <3>1, <3>2
    <2> HIDE DEF w
    <2> DEFINE a == Append(blocks, c)
    <2>2. /\ IsSequence(a) /\ Len(a) = n + 1 /\ a[n + 1] = c
          /\ \A i \in 1 .. n : a[i] = blocks[i]
      <3>1. IsSequence(blocks)
        BY DEF IsSequences
      <3>2. /\ IsSequence(a) /\ Len(a) = Len(blocks) + 1 /\ a[Len(blocks) + 1] = c
            /\ \A i \in 1 .. Len(blocks) : a[i] = blocks[i]
        BY <3>1, AppendSequence
      <3> HIDE DEF a
      <3> QED BY <1>1, <3>2
    <2> HIDE DEF a
    <2>3. \A i \in 1 .. Len(w) : w[i] = a[i]
      <3> TAKE i \in 1 .. Len(w)
      <3>1. i \in 1 .. n + 1
        BY <2>1
      <3>2. CASE i = n + 1
        BY <2>1, <2>2, <3>2
      <3>3. CASE i # n + 1
        <4>1. i \in 1 .. n
          BY <3>1, <3>3
        <4> QED BY <1>4, <2>1, <2>2, <3>1, <3>3, <4>1
      <3> QED BY <3>2, <3>3
    <2>4. Len(w) = Len(a)
      BY <2>1, <2>2
    <2>5. w = a
      BY <2>1, <2>2, <2>3, <2>4, SameSequence
    <2> QED BY <2>5 DEF a
  <1> HIDE DEF w
  <1>8. IsSequences(w) /\ g = f \o c
    BY <1>5, <1>7, FlattenAppend
  <1>9. IsSequence(f)
    <2>1. PICK end : Ends(blocks, end)
      BY EndsExist
    <2> QED BY <2>1, FlattenPlaces
  <1> HIDE DEF f, g
  <1>10. PICK x \in Nat, y \in Nat : x = Len(f) /\ y = Len(c)
    BY <1>5, <1>9 DEF IsSequence
  <1>11. /\ IsSequence(g) /\ Len(g) = x + y
         /\ \A i \in 1 .. x : g[i] = f[i]
         /\ \A i \in 1 .. y : g[x + i] = c[i]
    <2>1. /\ IsSequence(f \o c) /\ Len(f \o c) = Len(f) + Len(c)
          /\ \A i \in 1 .. Len(f) : (f \o c)[i] = f[i]
          /\ \A i \in 1 .. Len(c) : (f \o c)[Len(f) + i] = c[i]
      BY <1>5, <1>9, ConcatSequence
    <2> QED BY <1>8, <1>10, <2>1
  <1>12. y >= m
    BY <1>2, <1>5, <1>10
  <1>13. Overwritten(f, g, x, data)
    <2>1. \A i \in 1 .. m : g[x + i] = data[i]
      <3> TAKE i \in 1 .. m
      <3>1. i \in 1 .. y
        BY <1>12
      <3> QED BY <1>5, <1>11, <3>1
    <2>2. Len(g) >= x /\ Len(g) >= x + m
      BY <1>11, <1>12
    <2> QED BY <1>1, <1>10, <1>11, <2>1, <2>2 DEF Overwritten
  <1>14. Overwritten(f, g, Len(f), data)
    BY <1>10, <1>13
  <1> QED BY <1>8, <1>14 DEF f, g, w, grown

\* The blocks w hold the data behind place eb, up to place `to`.
SpilledTo(w, blocks, end, eb, data, to) ==
    /\ IsSequences(w) /\ Len(w) = Len(blocks) /\ Ends(w, end)
    /\ \A k \in 1 .. Len(blocks) : Len(w[k]) = Len(blocks[k])
    /\ \A i \in 1 .. Len(FlattenSeq(blocks)) :
          /\ eb < i /\ i <= eb + Len(data) /\ i <= to => FlattenSeq(w)[i] = data[i - eb]
          /\ i <= eb \/ eb + Len(data) < i \/ to < i => FlattenSeq(w)[i] = FlattenSeq(blocks)[i]

\* What is left of the data there.
RestAt(rest, eb, data, to) ==
    /\ IsSequence(rest)
    /\ to <= eb + Len(data) /\ to + Len(rest) = eb + Len(data)
    /\ \A i \in 1 .. Len(rest) : rest[i] = data[(to - eb) + i]

\* What Spill has done when it has passed block c.
Spilled(st, blocks, end, b, data, c) ==
    /\ st = [blocks |-> st.blocks, rest |-> st.rest, done |-> st.done] /\ st.done \in BOOLEAN
    /\ SpilledTo(st.blocks, blocks, end, end[b], data, end[c])
    /\ IsSequence(st.rest)
    /\ st.done => end[b] + Len(data) <= end[c]
    /\ ~st.done => RestAt(st.rest, end[b], data, end[c])

Into(state, c) ==
    IF state.done THEN state
    ELSE IF Len(state.rest) <= Len(state.blocks[c])
    THEN [state EXCEPT !.blocks[c] = Copied(@, 0, state.rest), !.done = TRUE]
    ELSE [state EXCEPT !.blocks[c] = Copied(@, 0, state.rest),
                       !.rest = Left(state.blocks[c], 0, @)]

IntoOf(blocks, b, data, f) ==
    [c \in b .. Len(blocks) |->
        IF c = b THEN [blocks |-> blocks, rest |-> data, done |-> FALSE] ELSE Into(f[c - 1], c)]

IntoFunction(blocks, b, data) == CHOOSE f : f = IntoOf(blocks, b, data, f)

LEMMA IntoExists ==
    ASSUME NEW blocks, NEW b, NEW data, NEW n \in Nat, n = Len(blocks), b \in 1 .. n,
           NEW into, into = IntoFunction(blocks, b, data)
    PROVE  /\ into[b] = [blocks |-> blocks, rest |-> data, done |-> FALSE]
           /\ \A c \in b + 1 .. n : into[c] = Into(into[c - 1], c)
  <1> DEFINE first == [blocks |-> blocks, rest |-> data, done |-> FALSE]
             Upto(f, k) == f = [c \in b .. b + k |-> IF c = b THEN first ELSE Into(f[c - 1], c)]
             T == {k \in 0 .. n - b : \E f : Upto(f, k)}
  <1> HIDE DEF first
  <1>1. n - b \in Nat /\ b \in Nat
    OBVIOUS
  <1>2. 0 \in T
    <2> DEFINE g == [c \in b .. b + 0 |-> first]
    <2>1. Upto(g, 0)
      <3>1. \A c \in b .. b + 0 : c = b
        OBVIOUS
      <3>2. PICK h : h = g
        OBVIOUS
      <3>3. \A c \in b .. b + 0 : first = IF c = b THEN first ELSE Into(h[c - 1], c)
        BY <3>1
      <3>4. g = [c \in b .. b + 0 |-> IF c = b THEN first ELSE Into(h[c - 1], c)]
        BY <3>3
      <3>5. h = [c \in b .. b + 0 |-> IF c = b THEN first ELSE Into(h[c - 1], c)]
        BY <3>2, <3>4
      <3>6. Upto(h, 0)
        BY <3>5
      <3> HIDE DEF g, Upto
      <3> QED BY <3>2, <3>6
    <2>2. 0 \in 0 .. n - b
      BY <1>1
    <2> HIDE DEF Upto, g
    <2> QED BY <2>1, <2>2
  <1>3. ASSUME NEW k \in 0 .. (n - b) - 1, k \in T
        PROVE  k + 1 \in T
    <2>1. PICK f : Upto(f, k)
      BY <1>3
    <2> DEFINE g == [c \in b .. b + (k + 1) |-> IF c = b + (k + 1) THEN Into(f[b + k], b + (k + 1)) ELSE f[c]]
    <2>2. \A c \in b .. b + k : f[c] = IF c = b THEN first ELSE Into(f[c - 1], c)
      BY <2>1
    <2>3. \A c \in b .. b + k : g[c] = f[c]
      <3>1. \A c \in b .. b + k : c \in b .. b + (k + 1) /\ c # b + (k + 1)
        OBVIOUS
      <3> QED BY <3>1
    <2>4. g[b + (k + 1)] = Into(f[b + k], b + (k + 1))
      BY <1>1
    <2>5. DOMAIN g = b .. b + (k + 1) /\ g = [c \in b .. b + (k + 1) |-> g[c]]
      OBVIOUS
    <2> HIDE DEF g
    <2>6. ASSUME NEW c \in b .. b + (k + 1)
          PROVE  g[c] = IF c = b THEN first ELSE Into(g[c - 1], c)
      <3>1. CASE c = b
        <4>1. c \in b .. b + k
          BY <3>1
        <4> QED BY <2>2, <2>3, <3>1, <4>1
      <3>2. CASE c # b /\ c # b + (k + 1)
        <4>1. c \in b .. b + k /\ c - 1 \in b .. b + k
          BY <3>2
        <4> QED BY <2>2, <2>3, <3>2, <4>1
      <3>3. CASE c = b + (k + 1)
        <4>1. c - 1 = b + k /\ b + k \in b .. b + k /\ c # b
          BY <3>3
        <4>2. g[c - 1] = f[b + k]
          BY <2>3, <4>1
        <4> QED BY <2>4, <3>3, <4>1, <4>2
      <3> QED BY <3>1, <3>2, <3>3
    <2>7. Upto(g, k + 1)
      <3>1. \A c \in b .. b + (k + 1) : g[c] = IF c = b THEN first ELSE Into(g[c - 1], c)
        BY <2>6
      <3>2. [c \in b .. b + (k + 1) |-> g[c]] =
              [c \in b .. b + (k + 1) |-> IF c = b THEN first ELSE Into(g[c - 1], c)]
        BY <3>1
      <3> QED BY <2>5, <3>2
    <2>8. k + 1 \in 0 .. n - b
      BY <1>1
    <2> HIDE DEF Upto
    <2> QED BY <2>7, <2>8
  <1>4. n - b \in T
    <2> HIDE DEF T
    <2>1. 0 .. n - b \subseteq T
      BY <1>1, <1>2, <1>3, Induction
    <2> QED BY <1>1, <2>1
  <1>5. \E f : f = IntoOf(blocks, b, data, f)
    <2>1. PICK f : Upto(f, n - b)
      BY <1>4
    <2>2. b + (n - b) = n
      BY <1>1
    <2>3. f = IntoOf(blocks, b, data, f)
      BY <2>1, <2>2 DEF IntoOf, first
    <2> QED BY <2>3
  <1>6. into = IntoOf(blocks, b, data, into)
    <2>1. into = CHOOSE f : f = IntoOf(blocks, b, data, f)
      BY DEF IntoFunction
    <2> QED BY <1>5, <2>1
  <1>7. \A c \in b .. n : into[c] = IF c = b THEN first ELSE Into(into[c - 1], c)
    BY <1>6 DEF IntoOf, first
  <1>8. into[b] = first
    BY <1>7
  <1>9. \A c \in b + 1 .. n : into[c] = Into(into[c - 1], c)
    <2> TAKE c \in b + 1 .. n
    <2>1. c \in b .. n /\ c # b
      OBVIOUS
    <2> QED BY <1>7, <2>1
  <1> QED BY <1>8, <1>9 DEF first

LEMMA SpillBegins ==
    ASSUME NEW blocks, NEW end, NEW b, NEW data, IsSequences(blocks), Ends(blocks, end),
           b \in 1 .. Len(blocks), IsSequence(data)
    PROVE  Spilled([blocks |-> blocks, rest |-> data, done |-> FALSE], blocks, end, b, data, b)
  <1>1. PICK e \in Nat, m \in Nat : e = end[b] /\ m = Len(data)
    BY EndsTyped DEF IsSequence
  <1>2. RestAt(data, e, data, e)
    <2>1. \A i \in 1 .. m : data[i] = data[(e - e) + i]
      <3> TAKE i \in 1 .. m
      <3>1. (e - e) + i = i
        OBVIOUS
      <3> QED BY <3>1
    <2> QED BY <1>1, <2>1 DEF RestAt
  <1>3. SpilledTo(blocks, blocks, end, e, data, e)
    <2>1. Len(FlattenSeq(blocks)) \in Nat
      BY FlattenPlaces DEF IsSequence
    <2>2. \A i \in 1 .. Len(FlattenSeq(blocks)) : ~(e < i /\ i <= e + m /\ i <= e)
      BY <2>1
    <2> QED BY <1>1, <2>2 DEF SpilledTo
  <1> QED BY <1>1, <1>2, <1>3 DEF Spilled

\* The bytes after a block has taken what it can.
LEMMA SpillBytes ==
    ASSUME NEW old, NEW rest, NEW blocks, NEW end, NEW eb \in Nat, NEW ed \in Nat, NEW data, NEW c,
           IsSequences(blocks), Ends(blocks, end), IsSequence(data),
           c \in 1 .. Len(blocks), ed = end[c - 1], eb <= ed,
           SpilledTo(old, blocks, end, eb, data, ed), RestAt(rest, eb, data, ed)
    PROVE  SpilledTo(Put(old, c, Copied(old[c], 0, rest)), blocks, end, eb, data, end[c])
  <1> DEFINE new == Copied(old[c], 0, rest)
             w   == Put(old, c, new)
             f   == FlattenSeq(blocks)
             g   == FlattenSeq(old)
             h   == FlattenSeq(w)
  <1>1. PICK n \in Nat, m \in Nat, r \in Nat : n = Len(blocks) /\ m = Len(data) /\ r = Len(rest)
    BY DEF IsSequences, IsSequence, RestAt
  <1>2. c \in 1 .. n /\ c - 1 \in 0 .. n /\ c \in 0 .. n
    BY <1>1
  <1>3. IsSequences(old) /\ Len(old) = n /\ Ends(old, end) /\ IsSequence(old)
    BY <1>1 DEF SpilledTo, IsSequences
  <1>4. \A k \in 1 .. n : Len(old[k]) = Len(blocks[k])
    BY <1>1 DEF SpilledTo
  <1>5. /\ \A k \in 0 .. n : end[k] \in Nat
        /\ \A k \in 1 .. n : Len(blocks[k]) \in Nat /\ end[k] = end[k - 1] + Len(blocks[k])
    BY <1>1, EndsTyped
  <1>6. PICK ec \in Nat, l \in Nat : ec = end[c] /\ l = Len(blocks[c]) /\ ec = ed + l
    BY <1>2, <1>5
  <1>7. ed <= eb + m /\ ed + r = eb + m /\ IsSequence(rest) /\ \A i \in 1 .. r : rest[i] = data[(ed - eb) + i]
    BY <1>1 DEF RestAt
  <1>8. IsSequence(old[c]) /\ Len(old[c]) = l
    BY <1>2, <1>3, <1>4, <1>6 DEF IsSequences
  <1>9. /\ IsSequence(new) /\ Len(new) = l
        /\ \A i \in 1 .. l : (i <= r => new[i] = rest[i]) /\ (r < i => new[i] = old[c][i])
    <2>1. /\ IsSequence(new) /\ Len(new) = Len(old[c])
          /\ \A i \in 1 .. Len(old[c]) :
                /\ 0 < i /\ i <= 0 + Len(rest) => new[i] = rest[i - 0]
                /\ i <= 0 \/ 0 + Len(rest) < i => new[i] = old[c][i]
      <3>1. IsSequence(rest) /\ IsSequence(old[c]) /\ 0 \in Nat
        BY <1>7, <1>8
      <3> QED BY <3>1, CopiedBlock
    <2>2. ASSUME NEW i \in 1 .. l
          PROVE  (i <= r => new[i] = rest[i]) /\ (r < i => new[i] = old[c][i])
      <3>1. i \in 1 .. Len(old[c]) /\ 0 < i /\ i - 0 = i /\ 0 + r = r
        BY <1>8
      <3> QED BY <1>1, <2>1, <3>1
    <2> QED BY <1>8, <2>1, <2>2
  <1> HIDE DEF new
  <1>10. /\ IsSequences(w) /\ Len(w) = Len(old) /\ Ends(w, end)
         /\ \A k \in 1 .. Len(old) : Len(w[k]) = Len(old[k])
         /\ \A j \in 1 .. Len(new) : h[end[c - 1] + j] = new[j]
         /\ \A i \in 1 .. Len(g) : i <= end[c - 1] \/ end[c] < i => h[i] = g[i]
    <2>1. c \in 1 .. Len(old) /\ Len(new) = Len(old[c])
      BY <1>2, <1>3, <1>8, <1>9
    <2>2. IsSequences(old) /\ Ends(old, end) /\ IsSequence(new)
      BY <1>3, <1>9
    <2> QED BY <2>1, <2>2, FlattenPut
  <1>11. PICK L \in Nat : L = Len(f) /\ L = end[n]
    <2>1. Len(f) = end[Len(blocks)]
      BY FlattenPlaces
    <2>2. n \in 0 .. n
      OBVIOUS
    <2> HIDE DEF f
    <2> QED BY <1>1, <1>5, <2>1, <2>2
  <1>12. Len(g) = L /\ \A k \in 1 .. n : \A j \in 1 .. Len(old[k]) : g[end[k - 1] + j] = old[k][j]
    <2>1. IsSequences(old) /\ Ends(old, end)
      BY <1>3
    <2>2. /\ Len(g) = end[Len(old)]
          /\ \A k \in 1 .. Len(old) : \A j \in 1 .. Len(old[k]) : g[end[k - 1] + j] = old[k][j]
      BY <2>1, FlattenPlaces
    <2> HIDE DEF g
    <2> QED BY <1>3, <1>11, <2>2
  <1>13. \A i \in 1 .. L :
            /\ eb < i /\ i <= eb + m /\ i <= ed => g[i] = data[i - eb]
            /\ i <= eb \/ eb + m < i \/ ed < i => g[i] = f[i]
    <2>1. \A i \in 1 .. Len(f) :
             /\ eb < i /\ i <= eb + Len(data) /\ i <= ed => g[i] = data[i - eb]
             /\ i <= eb \/ eb + Len(data) < i \/ ed < i => g[i] = f[i]
      BY DEF SpilledTo
    <2> HIDE DEF f, g
    <2> QED BY <1>1, <1>11, <2>1
  <1> HIDE DEF f, g, h, w
  <1>14. ASSUME NEW i \in 1 .. L
         PROVE  /\ eb < i /\ i <= eb + m /\ i <= ec => h[i] = data[i - eb]
                /\ i <= eb \/ eb + m < i \/ ec < i => h[i] = f[i]
    <2>1. CASE i <= ed \/ ec < i
      <3>1. i \in 1 .. Len(g) /\ (i <= end[c - 1] \/ end[c] < i)
        BY <1>6, <1>12, <2>1
      <3>2. h[i] = g[i]
        BY <1>10, <3>1
      <3>3. /\ eb < i /\ i <= eb + m /\ i <= ed => g[i] = data[i - eb]
            /\ i <= eb \/ eb + m < i \/ ed < i => g[i] = f[i]
        BY <1>13
      <3> QED BY SMTT(60), <1>6, <2>1, <3>2, <3>3
    <2>2. CASE ed < i /\ i <= ec
      <3>1. PICK j \in Int : j = i - ed
        OBVIOUS
      <3>2. j \in 1 .. l /\ ed + j = i
        BY SMTT(60), <1>6, <2>2, <3>1
      <3>3. h[i] = new[j]
        <4>1. j \in 1 .. Len(new)
          BY <1>9, <3>2
        <4>2. h[end[c - 1] + j] = new[j]
          BY <1>10, <4>1
        <4> QED BY <3>2, <4>2
      <3>4. CASE i <= eb + m
        <4>1. j <= r /\ j \in 1 .. r
          BY <1>7, <3>2, <3>4
        <4>0. (ed - eb) + j = i - eb
          BY <3>2
        <4>2. rest[j] = data[(ed - eb) + j] /\ (ed - eb) + j = i - eb
          BY <1>7, <4>0, <4>1
        <4>3. h[i] = data[i - eb]
          BY <1>9, <3>2, <3>3, <4>1, <4>2
        <4>4. ~(i <= eb \/ eb + m < i \/ ec < i)
          BY <2>2, <3>4
        <4> QED BY <4>3, <4>4
      <3>5. CASE eb + m < i
        <4>1. r < j
          BY <1>7, <3>2, <3>5
        <4>2. j \in 1 .. Len(old[c]) /\ new[j] = old[c][j]
          BY <1>8, <1>9, <3>2, <4>1
        <4>3. g[end[c - 1] + j] = old[c][j]
          BY <1>2, <1>12, <4>2
        <4>4. g[i] = f[i]
          BY <1>13, <3>5
        <4>5. h[i] = f[i]
          BY <3>2, <3>3, <4>2, <4>3, <4>4
        <4> QED BY <3>5, <4>5
      <3> QED BY <3>4, <3>5
    <2> QED BY <2>1, <2>2
  <1>15. Len(w) = Len(blocks) /\ \A k \in 1 .. Len(blocks) : Len(w[k]) = Len(blocks[k])
    BY <1>1, <1>3, <1>4, <1>10
  <1>16. \A i \in 1 .. Len(f) :
            /\ eb < i /\ i <= eb + Len(data) /\ i <= end[c] => h[i] = data[i - eb]
            /\ i <= eb \/ eb + Len(data) < i \/ end[c] < i => h[i] = f[i]
    BY <1>1, <1>6, <1>11, <1>14
  <1>17. SpilledTo(w, blocks, end, eb, data, end[c])
    BY <1>10, <1>15, <1>16 DEF SpilledTo, f, h
  <1> QED BY <1>17 DEF w, new

LEMMA SpillStep ==
    ASSUME NEW st, NEW blocks, NEW end, NEW b, NEW data, NEW c,
           IsSequences(blocks), Ends(blocks, end), b \in 1 .. Len(blocks), IsSequence(data),
           c \in b + 1 .. Len(blocks), Spilled(st, blocks, end, b, data, c - 1)
    PROVE  Spilled(Into(st, c), blocks, end, b, data, c)
  <1>0. PICK old, left : old = st.blocks /\ left = st.rest
    OBVIOUS
  <1>1. PICK n \in Nat, m \in Nat, r \in Nat :
           old = st.blocks /\ left = st.rest /\ n = Len(blocks) /\ m = Len(data) /\ r = Len(left)
    <2>1. Len(blocks) \in Nat /\ Len(data) \in Nat /\ Len(left) \in Nat
      BY <1>0 DEF IsSequences, IsSequence, Spilled
    <2> QED BY <1>0, <2>1
  <1> DEFINE w    == Put(old, c, Copied(old[c], 0, left))
             next == Into(st, c)
             f    == FlattenSeq(blocks)
  <1>2. b \in 1 .. n /\ c \in 1 .. n /\ b \in 0 .. n /\ c \in 0 .. n /\ c - 1 \in 0 .. n /\ b <= c - 1
    BY <1>1
  <1>3. /\ \A k \in 0 .. n : end[k] \in Nat
        /\ \A k \in 1 .. n : Len(blocks[k]) \in Nat /\ end[k] = end[k - 1] + Len(blocks[k])
    BY <1>1, EndsTyped
  <1>4. PICK eb \in Nat, ed \in Nat, ec \in Nat, l \in Nat :
           eb = end[b] /\ ed = end[c - 1] /\ ec = end[c] /\ l = Len(blocks[c])
    BY <1>2, <1>3
  <1>5. ec = ed + l
    BY <1>2, <1>3, <1>4
  <1>6. st = [blocks |-> old, rest |-> left, done |-> st.done] /\ st.done \in BOOLEAN
    BY <1>1 DEF Spilled
  <1>7. SpilledTo(old, blocks, end, eb, data, ed) /\ IsSequence(left)
    BY <1>1, <1>4 DEF Spilled
  <1>8. CASE st.done
    <2>1. next = st
      BY <1>8 DEF Into
    <2>2. eb + m <= ed
      BY <1>1, <1>4, <1>8 DEF Spilled
    <2>3. SpilledTo(old, blocks, end, eb, data, ec)
      <3>1. ASSUME NEW i \in 1 .. Len(f)
            PROVE  /\ eb < i /\ i <= eb + Len(data) /\ i <= ec => FlattenSeq(old)[i] = data[i - eb]
                   /\ i <= eb \/ eb + Len(data) < i \/ ec < i => FlattenSeq(old)[i] = f[i]
        <4>1. /\ eb < i /\ i <= eb + Len(data) /\ i <= ed => FlattenSeq(old)[i] = data[i - eb]
              /\ i <= eb \/ eb + Len(data) < i \/ ed < i => FlattenSeq(old)[i] = f[i]
          BY <1>7 DEF SpilledTo
        <4>2. i \in Nat
          <5>1. Len(f) \in Nat
            BY FlattenPlaces DEF IsSequence
          <5> QED BY <5>1
        <4> HIDE DEF f
        <4> QED BY <1>1, <1>5, <2>2, <4>1, <4>2
      <3> HIDE DEF f
      <3>2. IsSequences(old) /\ Len(old) = Len(blocks) /\ Ends(old, end)
        BY <1>7 DEF SpilledTo
      <3>3. \A k \in 1 .. Len(blocks) : Len(old[k]) = Len(blocks[k])
        BY <1>7 DEF SpilledTo
      <3> QED BY <3>1, <3>2, <3>3 DEF SpilledTo, f
    <2>4. eb + m <= ec
      BY <1>5, <2>2
    <2>5. Spilled(st, blocks, end, b, data, c)
      BY <1>1, <1>4, <1>6, <1>7, <1>8, <2>3, <2>4 DEF Spilled
    <2> QED BY <2>1, <2>5
  <1>9. CASE ~st.done
    <2>1. RestAt(left, eb, data, ed)
      BY <1>1, <1>4, <1>9 DEF Spilled
    <2>2. eb <= ed
      <3>1. b \in 0 .. Len(blocks) /\ c - 1 \in 0 .. Len(blocks) /\ b <= c - 1
        BY <1>1, <1>2
      <3>2. end[b] <= end[c - 1]
        BY <3>1, EndsGrow
      <3> QED BY <1>4, <3>2
    <2>3. SpilledTo(w, blocks, end, eb, data, ec)
      <3>1. c \in 1 .. Len(blocks) /\ ed = end[c - 1]
        BY <1>1, <1>2, <1>4
      <3>2. SpilledTo(w, blocks, end, eb, data, end[c])
        BY <1>7, <2>1, <2>2, <3>1, SpillBytes
      <3> HIDE DEF w
      <3> QED BY <1>4, <3>2
    <2>4. Len(old[c]) = l
      BY <1>1, <1>2, <1>4, <1>7 DEF SpilledTo
    <2>5. ed <= eb + m /\ ed + r = eb + m /\ \A i \in 1 .. r : left[i] = data[(ed - eb) + i]
      BY <1>1, <2>1 DEF RestAt
    <2>6. w = [old EXCEPT ![c] = Copied(old[c], 0, left)]
      BY DEF Put
    <2>7. CASE r <= l
      <3>1. next = [blocks |-> w, rest |-> left, done |-> TRUE]
        <4>1. next = [st EXCEPT !.blocks[c] = Copied(old[c], 0, left), !.done = TRUE]
          BY <1>1, <1>9, <2>4, <2>7 DEF Into
        <4>2. st.blocks = old /\ st.rest = left
          BY <1>1
        <4> HIDE DEF next
        <4> QED BY <1>6, <2>6, <4>1, <4>2
      <3> HIDE DEF w, next
      <3>2. next.blocks = w /\ next.rest = left /\ next.done = TRUE
        BY <3>1
      <3>3. eb + m <= ec
        BY <1>5, <2>5, <2>7
      <3>4. Spilled(next, blocks, end, b, data, c)
        BY <1>1, <1>4, <1>7, <2>3, <3>1, <3>2, <3>3 DEF Spilled
      <3> QED BY <3>4 DEF next
    <2>8. CASE l < r
      <3> DEFINE rest == SubSeq(left, l - 0 + 1, r)
      <3>1. next = [blocks |-> w, rest |-> rest, done |-> FALSE]
        <4>1. next = [st EXCEPT !.blocks[c] = Copied(old[c], 0, left), !.rest = Left(old[c], 0, left)]
          BY <1>1, <1>9, <2>4, <2>8 DEF Into
        <4>2. Left(old[c], 0, left) = rest
          BY <1>1, <2>4 DEF Left
        <4>3. st.blocks = old /\ st.rest = left /\ st.done = FALSE
          BY <1>1, <1>6, <1>9
        <4> HIDE DEF next, rest
        <4> QED BY <1>6, <2>6, <4>1, <4>2, <4>3
      <3>2. /\ IsSequence(rest) /\ Len(rest) = r - l
            /\ \A i \in 1 .. r - l : rest[i] = left[l + i]
        <4>1. PICK a \in Nat : a = l - 0 + 1 /\ a = l + 1 /\ 1 <= a /\ a <= r /\ r <= Len(left)
          BY <1>1, <2>8
        <4>2. /\ IsSequence(SubSeq(left, a, r))
              /\ Len(SubSeq(left, a, r)) = IF a <= r THEN r - a + 1 ELSE 0
              /\ \A i \in 1 .. r - a + 1 : SubSeq(left, a, r)[i] = left[a + i - 1]
          BY <1>7, <4>1, SubSequence
        <4>3. IsSequence(rest) /\ Len(rest) = r - l
          BY <4>1, <4>2
        <4>4. ASSUME NEW i \in 1 .. r - l
              PROVE  rest[i] = left[l + i]
          <5>1. i \in 1 .. r - a + 1 /\ a + i - 1 = l + i
            BY <4>1
          <5> QED BY <4>1, <4>2, <5>1
        <4> QED BY <4>3, <4>4
      <3> HIDE DEF w, next, rest
      <3>3. next.blocks = w /\ next.rest = rest /\ next.done = FALSE
        BY <3>1
      <3>4. RestAt(rest, eb, data, ec)
        <4>1. PICK q \in Int : q = Len(rest) /\ q = r - l
          BY <3>2
        <4>2. ec <= eb + m /\ ec + q = eb + m
          BY <1>5, <2>5, <2>8, <4>1
        <4>3. ASSUME NEW i \in 1 .. q
              PROVE  rest[i] = data[(ec - eb) + i]
          <5>1. i \in 1 .. r - l /\ l + i \in 1 .. r /\ (ed - eb) + (l + i) = (ec - eb) + i
            BY <1>5, <2>8, <4>1
          <5>2. rest[i] = left[l + i] /\ left[l + i] = data[(ed - eb) + (l + i)]
            BY <2>5, <3>2, <5>1
          <5> QED BY <5>1, <5>2
        <4> QED BY <1>1, <3>2, <4>1, <4>2, <4>3 DEF RestAt
      <3>5. Spilled(next, blocks, end, b, data, c)
        <4>1. IsSequence(rest)
          BY <3>2
        <4> QED BY <1>4, <2>3, <3>1, <3>3, <3>4, <4>1 DEF Spilled
      <3> QED BY <3>5 DEF next
    <2> QED BY <2>7, <2>8
  <1> QED BY <1>6, <1>8, <1>9

\* The data goes behind block b, whatever is there, and further if it must.
LEMMA SpillWrites ==
    ASSUME NEW blocks, NEW end, NEW b, NEW data, IsSequences(blocks), Ends(blocks, end),
           b \in 1 .. Len(blocks), IsSequence(data)
    PROVE  /\ IsSequences(Spill(blocks, b, data))
           /\ Overwritten(FlattenSeq(blocks), FlattenSeq(Spill(blocks, b, data)), end[b], data)
  <1>1. PICK n \in Nat, m \in Nat : n = Len(blocks) /\ m = Len(data)
    <2>1. Len(blocks) \in Nat /\ Len(data) \in Nat
      BY DEF IsSequences, IsSequence
    <2> QED BY <2>1
  <1>2. b \in 1 .. n
    BY <1>1
  <1>0. PICK into : into = IntoFunction(blocks, b, data)
    OBVIOUS
  <1> DEFINE first == [blocks |-> blocks, rest |-> data, done |-> FALSE]
  <1>3. into[b] = first /\ \A c \in b + 1 .. n : into[c] = Into(into[c - 1], c)
    <2>1. n = Len(blocks) /\ b \in 1 .. n
      BY <1>1, <1>2
    <2> QED BY <1>0, <2>1, IntoExists
  <1>4. Spilled(first, blocks, end, b, data, b)
    BY SpillBegins
  <1> HIDE DEF first
  <1> DEFINE T == {k \in 0 .. n - b : Spilled(into[b + k], blocks, end, b, data, b + k)}
  <1>5. n - b \in Nat /\ b \in Nat
    BY <1>2
  <1>6. 0 \in T
    <2>1. 0 \in 0 .. n - b /\ b + 0 = b
      BY <1>5
    <2> QED BY <1>3, <1>4, <2>1
  <1>7. ASSUME NEW k \in 0 .. (n - b) - 1, k \in T
        PROVE  k + 1 \in T
    <2>1. PICK c \in Nat : c = b + (k + 1)
      BY <1>5
    <2>2. c - 1 = b + k /\ c \in b + 1 .. n /\ k + 1 \in 0 .. n - b
      BY <1>5, <2>1
    <2>3. Spilled(into[b + k], blocks, end, b, data, b + k)
      BY <1>7
    <2>4. PICK d : d = into[c - 1]
      OBVIOUS
    <2>5. Spilled(d, blocks, end, b, data, c - 1)
      BY <2>2, <2>3, <2>4
    <2>6. c \in b + 1 .. Len(blocks)
      BY <1>1, <2>2
    <2>7. Spilled(Into(d, c), blocks, end, b, data, c)
      BY <2>5, <2>6, SpillStep
    <2>8. into[c] = Into(d, c)
      BY <1>3, <2>2, <2>4
    <2> QED BY <2>1, <2>2, <2>7, <2>8
  <1>8. n - b \in T
    <2> HIDE DEF T
    <2>1. 0 .. n - b \subseteq T
      BY <1>5, <1>6, <1>7, Induction
    <2> QED BY <1>5, <2>1
  <1>9. PICK st : st = into[n] /\ Spilled(st, blocks, end, b, data, n)
    <2>1. b + (n - b) = n
      BY <1>5
    <2> QED BY <1>8, <2>1
  <1> HIDE DEF T
  <1> DEFINE grown == AddBlock(st.blocks, Len(st.rest))
             w     == [grown EXCEPT ![Len(grown)] = Copied(@, 0, st.rest)]
             f     == FlattenSeq(blocks)
             g     == FlattenSeq(st.blocks)
             h     == FlattenSeq(w)
  <1>10. Spill(blocks, b, data) = w
    <2>1. into = CHOOSE f0 : f0 = [c \in b .. Len(blocks) |->
                     IF c = b THEN [blocks |-> blocks, rest |-> data, done |-> FALSE] ELSE Into(f0[c - 1], c)]
      BY <1>0 DEF IntoFunction, IntoOf
    <2>2. into[Len(blocks)] = st
      BY <1>1, <1>9
    <2> QED BY <2>1, <2>2 DEF Spill, Into
  <1>11. /\ IsSequences(st.blocks) /\ Ends(st.blocks, end) /\ Len(st.blocks) = n /\ IsSequence(st.rest)
         /\ SpilledTo(st.blocks, blocks, end, end[b], data, end[n])
    BY <1>1, <1>9 DEF Spilled, SpilledTo
  <1>12. IsSequences(w) /\ Overwritten(g, h, Len(g), st.rest)
    BY <1>11, AddedBlock
  <1> HIDE DEF w
  <1>13. PICK eb \in Nat, en \in Nat : eb = end[b] /\ en = end[n] /\ eb <= en
    <2>1. /\ \A k \in 0 .. Len(blocks) : end[k] \in Nat
      BY EndsTyped
    <2>2. b \in 0 .. Len(blocks) /\ n \in 0 .. Len(blocks) /\ b <= n
      BY <1>1, <1>2
    <2>3. end[b] <= end[n]
      BY <2>2, EndsGrow
    <2> QED BY <2>1, <2>2, <2>3
  <1>14. Len(f) = en /\ Len(g) = en
    <2>1. Len(f) = end[Len(blocks)] /\ Len(g) = end[Len(st.blocks)]
      BY <1>11, FlattenPlaces
    <2> HIDE DEF f, g
    <2> QED BY <1>1, <1>11, <1>13, <2>1
  <1> HIDE DEF f, g, h
  <1>15. PICK r \in Nat : r = Len(st.rest)
    BY <1>11 DEF IsSequence
  <1>16. /\ IsSequence(h) /\ Len(h) >= en /\ Len(h) >= en + r
         /\ \A i \in 1 .. r : h[en + i] = st.rest[i]
         /\ \A i \in 1 .. en : h[i] = g[i]
    <2>1. /\ IsSequence(h) /\ Len(h) >= Len(g) /\ Len(h) >= Len(g) + Len(st.rest)
          /\ \A i \in 1 .. Len(st.rest) : h[Len(g) + i] = st.rest[i]
          /\ \A i \in 1 .. Len(g) : i <= Len(g) \/ Len(g) + Len(st.rest) < i => h[i] = g[i]
      BY <1>12 DEF Overwritten
    <2>2. \A i \in 1 .. en : i <= en
      OBVIOUS
    <2> QED BY <1>14, <1>15, <2>1, <2>2
  <1>17. \A i \in 1 .. en :
            /\ eb < i /\ i <= eb + m => g[i] = data[i - eb]
            /\ i <= eb \/ eb + m < i => g[i] = f[i]
    <2>1. \A i \in 1 .. Len(f) :
             /\ eb < i /\ i <= eb + Len(data) /\ i <= en => g[i] = data[i - eb]
             /\ i <= eb \/ eb + Len(data) < i \/ en < i => g[i] = f[i]
      BY <1>11, <1>13 DEF SpilledTo, f, g
    <2> QED BY <1>1, <1>14, <2>1
  <1>18. PICK l \in Nat : l = Len(h) /\ l >= en /\ l >= en + r
    BY <1>16 DEF IsSequence
  <1>19. /\ l >= eb + m
         /\ \A i \in 1 .. m : h[eb + i] = data[i]
    <2>1. CASE st.done
      <3>1. eb + m <= en
        BY <1>1, <1>9, <1>13, <2>1 DEF Spilled
      <3>2. ASSUME NEW i \in 1 .. m
            PROVE  h[eb + i] = data[i]
        <4>1. eb + i \in 1 .. en /\ eb < eb + i /\ eb + i <= eb + m /\ (eb + i) - eb = i
          BY <3>1
        <4> QED BY <1>16, <1>17, <4>1
      <3> QED BY <1>18, <3>1, <3>2
    <2>2. CASE ~st.done
      <3>1. /\ en <= eb + m /\ en + r = eb + m
            /\ \A i \in 1 .. r : st.rest[i] = data[(en - eb) + i]
        <4>1. RestAt(st.rest, eb, data, en)
          BY <1>9, <1>13, <2>2 DEF Spilled
        <4> QED BY <1>1, <1>15, <4>1 DEF RestAt
      <3>2. ASSUME NEW i \in 1 .. m
            PROVE  h[eb + i] = data[i]
        <4>1. CASE eb + i <= en
          <5>1. eb + i \in 1 .. en /\ eb < eb + i /\ eb + i <= eb + m /\ (eb + i) - eb = i
            BY <4>1
          <5> QED BY <1>16, <1>17, <5>1
        <4>2. CASE en < eb + i
          <5>1. PICK j \in Int : j = (eb + i) - en
            OBVIOUS
          <5>2. j \in 1 .. r /\ (en - eb) + j = i /\ en + j = eb + i
            BY <3>1, <4>2, <5>1
          <5>3. h[en + j] = st.rest[j] /\ st.rest[j] = data[(en - eb) + j]
            BY <1>16, <3>1, <5>2
          <5> QED BY <5>2, <5>3
        <4> QED BY <4>1, <4>2
      <3> QED BY <1>18, <3>1, <3>2
    <2> QED BY <2>1, <2>2
  <1>20. \A i \in 1 .. en : i <= eb \/ eb + m < i => h[i] = f[i]
    BY <1>16, <1>17
  <1>21. Overwritten(f, h, eb, data)
    BY <1>1, <1>14, <1>16, <1>18, <1>19, <1>20 DEF Overwritten
  <1>22. IsSequences(w) /\ Overwritten(FlattenSeq(blocks), FlattenSeq(w), end[b], data)
    BY <1>12, <1>13, <1>21 DEF f, h
  <1> QED BY <1>10, <1>22

LEMMA BeforeEnds ==
    ASSUME NEW blocks, NEW end, NEW b, IsSequences(blocks), Ends(blocks, end), b \in 1 .. Len(blocks) + 1
    PROVE  Before(blocks, b) = end[b - 1]
  <1>1. PICK n \in Nat : n = Len(blocks)
    BY DEF IsSequences, IsSequence
  <1>2. PICK k \in Nat : k = b - 1 /\ k <= n
    BY <1>1
  <1> DEFINE f == [j \in 1 .. k |-> blocks[j]]
             s == SubSeq(blocks, 1, k)
  <1>3. f = [j \in 1 .. k |-> f[j]] /\ \A j \in 1 .. k : f[j] = blocks[j]
    OBVIOUS
  <1>4. IsSequence(f) /\ Len(f) = k
    BY <1>3, FunctionSequence
  <1>5. IsSequence(s) /\ Len(s) = k /\ \A j \in 1 .. k : s[j] = blocks[j]
    <2>1. /\ IsSequence(s) /\ Len(s) = IF 1 <= k THEN k - 1 + 1 ELSE 0
          /\ \A i \in 1 .. k - 1 + 1 : s[i] = blocks[1 + i - 1]
      <3>1. IsSequence(blocks) /\ 1 \in Int /\ k \in Int /\ 1 <= 1 /\ k <= Len(blocks)
        BY <1>1, <1>2 DEF IsSequences
      <3> QED BY <3>1, SubSequence
    <2>2. ASSUME NEW j \in 1 .. k
          PROVE  s[j] = blocks[j]
      <3>1. j \in 1 .. k - 1 + 1 /\ 1 + j - 1 = j
        OBVIOUS
      <3> HIDE DEF s
      <3> QED BY <2>1, <3>1
    <2> HIDE DEF s
    <2> QED BY <2>1, <2>2
  <1> HIDE DEF f, s
  <1>6. f = s
    <2>1. Len(f) = Len(s) /\ \A i \in 1 .. Len(f) : f[i] = s[i]
      BY <1>3, <1>4, <1>5
    <2> QED BY <1>4, <1>5, <2>1, SameSequence
  <1>7. Len(FlattenSeq(f)) = end[k]
    <2>1. k \in 0 .. Len(blocks) /\ f = [j \in 1 .. k |-> blocks[j]]
      BY <1>1, <1>2 DEF f
    <2> QED BY <2>1, EndsOfPrefix
  <1>8. Before(blocks, b) = Len(FlattenSeq(s))
    BY <1>2 DEF Before, s
  <1> QED BY <1>2, <1>6, <1>7, <1>8

\* Buffer::Write puts the data where it should and nothing anywhere else, whether
\* it fits into its block, runs over into the next ones or begins behind the last,
\* for every division of the buffer into blocks.
THEOREM WriteWrites ==
    ASSUME NEW blocks, NEW from, NEW data, IsSequences(blocks), IsSequence(data),
           from \in Nat, from <= Len(FlattenSeq(blocks))
    PROVE  /\ IsSequences(Write(blocks, from, data))
           /\ Overwritten(FlattenSeq(blocks), FlattenSeq(Write(blocks, from, data)), from, data)
  <1>1. PICK end : Ends(blocks, end)
    BY EndsExist
  <1>2. PICK n \in Nat, m \in Nat : n = Len(blocks) /\ m = Len(data)
    <2>1. Len(blocks) \in Nat /\ Len(data) \in Nat
      BY DEF IsSequences, IsSequence
    <2> QED BY <2>1
  <1> DEFINE f == FlattenSeq(blocks)
  <1>3. IsSequence(f) /\ Len(f) = end[n]
    <2>1. IsSequence(f) /\ Len(f) = end[Len(blocks)]
      BY <1>1, FlattenPlaces
    <2> HIDE DEF f
    <2> QED BY <1>2, <2>1
  <1>4. \A k \in 1 .. n : \A j \in 1 .. Len(blocks[k]) : f[end[k - 1] + j] = blocks[k][j]
    <2>1. \A k \in 1 .. Len(blocks) : \A j \in 1 .. Len(blocks[k]) : f[end[k - 1] + j] = blocks[k][j]
      BY <1>1, FlattenPlaces
    <2> HIDE DEF f
    <2> QED BY <1>2, <2>1
  <1>5. /\ \A k \in 0 .. n : end[k] \in Nat
        /\ \A k \in 1 .. n : Len(blocks[k]) \in Nat /\ end[k] = end[k - 1] + Len(blocks[k])
    BY <1>1, <1>2, EndsTyped
  <1>6. \A c \in 1 .. n : Before(blocks, c) = end[c - 1] /\ Before(blocks, c + 1) = end[c]
    <2> TAKE c \in 1 .. n
    <2>1. c \in 1 .. Len(blocks) + 1 /\ c + 1 \in 1 .. Len(blocks) + 1
      BY <1>2
    <2>2. Before(blocks, c) = end[c - 1]
      BY <1>1, <2>1, BeforeEnds
    <2>3. PICK d : d = c + 1 /\ d - 1 = c
      OBVIOUS
    <2>4. Before(blocks, d) = end[d - 1]
      BY <1>1, <2>1, <2>3, BeforeEnds
    <2> QED BY <2>2, <2>3, <2>4
  <1>7. CASE Holding(blocks, from) # {}
    <2>1. PICK b : b = CHOOSE c \in Holding(blocks, from) : TRUE
      OBVIOUS
    <2>2. b \in Holding(blocks, from)
      BY <1>7, <2>1
    <2>3. b \in 1 .. n /\ from \in end[b - 1] .. end[b] - 1
      BY <1>2, <1>6, <2>2 DEF Holding
    <2>4. PICK ea \in Nat, eb \in Nat, l \in Nat, p \in Nat :
             ea = end[b - 1] /\ eb = end[b] /\ l = Len(blocks[b]) /\ p = from - ea
      <3>1. b - 1 \in 0 .. n /\ b \in 0 .. n
        BY <2>3
      <3>2. end[b - 1] \in Nat /\ end[b] \in Nat /\ Len(blocks[b]) \in Nat
        BY <1>5, <2>3, <3>1
      <3>3. from - end[b - 1] \in Nat
        BY <2>3, <3>2
      <3> QED BY <3>2, <3>3
    <2>5. eb = ea + l /\ ea <= from /\ from < eb /\ from = ea + p /\ p < l
      <3>1. eb = ea + l
        BY <1>5, <2>3, <2>4
      <3>2. ea <= from /\ from < eb
        BY <2>3, <2>4
      <3> QED BY <2>4, <3>1, <3>2
    <2> DEFINE new   == Copied(blocks[b], p, data)
               first == Put(blocks, b, new)
               g     == FlattenSeq(first)
    <2>6. Write(blocks, from, data) =
             IF l - p >= m THEN first ELSE Spill(first, b, Left(blocks[b], p, data))
      <3>1. Before(blocks, b) = ea
        BY <1>6, <2>3, <2>4
      <3>2. first = [blocks EXCEPT ![b] = Copied(@, p, data)]
        BY DEF Put
      <3> HIDE DEF first, new
      <3> QED BY <1>2, <1>7, <2>1, <2>4, <3>1, <3>2 DEF Write
    <2>7. /\ IsSequence(new) /\ Len(new) = l
          /\ \A i \in 1 .. l :
                /\ p < i /\ i <= p + m => new[i] = data[i - p]
                /\ i <= p \/ p + m < i => new[i] = blocks[b][i]
      <3>1. IsSequence(blocks[b])
        BY <1>2, <2>3 DEF IsSequences
      <3>2. /\ IsSequence(new) /\ Len(new) = Len(blocks[b])
            /\ \A i \in 1 .. Len(blocks[b]) :
                  /\ p < i /\ i <= p + Len(data) => new[i] = data[i - p]
                  /\ i <= p \/ p + Len(data) < i => new[i] = blocks[b][i]
        BY <3>1, CopiedBlock
      <3> HIDE DEF new
      <3> QED BY <1>2, <2>4, <3>2
    <2> HIDE DEF new
    <2>8. /\ IsSequences(first) /\ Len(first) = Len(blocks) /\ Ends(first, end)
          /\ IsSequence(g) /\ Len(g) = Len(f)
          /\ \A j \in 1 .. Len(new) : g[end[b - 1] + j] = new[j]
          /\ \A i \in 1 .. Len(f) : i <= end[b - 1] \/ end[b] < i => g[i] = f[i]
      <3>1. b \in 1 .. Len(blocks) /\ Len(new) = Len(blocks[b])
        BY <1>2, <2>3, <2>4, <2>7
      <3>2. IsSequence(new)
        BY <2>7
      <3> QED BY <1>1, <3>1, <3>2, FlattenPut
    <2>9. PICK L \in Nat : L = Len(f) /\ L >= eb
      <3>1. b \in 0 .. Len(blocks) /\ Len(blocks) \in 0 .. Len(blocks) /\ b <= Len(blocks)
        BY <1>2, <2>3
      <3>2. end[b] <= end[Len(blocks)]
        BY <1>1, <3>1, EndsGrow
      <3>3. n \in 0 .. n
        OBVIOUS
      <3> HIDE DEF f
      <3> QED BY <1>2, <1>3, <1>5, <2>4, <3>2, <3>3
    <2> HIDE DEF first, f, g
    <2>10. ASSUME NEW i \in 1 .. L
           PROVE  /\ from < i /\ i <= from + m /\ i <= eb => g[i] = data[i - from]
                  /\ i <= from \/ from + m < i \/ eb < i => g[i] = f[i]
      <3>1. CASE i <= ea \/ eb < i
        <4>1. g[i] = f[i]
          BY <2>4, <2>8, <2>9, <3>1
        <4>2. ~(from < i /\ i <= from + m /\ i <= eb)
          BY <2>5, <3>1
        <4> QED BY <4>1, <4>2
      <3>2. CASE ea < i /\ i <= eb
        <4>1. PICK j \in Int : j = i - ea
          OBVIOUS
        <4>2. j \in 1 .. l /\ ea + j = i
          BY <2>5, <3>2, <4>1
        <4>3. g[i] = new[j]
          <5>1. j \in 1 .. Len(new)
            BY <2>7, <4>2
          <5>2. g[end[b - 1] + j] = new[j]
            BY <2>8, <5>1
          <5> QED BY <2>4, <4>2, <5>2
        <4>4. CASE from < i /\ i <= from + m
          <5>1. p < j /\ j <= p + m /\ j - p = i - from
            BY <2>5, <4>2, <4>4
          <5>2. g[i] = data[i - from]
            BY <2>7, <4>2, <4>3, <5>1
          <5> QED BY <3>2, <4>4, <5>2
        <4>5. CASE i <= from \/ from + m < i
          <5>1. j <= p \/ p + m < j
            BY <2>5, <4>2, <4>5
          <5>2. new[j] = blocks[b][j]
            BY <2>7, <4>2, <5>1
          <5>3. f[i] = blocks[b][j]
            <6>1. j \in 1 .. Len(blocks[b])
              BY <2>4, <4>2
            <6>2. f[end[b - 1] + j] = blocks[b][j]
              BY <1>4, <2>3, <6>1
            <6> QED BY <2>4, <4>2, <6>2
          <5> QED BY <4>3, <4>5, <5>2, <5>3
        <4> QED BY <4>4, <4>5
      <3> QED BY <3>1, <3>2
    <2>11. CASE l - p >= m
      <3>1. from + m <= eb
        BY <2>5, <2>11
      <3>2. ASSUME NEW i \in 1 .. m
            PROVE  g[from + i] = data[i]
        <4>1. from + i \in 1 .. L /\ from < from + i /\ from + i <= from + m /\ from + i <= eb
              /\ (from + i) - from = i
          BY <2>9, <3>1
        <4> QED BY <2>10, <4>1
      <3>3. \A i \in 1 .. L : i <= from \/ from + m < i => g[i] = f[i]
        BY <2>10
      <3>4. Len(g) = L /\ L >= from + m
        BY <2>8, <2>9, <3>1
      <3>5. Overwritten(f, g, from, data)
        <4>1. IsSequence(g)
          BY <2>8
        <4>2. Len(g) >= Len(f) /\ Len(g) >= from + Len(data)
          BY <1>2, <2>9, <3>4
        <4> QED BY <1>2, <2>9, <3>2, <3>3, <4>1, <4>2 DEF Overwritten
      <3>6. Write(blocks, from, data) = first
        BY <2>6, <2>11
      <3> QED BY <2>8, <3>5, <3>6 DEF f, g
    <2>12. CASE l - p < m
      <3> DEFINE left == SubSeq(data, l - p + 1, m)
                 w    == Spill(first, b, left)
                 h    == FlattenSeq(w)
      <3>1. Write(blocks, from, data) = w
        <4>1. Left(blocks[b], p, data) = left
          BY <1>2, <2>4 DEF Left
        <4>2. ~(l - p >= m)
          BY <2>12
        <4> HIDE DEF left
        <4> QED BY <2>6, <4>1, <4>2
      <3>2. PICK q \in Nat : q = l - p /\ q < m /\ from + q = eb
        BY <2>5, <2>12
      <3>3. IsSequence(left) /\ Len(left) = m - q /\ \A i \in 1 .. m - q : left[i] = data[q + i]
        <4>1. PICK a \in Nat : a = q + 1 /\ left = SubSeq(data, a, m) /\ 1 <= a /\ a <= m /\ m <= Len(data)
          BY <1>2, <3>2
        <4>2. /\ IsSequence(SubSeq(data, a, m))
              /\ Len(SubSeq(data, a, m)) = IF a <= m THEN m - a + 1 ELSE 0
              /\ \A i \in 1 .. m - a + 1 : SubSeq(data, a, m)[i] = data[a + i - 1]
          <5>1. IsSequence(data) /\ a \in Int /\ m \in Int /\ 1 <= a /\ m <= Len(data)
            BY <4>1
          <5> HIDE DEF left
          <5> QED BY <5>1, SubSequence
        <4>3. ASSUME NEW i \in 1 .. m - q
              PROVE  left[i] = data[q + i]
          <5>1. i \in 1 .. m - a + 1 /\ a + i - 1 = q + i
            BY <4>1
          <5> QED BY <4>1, <4>2, <5>1
        <4> HIDE DEF left
        <4> QED BY <4>1, <4>2, <4>3
      <3> HIDE DEF left
      <3>4. IsSequences(w) /\ Overwritten(g, h, end[b], left)
        <4>1. b \in 1 .. Len(first) /\ IsSequences(first) /\ Ends(first, end)
          BY <1>2, <2>3, <2>8
        <4> QED BY <3>3, <4>1, SpillWrites DEF g
      <3> HIDE DEF w, h
      <3>5. PICK r \in Nat : r = Len(left) /\ r = m - q /\ eb + r = from + m
        BY <3>2, <3>3
      <3>6. /\ IsSequence(h) /\ Len(h) >= L /\ Len(h) >= eb + r
            /\ \A i \in 1 .. r : h[eb + i] = left[i]
            /\ \A i \in 1 .. L : i <= eb \/ eb + r < i => h[i] = g[i]
        <4>1. /\ IsSequence(h) /\ Len(h) >= Len(g) /\ Len(h) >= end[b] + Len(left)
              /\ \A i \in 1 .. Len(left) : h[end[b] + i] = left[i]
              /\ \A i \in 1 .. Len(g) : i <= end[b] \/ end[b] + Len(left) < i => h[i] = g[i]
          BY <3>4 DEF Overwritten
        <4> QED BY <2>4, <2>8, <2>9, <3>5, <4>1
      <3>7. ASSUME NEW i \in 1 .. m
            PROVE  h[from + i] = data[i]
        <4>1. CASE i <= q
          <5>1. from + i \in 1 .. L /\ from < from + i /\ from + i <= from + m /\ from + i <= eb
                /\ (from + i) - from = i
            BY <2>9, <3>2, <4>1
          <5> QED BY <2>10, <3>6, <5>1
        <4>2. CASE q < i
          <5>1. PICK j \in Int : j = i - q
            OBVIOUS
          <5>2. j \in 1 .. r /\ j \in 1 .. m - q /\ eb + j = from + i /\ q + j = i
            BY <3>2, <3>5, <4>2, <5>1
          <5>3. h[eb + j] = left[j] /\ left[j] = data[q + j]
            BY <3>3, <3>6, <5>2
          <5> QED BY <5>2, <5>3
        <4> QED BY <3>2, <4>1, <4>2
      <3>8. ASSUME NEW i \in 1 .. L, i <= from \/ from + m < i
            PROVE  h[i] = f[i]
        <4>1. i <= eb \/ eb + r < i
          BY <2>5, <3>5, <3>8
        <4> QED BY <2>10, <3>6, <3>8, <4>1
      <3>9. Overwritten(f, h, from, data)
        <4>1. Len(h) >= Len(f) /\ Len(h) >= from + Len(data)
          BY <1>2, <2>9, <3>5, <3>6
        <4> QED BY <1>2, <2>9, <3>6, <3>7, <3>8, <4>1 DEF Overwritten
      <3> QED BY <3>1, <3>4, <3>9 DEF f, h
    <2> QED BY <2>11, <2>12
  <1>8. CASE Holding(blocks, from) = {}
    <2> DEFINE grown == AddBlock(blocks, Len(data))
               w     == [grown EXCEPT ![Len(grown)] = Copied(@, 0, data)]
    <2>1. from = Len(f)
      <3>1. SUFFICES ASSUME from # Len(f) PROVE FALSE
        OBVIOUS
      <3>2. from + 1 \in 1 .. end[Len(blocks)]
        <4>1. end[Len(blocks)] \in Nat /\ end[Len(blocks)] = Len(f)
          <5>1. n \in 0 .. n
            OBVIOUS
          <5> HIDE DEF f
          <5> QED BY <1>2, <1>3, <1>5, <5>1
        <4> QED BY <3>1, <4>1
      <3>3. PICK i : i = from + 1 /\ i \in 1 .. end[Len(blocks)]
        BY <3>2
      <3>4. PICK k \in 1 .. Len(blocks) : \E j \in 1 .. Len(blocks[k]) : i = end[k - 1] + j
        BY <1>1, <3>3, EndsFind
      <3>5. PICK j \in 1 .. Len(blocks[k]) : i = end[k - 1] + j
        BY <3>4
      <3>6. k \in 1 .. n /\ k - 1 \in 0 .. n
        BY <1>2
      <3>7. PICK ea \in Nat, l \in Nat : ea = end[k - 1] /\ l = Len(blocks[k]) /\ end[k] = ea + l
        BY <1>5, <3>6
      <3>8. from \in ea .. (ea + l) - 1
        BY SMTT(60), <3>3, <3>5, <3>7
      <3>9. k \in Holding(blocks, from)
        BY <1>2, <1>6, <3>6, <3>7, <3>8 DEF Holding
      <3> QED BY <1>8, <3>9
    <2>2. IsSequences(w) /\ Overwritten(FlattenSeq(blocks), FlattenSeq(w), Len(FlattenSeq(blocks)), data)
      BY AddedBlock
    <2>3. Write(blocks, from, data) = w
      <3>1. PICK new : /\ \A bs : AddBlock(bs, m) = Append(bs, new)
                       /\ IsSequence(new) /\ Len(new) >= m /\ Len(new) \in Nat
        BY NewBlock
      <3>2. grown = Append(blocks, new)
        BY <1>2, <3>1
      <3>3. grown[Len(grown)] = new
        <4>1. IsSequence(blocks)
          BY DEF IsSequences
        <4>2. Len(Append(blocks, new)) = Len(blocks) + 1 /\ Append(blocks, new)[Len(blocks) + 1] = new
          BY <4>1, AppendSequence
        <4> HIDE DEF grown
        <4> QED BY <3>2, <4>2
      <3>4. Len(grown[Len(grown)]) - 0 >= m
        BY <3>1, <3>3
      <3> QED BY <1>2, <1>8, <3>4 DEF Write
    <2> HIDE DEF w, f
    <2> QED BY <2>1, <2>2, <2>3 DEF f
  <1> QED BY <1>7, <1>8

-----------------------------------------------------------------------------
(* The chunks of a file                                                    *)

\* Where the first n chunks of a file end.
Sums(chunks, n, E) ==
    /\ E[0] = 0
    /\ \A i \in 1 .. n : /\ chunks[i].length \in Nat /\ E[i] \in Nat
                         /\ E[i] = E[i - 1] + chunks[i].length

LengthOf(chunks, f) == [i \in 0 .. Len(chunks) |-> IF i = 0 THEN 0 ELSE f[i - 1] + chunks[i].length]

LengthFunction(chunks) == CHOOSE f : f = LengthOf(chunks, f)

LEMMA LengthIs ==
    ASSUME NEW chunks, NEW n \in Nat, n = Len(chunks), NEW E, Sums(chunks, n, E)
    PROVE  Length(chunks) = E[n]
  <1>1. Length(chunks) = LengthFunction(chunks)[n]
    BY DEF Length, LengthFunction, LengthOf
  <1> DEFINE g    == [i \in 0 .. n |-> E[i]]
             R(f) == [i \in 0 .. n |-> IF i = 0 THEN 0 ELSE f[i - 1] + chunks[i].length]
             F    == LengthFunction(chunks)
  <1>2. g = R(g)
    <2>1. ASSUME NEW i \in 0 .. n
          PROVE  E[i] = IF i = 0 THEN 0 ELSE g[i - 1] + chunks[i].length
      <3>1. CASE i = 0
        BY <3>1 DEF Sums
      <3>2. CASE i # 0
        <4>1. i \in 1 .. n /\ i - 1 \in 0 .. n
          BY <3>2
        <4>2. g[i - 1] = E[i - 1]
          BY <4>1
        <4> HIDE DEF g
        <4> QED BY <3>2, <4>1, <4>2 DEF Sums
      <3> QED BY <3>1, <3>2
    <2> QED BY <2>1
  <1>3. \A f : LengthOf(chunks, f) = R(f)
    BY DEF LengthOf
  <1> HIDE DEF g
  <1>4. F = R(F)
    <2>1. g = LengthOf(chunks, g)
      BY <1>2, <1>3
    <2>2. F = LengthOf(chunks, F)
      BY <2>1 DEF LengthFunction
    <2> HIDE DEF F, R
    <2> QED BY <1>3, <2>2
  <1> HIDE DEF F
  <1>5. \A i \in 0 .. n : F[i] = IF i = 0 THEN 0 ELSE F[i - 1] + chunks[i].length
    BY <1>4
  <1> DEFINE T == {k \in 0 .. n : F[k] = E[k]}
  <1>6. 0 \in T
    BY <1>5 DEF Sums
  <1>7. ASSUME NEW k \in 0 .. (n - 1), k \in T
        PROVE  k + 1 \in T
    <2>1. PICK h \in 1 .. n : h = k + 1 /\ h - 1 = k /\ h # 0 /\ h \in 0 .. n
      <3>1. k + 1 \in 1 .. n /\ k + 1 - 1 = k /\ k + 1 # 0 /\ k + 1 \in 0 .. n
        OBVIOUS
      <3> QED BY <3>1
    <2>2. F[h - 1] = E[h - 1]
      BY <1>7, <2>1
    <2>3. F[h] = F[h - 1] + chunks[h].length /\ E[h] = E[h - 1] + chunks[h].length
      BY <1>5, <2>1 DEF Sums
    <2> QED BY <2>1, <2>2, <2>3
  <1>8. n \in T
    <2>1. 0 .. n \subseteq T
      <3> HIDE DEF T
      <3> QED BY <1>6, <1>7, Induction
    <2> QED BY <2>1
  <1> QED BY <1>1, <1>8 DEF F

LEMMA AtIs ==
    ASSUME NEW chunks, IsSequence(chunks), NEW n \in Nat, n = Len(chunks), NEW E, Sums(chunks, n, E),
           NEW k \in 1 .. n
    PROVE  At(chunks, k) = E[k - 1]
  <1>1. PICK h \in 0 .. n : h = k - 1 /\ h \in Nat /\ h \in Int /\ h <= n
    <2>1. k - 1 \in 0 .. n /\ k - 1 \in Nat /\ k - 1 \in Int /\ k - 1 <= n
      OBVIOUS
    <2> QED BY <2>1
  <1> DEFINE s == SubSeq(chunks, 1, h)
  <1>2. /\ IsSequence(s) /\ Len(s) = (IF 1 <= h THEN h - 1 + 1 ELSE 0)
        /\ \A i \in 1 .. h - 1 + 1 : s[i] = chunks[1 + i - 1]
    BY <1>1, SubSequence
  <1>3. (IF 1 <= h THEN h - 1 + 1 ELSE 0) = h /\ h - 1 + 1 = h /\ \A i \in 1 .. h : 1 + i - 1 = i /\ i \in 1 .. n
    BY <1>1
  <1> HIDE DEF s
  <1>4. Len(s) = h /\ \A i \in 1 .. h : s[i] = chunks[i]
    BY <1>2, <1>3
  <1>5. Sums(s, h, E)
    BY <1>3, <1>4 DEF Sums
  <1>6. Length(s) = E[h]
    BY <1>1, <1>4, <1>5, LengthIs
  <1> QED BY <1>1, <1>6 DEF At, s

LEMMA SumsOrder ==
    ASSUME NEW chunks, NEW n \in Nat, NEW E, Sums(chunks, n, E)
    PROVE  /\ \A k \in 0 .. n : E[k] \in Nat
           /\ \A j, k \in 0 .. n : j <= k => E[j] <= E[k]
  <1>1. \A k \in 0 .. n : E[k] \in Nat
    <2> TAKE k \in 0 .. n
    <2>1. k = 0 \/ k \in 1 .. n
      OBVIOUS
    <2> QED BY <2>1 DEF Sums
  <1> DEFINE T == {k \in 0 .. n : \A j \in 0 .. n : j <= k => E[j] <= E[k]}
  <1>2. 0 \in T
    BY DEF Sums
  <1>3. ASSUME NEW k \in 0 .. (n - 1), k \in T
        PROVE  k + 1 \in T
    <2>1. PICK h \in 1 .. n : h = k + 1 /\ h - 1 = k /\ k \in 0 .. n /\ h \in 0 .. n
      <3>1. k + 1 \in 1 .. n /\ k + 1 - 1 = k /\ k \in 0 .. n /\ k + 1 \in 0 .. n
        OBVIOUS
      <3> QED BY <3>1
    <2>2. PICK x \in Nat, y \in Nat, z \in Nat : x = E[k] /\ y = E[h] /\ y = x + z
      <3>1. E[k] \in Nat /\ E[h] \in Nat /\ chunks[h].length \in Nat
        BY <1>1, <2>1 DEF Sums
      <3>2. E[h] = E[k] + chunks[h].length
        BY <2>1 DEF Sums
      <3> QED BY <3>1, <3>2
    <2>3. ASSUME NEW j \in 0 .. n, j <= h
          PROVE  E[j] <= E[h]
      <3>1. CASE j = h
        <4>1. y <= y
          OBVIOUS
        <4> QED BY <2>2, <3>1, <4>1
      <3>2. CASE j # h
        <4>1. j <= k /\ j \in 0 .. n /\ k \in 0 .. n
          BY <2>1, <2>3, <3>2
        <4>2. PICK w \in Nat : w = E[j]
          BY <1>1
        <4>5. E[j] <= E[k]
          BY <1>3, <4>1
        <4>3. w <= x
          BY <2>2, <4>2, <4>5
        <4>4. w <= y
          BY <2>2, <4>3
        <4> QED BY <2>2, <4>2, <4>4
      <3> QED BY <3>1, <3>2
    <2>4. h \in T
      BY <2>1, <2>3
    <2> HIDE DEF T
    <2> QED BY <2>1, <2>4
  <1>4. 0 .. n \subseteq T
    <2> HIDE DEF T
    <2> QED BY <1>2, <1>3, Induction
  <1> QED BY <1>1, <1>4

\* Two chunks that start together and are not empty are one.
LEMMA ChunksApart ==
    ASSUME NEW chunks, NEW n \in Nat, NEW E, Sums(chunks, n, E), NEW j \in 1 .. n, NEW k \in 1 .. n,
           E[j - 1] = E[k - 1], chunks[j].length > 0, chunks[k].length > 0
    PROVE  j = k
  <1>1. ASSUME NEW a \in 1 .. n, NEW b \in 1 .. n, a < b, E[a - 1] = E[b - 1], chunks[a].length > 0
        PROVE  FALSE
    <2>1. PICK c \in 0 .. n, d \in 0 .. n : c = a - 1 /\ d = b - 1 /\ a <= d
      <3>1. a - 1 \in 0 .. n /\ b - 1 \in 0 .. n /\ a <= b - 1
        BY <1>1
      <3> QED BY <3>1
    <2>2. a \in 0 .. n
      OBVIOUS
    <2>3. PICK x \in Nat, y \in Nat, z \in Nat : x = E[a] /\ y = E[d] /\ z = E[c]
      BY <2>2, SumsOrder
    <2>4. x <= y
      BY <2>1, <2>2, <2>3, SumsOrder
    <2>5. PICK u \in Nat : u = chunks[a].length /\ x = z + u
      BY <2>1, <2>3 DEF Sums
    <2>6. z = y
      BY <1>1, <2>1, <2>3
    <2> QED BY <1>1, <2>4, <2>5, <2>6
  <1>2. j < k \/ k < j \/ j = k
    OBVIOUS
  <1> QED BY <1>1, <1>2

LEMMA Smallest ==
    ASSUME NEW S \in SUBSET Nat, NEW m \in S
    PROVE  \E i \in S : \A j \in S : i <= j
  <1> DEFINE Q == \E i \in S : \A j \in S : i <= j
             T == {k \in 0 .. m : Q \/ \A j \in S : k <= j}
  <1> HIDE DEF Q
  <1>1. 0 \in T
    OBVIOUS
  <1>2. ASSUME NEW k \in 0 .. (m - 1), k \in T
        PROVE  k + 1 \in T
    <2>1. k + 1 \in 0 .. m
      OBVIOUS
    <2>2. CASE Q
      BY <2>1, <2>2
    <2>3. CASE ~Q
      <3>1. \A j \in S : k <= j
        BY <1>2, <2>3
      <3>2. k \notin S
        BY <2>3, <3>1 DEF Q
      <3>3. \A j \in S : k + 1 <= j
        BY <3>1, <3>2
      <3> QED BY <2>1, <3>3
    <2> QED BY <2>2, <2>3
  <1>3. 0 .. m \subseteq T
    <2> HIDE DEF T
    <2> QED BY <1>1, <1>2, Induction
  <1>4. Q \/ \A j \in S : m <= j
    BY <1>3
  <1> QED BY <1>4 DEF Q

\* Whatever a pointer may be taken to point at is what chunk k is.
Only(chunks, n, E, k) ==
    \A j \in 1 .. n : E[j - 1] = E[k - 1] /\ chunks[j].kind = chunks[k].kind /\ chunks[j].length = chunks[k].length
                       => chunks[j] = chunks[k]

\* The chunk that is looked for.
LEMMA ChunkFound ==
    ASSUME NEW chunks, IsSequence(chunks), NEW n \in Nat, n = Len(chunks), NEW E, Sums(chunks, n, E),
           NEW k \in 1 .. n, Only(chunks, n, E, k), NEW missing
    PROVE  Chunk(chunks, E[k - 1], chunks[k].kind, chunks[k].length, missing) = chunks[k]
  <1> DEFINE where  == E[k - 1]
             kind   == chunks[k].kind
             length == chunks[k].length
  <1> DEFINE found == {i \in 1 .. n : At(chunks, i) = where /\ chunks[i].kind = kind /\ chunks[i].length = length}
  <1>1. found = {i \in 1 .. n : E[i - 1] = where /\ chunks[i].kind = kind /\ chunks[i].length = length}
    BY AtIs
  <1>2. k \in found /\ found \in SUBSET Nat
    BY <1>1
  <1>3. Chunk(chunks, where, kind, length, missing) =
           IF found = {} THEN missing ELSE chunks[CHOOSE i \in found : \A j \in found : i <= j]
    BY DEF Chunk
  <1>4. \A j \in found : chunks[j] = chunks[k]
    BY <1>1 DEF Only
  <1> HIDE DEF found
  <1>5. (CHOOSE i \in found : \A j \in found : i <= j) \in found
    BY <1>2, Smallest
  <1> QED BY <1>2, <1>3, <1>4, <1>5

-----------------------------------------------------------------------------
(* The offsets of an executable                                            *)

\* A function that adds up.
Total(f, n, c, add) ==
    /\ f[1] = c
    /\ \A i \in 1 .. n : f[i] \in Nat
    /\ \A i \in 1 .. n : i # 1 => f[i] = f[i - 1] + add[i - 1]

LEMMA TotalExists ==
    ASSUME NEW n \in Nat \ {0}, NEW c \in Nat, NEW add, \A i \in 1 .. n : i # n => add[i] \in Nat
    PROVE  \E g : g = [i \in 1 .. n |-> g[i]] /\ Total(g, n, c, add)
  <1> DEFINE G == [e \in Nat \X (1 .. n) |-> IF e[2] = 1 THEN c ELSE e[1] + add[e[2] - 1]]
  <1>1. \A i \in 1 .. n : i # 1 => i - 1 \in 1 .. n /\ i - 1 # n
    OBVIOUS
  <1>2. \A i \in 1 .. n : i # 1 => add[i - 1] \in Nat
    BY <1>1
  <1>3. \A x \in Nat : \A i \in 1 .. n : G[<< x, i >>] = IF i = 1 THEN c ELSE x + add[i - 1]
    OBVIOUS
  <1>4. G \in [Nat \X (1 .. n) -> Nat]
    <2>1. ASSUME NEW x \in Nat, NEW i \in 1 .. n
          PROVE  (IF i = 1 THEN c ELSE x + add[i - 1]) \in Nat
      <3>1. CASE i = 1
        BY <3>1
      <3>2. CASE i # 1
        <4>1. PICK y \in Nat : y = add[i - 1]
          BY <1>2, <3>2
        <4> QED BY <3>2, <4>1
      <3> QED BY <3>1, <3>2
    <2> QED BY <2>1
  <1> HIDE DEF G
  <1>5. PICK F \in [0 .. n -> Nat] : Recursive(F, 0, n, G)
    BY <1>4, Recursion
  <1> DEFINE g == [i \in 1 .. n |-> F[i]]
  <1>6. g = [i \in 1 .. n |-> g[i]] /\ \A i \in 1 .. n : g[i] = F[i]
    OBVIOUS
  <1> HIDE DEF g
  <1>7. \A i \in 1 .. n : F[i] = IF i = 1 THEN c ELSE F[i - 1] + add[i - 1]
    <2> TAKE i \in 1 .. n
    <2>1. PICK h \in 0 .. n : h = i - 1 /\ i \in 0 .. n /\ i # 0
      <3>1. i - 1 \in 0 .. n /\ i \in 0 .. n /\ i # 0
        OBVIOUS
      <3> QED BY <3>1
    <2>2. F[i] = G[<< F[h], i >>]
      BY <1>5, <2>1 DEF Recursive
    <2>3. F[h] \in Nat
      OBVIOUS
    <2> QED BY <1>3, <2>1, <2>2, <2>3
  <1>8. ASSUME NEW i \in 1 .. n, i # 1
        PROVE  g[i] = g[i - 1] + add[i - 1]
    <2>1. i - 1 \in 1 .. n
      BY <1>1, <1>8
    <2> QED BY <1>6, <1>7, <1>8, <2>1
  <1>9. g[1] = c
    <2>1. 1 \in 1 .. n
      OBVIOUS
    <2> QED BY <1>6, <1>7, <2>1
  <1>10. \A i \in 1 .. n : g[i] \in Nat
    <2>1. \A i \in 1 .. n : i \in 0 .. n
      OBVIOUS
    <2> QED BY <1>6, <2>1
  <1> QED BY <1>6, <1>8, <1>9, <1>10 DEF Total

LEMMA TotalIs ==
    ASSUME NEW n \in Nat \ {0}, NEW c \in Nat, NEW add, \A i \in 1 .. n : i # n => add[i] \in Nat,
           NEW f, f[1] = c, \A i \in 1 .. n : i # 1 /\ f[i - 1] \in Nat => f[i] = f[i - 1] + add[i - 1]
    PROVE  Total(f, n, c, add)
  <1> DEFINE T == {k \in 0 .. (n - 1) : f[k + 1] \in Nat}
  <1>1. PICK m \in Nat : m = n - 1
    <2>1. n - 1 \in Nat
      OBVIOUS
    <2> QED BY <2>1
  <1>2. 0 \in T
    OBVIOUS
  <1>3. ASSUME NEW k \in 0 .. (m - 1), k \in T
        PROVE  k + 1 \in T
    <2>1. PICK h \in 1 .. n : /\ h = k + 1 /\ h + 1 \in 1 .. n /\ h + 1 # 1 /\ h # n /\ h + 1 - 1 = h
                              /\ h \in 0 .. (n - 1)
      <3>1. /\ k + 1 \in 1 .. n /\ k + 1 + 1 \in 1 .. n /\ k + 1 + 1 # 1 /\ k + 1 # n /\ k + 1 + 1 - 1 = k + 1
            /\ k + 1 \in 0 .. (n - 1)
        BY <1>1
      <3> QED BY <3>1
    <2>2. f[h] \in Nat
      BY <1>3, <2>1
    <2>3. f[h + 1] = f[h] + add[h]
      BY <2>1, <2>2
    <2>4. PICK x \in Nat, y \in Nat : x = f[h] /\ y = add[h]
      BY <2>1, <2>2
    <2>5. f[h + 1] \in Nat
      BY <2>3, <2>4
    <2> QED BY <2>1, <2>5
  <1>4. \A k \in 0 .. m : f[k + 1] \in Nat
    <2>1. 0 .. m \subseteq T
      <3> HIDE DEF T
      <3> QED BY <1>2, <1>3, Induction
    <2> QED BY <2>1
  <1>5. \A i \in 1 .. n : f[i] \in Nat
    <2> TAKE i \in 1 .. n
    <2>1. i - 1 \in 0 .. m /\ i - 1 + 1 = i
      BY <1>1
    <2> QED BY <1>4, <2>1
  <1>6. \A i \in 1 .. n : i # 1 => f[i] = f[i - 1] + add[i - 1]
    <2> TAKE i \in 1 .. n
    <2> HAVE i # 1
    <2>1. i - 1 \in 1 .. n
      OBVIOUS
    <2> QED BY <1>5, <2>1
  <1> QED BY <1>5, <1>6 DEF Total

OffsetsOf(progs, f) ==
    [i \in 1 .. Len(progs) |->
        AlignUp(IF i = 1 THEN EhdrSize + PhdrSize * Len(progs)
                         ELSE f[i - 1] + progs[i - 1].filesz, progs[i].align)]

\* Where the assembler's alignment is 1, the data stand without a gap.
LEMMA DataOffsetsAre ==
    ASSUME NEW n \in Nat \ {0}, NEW progs, n = Len(progs),
           \A i \in 1 .. n : progs[i].filesz \in Nat /\ progs[i].align = 1, NEW add,
           \A i \in 1 .. n : add[i] = progs[i].filesz
    PROVE  Total(DataOffsets(progs), n, 64 + 56 * n, add)
  <1> DEFINE o    == DataOffsets(progs)
             c    == 64 + 56 * n
  <1>1. o = CHOOSE f : f = OffsetsOf(progs, f)
    BY DEF DataOffsets, OffsetsOf
  <1>2. c \in Nat /\ c = EhdrSize + PhdrSize * n
    BY DEF EhdrSize, PhdrSize
  <1>3. \A x \in Nat : AlignUp(x, 1) = x
    <2>1. \A x \in Nat : x + ((-x) % 1) = x
      OBVIOUS
    <2> QED BY <2>1 DEF AlignUp
  <1>4. \A f : OffsetsOf(progs, f) =
           [i \in 1 .. n |-> AlignUp(IF i = 1 THEN c ELSE f[i - 1] + add[i - 1], 1)]
    <2> TAKE f
    <2>1. ASSUME NEW i \in 1 .. n
          PROVE  AlignUp(IF i = 1 THEN EhdrSize + PhdrSize * n ELSE f[i - 1] + progs[i - 1].filesz, progs[i].align)
                   = AlignUp(IF i = 1 THEN c ELSE f[i - 1] + add[i - 1], 1)
      <3>1. i # 1 => i - 1 \in 1 .. n
        OBVIOUS
      <3>2. progs[i].align = 1
        OBVIOUS
      <3>3. i # 1 => f[i - 1] + progs[i - 1].filesz = f[i - 1] + add[i - 1]
        BY <3>1
      <3> HIDE DEF c
      <3> QED BY <1>2, <3>2, <3>3
    <2> HIDE DEF c
    <2> QED BY <2>1 DEF OffsetsOf
  <1> HIDE DEF c
  <1>5. \A i \in 1 .. n : i # n => add[i] \in Nat
    OBVIOUS
  <1>6. PICK g : g = [i \in 1 .. n |-> g[i]] /\ Total(g, n, c, add)
    BY <1>2, <1>5, TotalExists
  <1>7. ASSUME NEW i \in 1 .. n
        PROVE  g[i] = AlignUp(IF i = 1 THEN c ELSE g[i - 1] + add[i - 1], 1)
    <2>1. g[i] = (IF i = 1 THEN c ELSE g[i - 1] + add[i - 1]) /\ g[i] \in Nat
      BY <1>6 DEF Total
    <2> QED BY <1>3, <2>1
  <1>8. g = OffsetsOf(progs, g)
    <2>1. [i \in 1 .. n |-> g[i]] = [i \in 1 .. n |-> AlignUp(IF i = 1 THEN c ELSE g[i - 1] + add[i - 1], 1)]
      BY <1>7
    <2> QED BY <1>4, <1>6, <2>1
  <1> HIDE DEF o
  <1>9. o = OffsetsOf(progs, o)
    BY <1>1, <1>8
  <1>10. o = [i \in 1 .. n |-> AlignUp(IF i = 1 THEN c ELSE o[i - 1] + add[i - 1], 1)]
    BY <1>4, <1>9
  <1>11. \A i \in 1 .. n : o[i] = AlignUp(IF i = 1 THEN c ELSE o[i - 1] + add[i - 1], 1)
    BY <1>10
  <1>12. o[1] = c
    <2>1. 1 \in 1 .. n
      OBVIOUS
    <2> QED BY <1>2, <1>3, <1>11, <2>1
  <1>13. ASSUME NEW i \in 1 .. n, i # 1, o[i - 1] \in Nat
         PROVE  o[i] = o[i - 1] + add[i - 1]
    <2>1. PICK h \in 1 .. n : h = i - 1 /\ h # n
      <3>1. i - 1 \in 1 .. n /\ i - 1 # n
        BY <1>13
      <3> QED BY <3>1
    <2>2. PICK x \in Nat, y \in Nat : x = o[i - 1] /\ y = add[i - 1]
      BY <1>5, <1>13, <2>1
    <2>3. o[i] = AlignUp(x + y, 1)
      BY <1>11, <1>13, <2>2
    <2>4. x + y \in Nat
      OBVIOUS
    <2> QED BY <1>3, <2>2, <2>3, <2>4
  <1>14. Total(o, n, c, add)
    BY <1>2, <1>5, <1>12, <1>13, TotalIs
  <1> QED BY <1>14 DEF o, c

NamesOf(secs, f) ==
    [i \in 1 .. Len(secs) + 1 |->
        IF i = 1 THEN 1
        ELSE f[i - 1] + IF secs[i - 1].name.length > 0 THEN secs[i - 1].name.length + 1 ELSE 0]

LEMMA NameOffsetsAre ==
    ASSUME NEW n \in Nat, NEW secs, n = Len(secs), NEW add,
           \A i \in 1 .. n : secs[i].name.length \in Nat \ {0} /\ add[i] = secs[i].name.length + 1
    PROVE  Total(NameOffsets(secs), n + 1, 1, add)
  <1> DEFINE o == NameOffsets(secs)
  <1>1. o = CHOOSE f : f = NamesOf(secs, f)
    BY DEF NameOffsets, NamesOf
  <1>2. PICK m \in Nat \ {0} : m = n + 1
    <2>1. n + 1 \in Nat \ {0}
      OBVIOUS
    <2> QED BY <2>1
  <1>3. \A i \in 1 .. m : (i # m => i \in 1 .. n) /\ (i # 1 => i - 1 \in 1 .. n)
    BY <1>2
  <1>4. ASSUME NEW i \in 1 .. n
        PROVE  /\ add[i] \in Nat
               /\ (IF secs[i].name.length > 0 THEN secs[i].name.length + 1 ELSE 0) = add[i]
    <2>1. PICK x \in Nat \ {0} : x = secs[i].name.length
      OBVIOUS
    <2>2. x > 0 /\ x + 1 \in Nat
      OBVIOUS
    <2> QED BY <2>1, <2>2
  <1>5. \A f : NamesOf(secs, f) = [i \in 1 .. m |-> IF i = 1 THEN 1 ELSE f[i - 1] + add[i - 1]]
    <2> TAKE f
    <2>1. ASSUME NEW i \in 1 .. m
          PROVE  (IF i = 1 THEN 1
                  ELSE f[i - 1] + IF secs[i - 1].name.length > 0 THEN secs[i - 1].name.length + 1 ELSE 0)
                   = IF i = 1 THEN 1 ELSE f[i - 1] + add[i - 1]
      <3>1. i # 1 => (IF secs[i - 1].name.length > 0 THEN secs[i - 1].name.length + 1 ELSE 0) = add[i - 1]
        BY <1>3, <1>4
      <3> QED BY <3>1
    <2> QED BY <1>2, <2>1 DEF NamesOf
  <1>6. \A i \in 1 .. m : i # m => add[i] \in Nat
    BY <1>3, <1>4
  <1>7. PICK g : g = [i \in 1 .. m |-> g[i]] /\ Total(g, m, 1, add)
    BY <1>6, TotalExists
  <1>8. g = NamesOf(secs, g)
    <2>1. \A i \in 1 .. m : g[i] = IF i = 1 THEN 1 ELSE g[i - 1] + add[i - 1]
      BY <1>7 DEF Total
    <2>2. [i \in 1 .. m |-> g[i]] = [i \in 1 .. m |-> IF i = 1 THEN 1 ELSE g[i - 1] + add[i - 1]]
      BY <2>1
    <2> QED BY <1>5, <1>7, <2>2
  <1> HIDE DEF o
  <1>9. o = NamesOf(secs, o)
    BY <1>1, <1>8
  <1>10. o = [i \in 1 .. m |-> IF i = 1 THEN 1 ELSE o[i - 1] + add[i - 1]]
    BY <1>5, <1>9
  <1>11. \A i \in 1 .. m : o[i] = IF i = 1 THEN 1 ELSE o[i - 1] + add[i - 1]
    BY <1>10
  <1>12. o[1] = 1
    <2>1. 1 \in 1 .. m
      OBVIOUS
    <2> QED BY <1>11, <2>1
  <1>13. Total(o, m, 1, add)
    BY <1>6, <1>11, <1>12, TotalIs
  <1> QED BY <1>2, <1>13 DEF o

-----------------------------------------------------------------------------
(* The parts of an executable, and the chunks it is written as             *)

\* What goes into an executable: n sections, each of a start, data, name and flags.
GoodParts(x) ==
    /\ x.n \in Nat \ {0}
    /\ \A i \in 1 .. x.n : /\ IsSequence(x.data[i]) /\ x.start[i] \in Nat
                           /\ x.name[i].length \in Nat \ {0}

ProgsOf(x) == [i \in 1 .. x.n |-> ProgramSection(x.start[i], x.data[i], x.flag[i])]

SecsOf(x) == [i \in 1 .. x.n |-> Section(x.name[i], x.start[i], Len(x.data[i]), x.flag[i])]

EhdrOf(x) == [kind |-> "ehdr", length |-> EhdrSize, entry |-> x.entry]

PhdrOf(x, i) == [kind |-> "phdr", length |-> PhdrSize, offset |-> DataOffsets(ProgsOf(x))[i],
                 vaddr |-> x.start[i], filesz |-> Len(x.data[i]), flags |-> x.flag[i]]

DataChunk(x, i) == [kind |-> "data", length |-> Len(x.data[i]), data |-> x.data[i]]

\* The file up to the data of section m.
BodySeq(x, m) ==
    [k \in 1 .. 1 + x.n + m |->
        IF k = 1 THEN EhdrOf(x) ELSE IF k <= 1 + x.n THEN PhdrOf(x, k - 1) ELSE DataChunk(x, k - 1 - x.n)]

BodyEnd(x, m) == IF m = 0 THEN 64 + 56 * x.n ELSE DataOffsets(ProgsOf(x))[m] + Len(x.data[m])

LEMMA PartsAre ==
    ASSUME NEW x, GoodParts(x)
    PROVE  /\ Len(ProgsOf(x)) = x.n /\ Len(SecsOf(x)) = x.n
           /\ \A i \in 1 .. x.n :
                 /\ ProgsOf(x)[i] = [vaddr |-> x.start[i], data |-> x.data[i], filesz |-> Len(x.data[i]),
                                     align |-> 1, flags |-> x.flag[i]]
                 /\ SecsOf(x)[i] = [name |-> x.name[i], addr |-> x.start[i], size |-> Len(x.data[i]),
                                    flags |-> x.flag[i]]
                 /\ Len(x.data[i]) \in Nat
           /\ Total(DataOffsets(ProgsOf(x)), x.n, 64 + 56 * x.n, [i \in 1 .. x.n |-> Len(x.data[i])])
           /\ Total(NameOffsets(SecsOf(x)), x.n + 1, 1, [i \in 1 .. x.n |-> x.name[i].length + 1])
  <1> DEFINE P == ProgsOf(x)
             S == SecsOf(x)
             d == [i \in 1 .. x.n |-> Len(x.data[i])]
             e == [i \in 1 .. x.n |-> x.name[i].length + 1]
  <1>1. PICK n \in Nat \ {0} : n = x.n
    BY DEF GoodParts
  <1>2. P = [i \in 1 .. n |-> P[i]] /\ S = [i \in 1 .. n |-> S[i]]
    BY <1>1 DEF ProgsOf, SecsOf
  <1>3. \A i \in 1 .. n :
           /\ P[i] = [vaddr |-> x.start[i], data |-> x.data[i], filesz |-> Len(x.data[i]),
                      align |-> 1, flags |-> x.flag[i]]
           /\ S[i] = [name |-> x.name[i], addr |-> x.start[i], size |-> Len(x.data[i]), flags |-> x.flag[i]]
    BY <1>1 DEF ProgsOf, SecsOf, ProgramSection, Section
  <1>4. \A i \in 1 .. n : d[i] = Len(x.data[i]) /\ e[i] = x.name[i].length + 1
    BY <1>1
  <1>5. \A i \in 1 .. n : Len(x.data[i]) \in Nat /\ x.name[i].length \in Nat \ {0}
    BY <1>1 DEF GoodParts, IsSequence
  <1> HIDE DEF P, S, d, e
  <1>6. Len(P) = n /\ Len(S) = n
    BY <1>2, FunctionSequence
  <1>7. \A i \in 1 .. n : P[i].filesz \in Nat /\ P[i].align = 1 /\ d[i] = P[i].filesz
    <2> TAKE i \in 1 .. n
    <2>1. PICK r : r = P[i]
      OBVIOUS
    <2>2. r = [vaddr |-> x.start[i], data |-> x.data[i], filesz |-> Len(x.data[i]), align |-> 1, flags |-> x.flag[i]]
      BY <1>3, <2>1
    <2>3. r.filesz = Len(x.data[i]) /\ r.align = 1
      BY <2>2
    <2> QED BY <1>4, <1>5, <2>1, <2>3
  <1>8. \A i \in 1 .. n : S[i].name.length \in Nat \ {0} /\ e[i] = S[i].name.length + 1
    <2> TAKE i \in 1 .. n
    <2>1. PICK r : r = S[i]
      OBVIOUS
    <2>2. r = [name |-> x.name[i], addr |-> x.start[i], size |-> Len(x.data[i]), flags |-> x.flag[i]]
      BY <1>3, <2>1
    <2>3. r.name = x.name[i]
      BY <2>2
    <2> QED BY <1>4, <1>5, <2>1, <2>3
  <1>9. Total(DataOffsets(P), n, 64 + 56 * n, d)
    BY <1>6, <1>7, DataOffsetsAre
  <1>10. Total(NameOffsets(S), n + 1, 1, e)
    <2>1. n \in Nat
      OBVIOUS
    <2> QED BY <1>6, <1>8, <2>1, NameOffsetsAre
  <1> QED BY <1>1, <1>3, <1>5, <1>6, <1>9, <1>10 DEF P, S, d, e

LEMMA BodySeqIs ==
    ASSUME NEW x, NEW n \in Nat \ {0}, n = x.n, NEW m \in Nat
    PROVE  /\ IsSequence(BodySeq(x, m)) /\ Len(BodySeq(x, m)) = 1 + n + m
           /\ BodySeq(x, m)[1] = EhdrOf(x)
           /\ \A i \in 1 .. n : BodySeq(x, m)[1 + i] = PhdrOf(x, i)
           /\ \A i \in 1 .. m : BodySeq(x, m)[1 + n + i] = DataChunk(x, i)
  <1> DEFINE w == BodySeq(x, m)
  <1>1. PICK o \in Nat : o = 1 + n + m
    <2>1. 1 + n + m \in Nat
      OBVIOUS
    <2> QED BY <2>1
  <1>2. w = [k \in 1 .. o |-> w[k]]
    BY <1>1 DEF BodySeq
  <1>3. \A k \in 1 .. o :
           w[k] = IF k = 1 THEN EhdrOf(x) ELSE IF k <= 1 + n THEN PhdrOf(x, k - 1) ELSE DataChunk(x, k - 1 - n)
    BY <1>1 DEF BodySeq
  <1> HIDE DEF w
  <1>4. IsSequence(w) /\ Len(w) = o
    BY <1>2, FunctionSequence
  <1>5. w[1] = EhdrOf(x)
    <2>1. 1 \in 1 .. o
      BY <1>1
    <2> QED BY <1>3, <2>1
  <1>6. \A i \in 1 .. n : w[1 + i] = PhdrOf(x, i)
    <2> TAKE i \in 1 .. n
    <2>1. 1 + i \in 1 .. o /\ 1 + i # 1 /\ 1 + i <= 1 + n /\ 1 + i - 1 = i
      BY <1>1
    <2> QED BY <1>3, <2>1
  <1>7. \A i \in 1 .. m : w[1 + n + i] = DataChunk(x, i)
    <2> TAKE i \in 1 .. m
    <2>1. 1 + n + i \in 1 .. o /\ 1 + n + i # 1 /\ ~(1 + n + i <= 1 + n) /\ 1 + n + i - 1 - n = i
      BY <1>1
    <2> QED BY <1>3, <2>1
  <1> QED BY <1>1, <1>4, <1>5, <1>6, <1>7 DEF w

LEMMA EhdrFields ==
    ASSUME NEW x
    PROVE  EhdrOf(x).length = 64 /\ EhdrOf(x).kind = "ehdr"
  BY DEF EhdrOf, EhdrSize

LEMMA PhdrFields ==
    ASSUME NEW x, NEW i
    PROVE  PhdrOf(x, i).length = 56 /\ PhdrOf(x, i).kind = "phdr"
  BY DEF PhdrOf, PhdrSize

LEMMA DataFields ==
    ASSUME NEW x, NEW i
    PROVE  DataChunk(x, i).length = Len(x.data[i]) /\ DataChunk(x, i).kind = "data"
  BY DEF DataChunk

LEMMA BodyLength ==
    ASSUME NEW x, GoodParts(x), NEW n \in Nat \ {0}, n = x.n, NEW m \in 0 .. n
    PROVE  Length(BodySeq(x, m)) = BodyEnd(x, m)
  <1> DEFINE w == BodySeq(x, m)
             f == DataOffsets(ProgsOf(x))
             d == [i \in 1 .. x.n |-> Len(x.data[i])]
             c == 64 + 56 * n
             E == [k \in 0 .. 1 + n + m |->
                     IF k = 0 THEN 0 ELSE IF k <= 1 + n THEN 64 + 56 * (k - 1) ELSE f[k - 1 - n] + d[k - 1 - n]]
  <1>1. m \in Nat
    OBVIOUS
  <1>2. /\ IsSequence(w) /\ Len(w) = 1 + n + m
        /\ w[1] = EhdrOf(x)
        /\ \A i \in 1 .. n : w[1 + i] = PhdrOf(x, i)
        /\ \A i \in 1 .. m : w[1 + n + i] = DataChunk(x, i)
    BY <1>1, BodySeqIs
  <1>3. Total(f, n, 64 + 56 * n, d) /\ \A i \in 1 .. n : d[i] = Len(x.data[i]) /\ d[i] \in Nat
    BY PartsAre
  <1> HIDE DEF w, f, d
  <1>4. f[1] = 64 + 56 * n /\ (\A i \in 1 .. n : f[i] \in Nat) /\ \A i \in 1 .. n : i # 1 => f[i] = f[i - 1] + d[i - 1]
    BY <1>3 DEF Total
  <1>5. /\ E[0] = 0 /\ \A k \in 1 .. 1 + n : E[k] = 64 + 56 * (k - 1)
        /\ \A i \in 1 .. m : E[1 + n + i] = f[i] + d[i]
    <2>1. 0 \in 0 .. 1 + n + m /\ \A k \in 1 .. 1 + n : k \in 0 .. 1 + n + m /\ k # 0 /\ k <= 1 + n
      BY <1>1
    <2>3. E[0] = 0 /\ \A k \in 1 .. 1 + n : E[k] = 64 + 56 * (k - 1)
      BY <2>1
    <2>2. \A i \in 1 .. m : /\ 1 + n + i \in 0 .. 1 + n + m /\ 1 + n + i # 0 /\ ~(1 + n + i <= 1 + n)
                            /\ 1 + n + i - 1 - n = i
      BY <1>1
    <2>4. ASSUME NEW i \in 1 .. m
          PROVE  E[1 + n + i] = f[i] + d[i]
      <3>1. PICK k \in 0 .. 1 + n + m : k = 1 + n + i /\ k # 0 /\ ~(k <= 1 + n) /\ k - 1 - n = i
        BY <2>2
      <3>2. E[k] = f[k - 1 - n] + d[k - 1 - n]
        BY <3>1
      <3> HIDE DEF E
      <3> QED BY <3>1, <3>2
    <2> QED BY <2>3, <2>4
  <1> HIDE DEF E
  <1>6. ASSUME NEW k \in 1 .. 1 + n + m
        PROVE  w[k].length \in Nat /\ E[k] \in Nat /\ E[k] = E[k - 1] + w[k].length
    <2>1. CASE k = 1
      <3>1. w[1].length = 64
        <4>1. EhdrOf(x).length = 64
          BY EhdrFields
        <4> QED BY <1>2, <4>1
      <3>2. 1 \in 1 .. 1 + n /\ 64 + 56 * (1 - 1) = 64 /\ 1 - 1 = 0 /\ 64 = 0 + 64
        OBVIOUS
      <3>3. E[1] = 64 + 56 * (1 - 1)
        BY <1>5, <3>2
      <3>4. E[1] = 64 /\ E[1 - 1] = 0
        BY <1>5, <3>2, <3>3
      <3> QED BY <2>1, <3>1, <3>4
    <2>2. CASE k \in 2 .. 1 + n
      <3>1. PICK i \in 1 .. n : k = 1 + i /\ k - 1 = i /\ i \in 1 .. 1 + n /\ k \in 1 .. 1 + n
        <4>1. k - 1 \in 1 .. n /\ k = 1 + (k - 1) /\ k - 1 \in 1 .. 1 + n /\ k \in 1 .. 1 + n
          BY <2>2
        <4> QED BY <4>1
      <3>2. w[k].length = 56
        <4>1. PhdrOf(x, i).length = 56
          BY PhdrFields
        <4>2. w[k] = PhdrOf(x, i)
          BY <1>2, <3>1
        <4> QED BY <4>1, <4>2
      <3>3. E[k] = 64 + 56 * i /\ E[k - 1] = 64 + 56 * (i - 1)
        BY <1>5, <3>1
      <3>4. 64 + 56 * i = (64 + 56 * (i - 1)) + 56 /\ 64 + 56 * i \in Nat
        OBVIOUS
      <3> QED BY <3>2, <3>3, <3>4
    <2>3. CASE k > 1 + n
      <3>1. PICK i \in 1 .. m : k = 1 + n + i
        <4>1. k - 1 - n \in 1 .. m /\ k = 1 + n + (k - 1 - n)
          BY <1>1, <2>3
        <4> QED BY <4>1
      <3>2. i \in 1 .. n
        BY <1>1
      <3>3. PICK y \in Nat, z \in Nat : y = f[i] /\ z = d[i]
        BY <1>3, <1>4, <3>2
      <3>4. w[k].length = z /\ E[k] = y + z
        <4>1. DataChunk(x, i).length = Len(x.data[i])
          BY DataFields
        <4>2. w[k] = DataChunk(x, i) /\ E[k] = f[i] + d[i]
          BY <1>2, <1>5, <3>1
        <4> QED BY <1>3, <3>2, <3>3, <4>1, <4>2
      <3>5. E[k - 1] = y
        <4>1. CASE i = 1
          <5>1. k - 1 = 1 + n /\ 1 + n \in 1 .. 1 + n /\ 1 + n - 1 = n
            BY <3>1, <4>1
          <5>2. E[k - 1] = 64 + 56 * n
            BY <1>5, <5>1
          <5> QED BY <1>4, <3>3, <4>1, <5>2
        <4>2. CASE i # 1
          <5>1. PICK h \in 1 .. m : h = i - 1
            <6>1. i - 1 \in 1 .. m
              BY <1>1, <4>2
            <6> QED BY <6>1
          <5>2. k - 1 = 1 + n + h
            BY <1>1, <3>1, <5>1
          <5>3. E[1 + n + h] = f[h] + d[h]
            BY <1>5
          <5>4. f[i] = f[h] + d[h]
            BY <1>4, <3>2, <4>2, <5>1
          <5> QED BY <3>3, <5>2, <5>3, <5>4
        <4> QED BY <4>1, <4>2
      <3> QED BY <3>3, <3>4, <3>5
    <2> QED BY <1>1, <2>1, <2>2, <2>3
  <1>7. PICK o \in Nat : o = 1 + n + m
    <2>1. 1 + n + m \in Nat
      BY <1>1
    <2> QED BY <2>1
  <1>8. Sums(w, o, E)
    BY <1>5, <1>6, <1>7 DEF Sums
  <1>9. Length(w) = E[o]
    BY <1>2, <1>7, <1>8, LengthIs
  <1>10. E[o] = BodyEnd(x, m)
    <2>1. CASE m = 0
      <3>1. o = 1 + n /\ 1 + n \in 1 .. 1 + n /\ 1 + n - 1 = n
        BY <1>7, <2>1
      <3>2. E[o] = 64 + 56 * n
        BY <1>5, <3>1
      <3> QED BY <2>1, <3>2 DEF BodyEnd
    <2>2. CASE m # 0
      <3>1. m \in 1 .. m /\ m \in 1 .. n
        BY <2>2
      <3>2. E[o] = f[m] + d[m]
        BY <1>5, <1>7, <3>1
      <3> QED BY <1>3, <2>2, <3>1, <3>2 DEF BodyEnd, f
    <2> QED BY <2>1, <2>2
  <1> QED BY <1>9, <1>10 DEF w

\* One more section, without padding.
LEMMA BodyNext ==
    ASSUME NEW x, GoodParts(x), NEW n \in Nat \ {0}, n = x.n, NEW i \in 1 .. n
    PROVE  Padded(BodySeq(x, i - 1), Length(BodySeq(x, i - 1)), ProgsOf(x)[i], DataOffsets(ProgsOf(x))[i])
              = BodySeq(x, i)
  <1> DEFINE v == BodySeq(x, i - 1)
             w == BodySeq(x, i)
             f == DataOffsets(ProgsOf(x))
             d == [k \in 1 .. x.n |-> Len(x.data[k])]
             u == v \o << >>
             r == u \o << DataChunk(x, i) >>
  <1>1. PICK h \in 0 .. n : h = i - 1 /\ h \in Nat /\ h + 1 = i
    <2>1. i - 1 \in 0 .. n /\ i - 1 \in Nat /\ i - 1 + 1 = i
      OBVIOUS
    <2> QED BY <2>1
  <1>2. Length(v) = f[i]
    <2>1. Length(v) = BodyEnd(x, h)
      BY <1>1, BodyLength
    <2>2. Total(f, n, 64 + 56 * n, d) /\ \A k \in 1 .. n : d[k] = Len(x.data[k])
      BY PartsAre
    <2> HIDE DEF f, d, v
    <2>3. CASE h = 0
      <3>1. i = 1
        BY <1>1, <2>3
      <3> QED BY <2>1, <2>2, <2>3, <3>1 DEF Total, BodyEnd
    <2>4. CASE h # 0
      <3>1. h \in 1 .. n /\ i # 1
        BY <1>1, <2>4
      <3>2. f[i] = f[h] + d[h]
        BY <1>1, <2>2, <3>1 DEF Total
      <3> QED BY <2>1, <2>2, <2>4, <3>1, <3>2 DEF BodyEnd, f
    <2> QED BY <2>3, <2>4
  <1>3. f[i] \in Nat
    BY PartsAre DEF Total
  <1>4. Padded(v, Length(v), ProgsOf(x)[i], f[i]) = r
    <2> HIDE DEF v, f, r
    <2>1. ~(Length(v) < f[i])
      BY <1>2, <1>3
    <2>2. PICK prog : prog = ProgsOf(x)[i]
      OBVIOUS
    <2>3. prog = [vaddr |-> x.start[i], data |-> x.data[i], filesz |-> Len(x.data[i]), align |-> 1, flags |-> x.flag[i]]
      BY <2>2, PartsAre
    <2>4. prog.filesz = Len(x.data[i]) /\ prog.data = x.data[i]
      BY <2>3
    <2>5. [kind |-> "data", length |-> prog.filesz, data |-> prog.data] = DataChunk(x, i)
      BY <2>4 DEF DataChunk
    <2>6. Padded(v, Length(v), prog, f[i]) = v \o << >> \o << [kind |-> "data", length |-> prog.filesz, data |-> prog.data] >>
      BY <2>1 DEF Padded
    <2> QED BY <2>2, <2>5, <2>6 DEF r, u
  <1>5. /\ IsSequence(v) /\ Len(v) = 1 + n + h /\ v[1] = EhdrOf(x)
        /\ \A k \in 1 .. n : v[1 + k] = PhdrOf(x, k)
        /\ \A k \in 1 .. h : v[1 + n + k] = DataChunk(x, k)
    <2> DEFINE y == BodySeq(x, h)
    <2>1. /\ IsSequence(y) /\ Len(y) = 1 + n + h /\ y[1] = EhdrOf(x)
          /\ \A k \in 1 .. n : y[1 + k] = PhdrOf(x, k)
          /\ \A k \in 1 .. h : y[1 + n + k] = DataChunk(x, k)
      <3>1. h \in Nat
        BY <1>1
      <3> QED BY ZenonT(60), <3>1, BodySeqIs
    <2>2. v = y
      BY <1>1
    <2> HIDE DEF v, y
    <2> QED BY <2>1, <2>2
  <1>6. /\ IsSequence(w) /\ Len(w) = 1 + n + i /\ w[1] = EhdrOf(x)
        /\ \A k \in 1 .. n : w[1 + k] = PhdrOf(x, k)
        /\ \A k \in 1 .. i : w[1 + n + k] = DataChunk(x, k)
    <2>1. i \in Nat
      OBVIOUS
    <2> QED BY ZenonT(60), <2>1, BodySeqIs
  <1> HIDE DEF v, w
  <1>7. IsSequence(<< >>) /\ Len(<< >>) = 0
    BY EmptySequence
  <1>8. IsSequence(u) /\ Len(u) = Len(v) + 0 /\ \A k \in 1 .. Len(v) : u[k] = v[k]
    <2>1. PICK z : z = << >>
      OBVIOUS
    <2>2. IsSequence(v) /\ IsSequence(z)
      BY <1>5, <1>7, <2>1
    <2>3. IsSequence(v \o z) /\ Len(v \o z) = Len(v) + Len(z) /\ \A k \in 1 .. Len(v) : (v \o z)[k] = v[k]
      BY <2>2, ConcatSequence
    <2>4. u = v \o z /\ Len(z) = 0
      BY <1>7, <2>1
    <2> HIDE DEF u
    <2> QED BY <2>3, <2>4
  <1> HIDE DEF u
  <1>9. PICK o \in Nat : o = 1 + n + h /\ o + 1 = 1 + n + i
    <2>1. 1 + n + h \in Nat /\ 1 + n + h + 1 = 1 + n + i
      BY <1>1
    <2> QED BY <2>1
  <1>10. Len(u) = o /\ \A k \in 1 .. o : u[k] = v[k]
    BY <1>5, <1>8, <1>9
  <1>11. IsSequence(r) /\ Len(r) = o + 1 /\ (\A k \in 1 .. o : r[k] = v[k]) /\ r[o + 1] = DataChunk(x, i)
    <2> DEFINE s == << DataChunk(x, i) >>
    <2>1. IsSequence(s) /\ Len(s) = 1 /\ s[1] = DataChunk(x, i)
      BY SingleSequence
    <2> HIDE DEF s
    <2>2. IsSequence(u \o s) /\ Len(u \o s) = Len(u) + Len(s)
          /\ (\A k \in 1 .. Len(u) : (u \o s)[k] = u[k]) /\ \A k \in 1 .. Len(s) : (u \o s)[Len(u) + k] = s[k]
      <3>1. IsSequence(u) /\ IsSequence(s)
        BY <1>8, <2>1
      <3> QED BY <3>1, ConcatSequence
    <2>3. r = u \o s
      BY DEF r, s
    <2>4. 1 \in 1 .. 1
      OBVIOUS
    <2> HIDE DEF r
    <2> QED BY <1>10, <2>1, <2>2, <2>3, <2>4
  <1> HIDE DEF r
  <1>12. ASSUME NEW k \in 1 .. o + 1
         PROVE  r[k] = w[k]
    <2>1. CASE k = o + 1
      <3>1. w[1 + n + i] = DataChunk(x, i)
        <4>1. i \in 1 .. i
          OBVIOUS
        <4> QED BY <1>6, <4>1
      <3> QED BY <1>9, <1>11, <2>1, <3>1
    <2>2. CASE k = 1
      <3>1. 1 \in 1 .. o
        BY <1>9, <1>1
      <3> QED BY <1>5, <1>6, <1>11, <2>2, <3>1
    <2>3. CASE k \in 2 .. 1 + n
      <3>1. PICK j \in 1 .. n : k = 1 + j
        <4>1. k - 1 \in 1 .. n /\ k = 1 + (k - 1)
          BY <2>3
        <4> QED BY <4>1
      <3>2. k \in 1 .. o
        BY <1>9, <1>1, <2>3
      <3> QED BY <1>5, <1>6, <1>11, <3>1, <3>2
    <2>4. CASE k > 1 + n /\ k # o + 1
      <3>1. PICK j \in 1 .. h : k = 1 + n + j
        <4>1. k - 1 - n \in 1 .. h /\ k = 1 + n + (k - 1 - n)
          BY <1>1, <1>9, <2>4
        <4> QED BY <4>1
      <3>2. k \in 1 .. o /\ j \in 1 .. i
        BY <1>1, <2>4
      <3> QED BY <1>5, <1>6, <1>11, <3>1, <3>2
    <2> QED BY <2>1, <2>2, <2>3, <2>4
  <1>13. r = w
    <2>1. Len(r) = Len(w) /\ \A k \in 1 .. Len(r) : r[k] = w[k]
      BY <1>6, <1>9, <1>11, <1>12
    <2> QED BY <1>6, <1>11, <2>1, SameSequence
  <1> QED BY <1>4, <1>13 DEF v, w, f

WrittenOf(x, f) ==
    [i \in 0 .. Len(ProgsOf(x)) |->
        IF i = 0 THEN BodySeq(x, 0)
        ELSE Padded(f[i - 1], Length(f[i - 1]), ProgsOf(x)[i], DataOffsets(ProgsOf(x))[i])]

WrittenFunction(x) == CHOOSE f : f = WrittenOf(x, f)

LEMMA WrittenIs ==
    ASSUME NEW x, GoodParts(x), NEW n \in Nat \ {0}, n = x.n
    PROVE  WrittenFunction(x)[n] = BodySeq(x, n)
  <1> DEFINE F == WrittenFunction(x)
             Step(v, i) == Padded(v, Length(v), ProgsOf(x)[i], DataOffsets(ProgsOf(x))[i])
             R(f) == [i \in 0 .. n |-> IF i = 0 THEN BodySeq(x, 0) ELSE Step(f[i - 1], i)]
             g == [i \in 0 .. n |-> BodySeq(x, i)]
  <1>1. \A i \in 1 .. n : Step(BodySeq(x, i - 1), i) = BodySeq(x, i)
    BY BodyNext
  <1>2. Len(ProgsOf(x)) = n
    BY PartsAre
  <1>3. \A f : WrittenOf(x, f) = R(f)
    BY <1>2 DEF WrittenOf
  <1> HIDE DEF Step
  <1>4. g = R(g)
    <2>1. ASSUME NEW i \in 0 .. n
          PROVE  BodySeq(x, i) = IF i = 0 THEN BodySeq(x, 0) ELSE Step(g[i - 1], i)
      <3>1. CASE i = 0
        BY <3>1
      <3>2. CASE i # 0
        <4>1. i \in 1 .. n /\ i - 1 \in 0 .. n
          BY <3>2
        <4>2. g[i - 1] = BodySeq(x, i - 1)
          BY <4>1
        <4> HIDE DEF g
        <4> QED BY <1>1, <3>2, <4>1, <4>2
      <3> QED BY <3>1, <3>2
    <2> QED BY <2>1
  <1> HIDE DEF g
  <1>5. F = R(F)
    <2>1. g = WrittenOf(x, g)
      BY <1>3, <1>4
    <2>2. F = WrittenOf(x, F)
      BY <2>1 DEF WrittenFunction
    <2> HIDE DEF F, R
    <2> QED BY <1>3, <2>2
  <1> HIDE DEF F
  <1>6. \A i \in 0 .. n : F[i] = IF i = 0 THEN BodySeq(x, 0) ELSE Step(F[i - 1], i)
    BY <1>5
  <1> DEFINE T == {k \in 0 .. n : F[k] = BodySeq(x, k)}
  <1>7. 0 \in T
    BY <1>6
  <1>8. ASSUME NEW k \in 0 .. (n - 1), k \in T
        PROVE  k + 1 \in T
    <2>1. PICK h \in 1 .. n : h = k + 1 /\ h - 1 = k /\ h # 0 /\ h \in 0 .. n
      <3>1. k + 1 \in 1 .. n /\ k + 1 - 1 = k /\ k + 1 # 0 /\ k + 1 \in 0 .. n
        OBVIOUS
      <3> QED BY <3>1
    <2>2. F[h - 1] = BodySeq(x, h - 1)
      BY <1>8, <2>1
    <2>3. F[h] = BodySeq(x, h)
      BY <1>1, <1>6, <2>1, <2>2
    <2>4. h \in T
      BY <2>1, <2>3
    <2> HIDE DEF T
    <2> QED BY <2>1, <2>4
  <1>9. n \in T
    <2>1. 0 .. n \subseteq T
      <3> HIDE DEF T
      <3> QED BY <1>7, <1>8, Induction
    <2> QED BY <2>1
  <1> QED BY <1>9 DEF F

-----------------------------------------------------------------------------

\* Sequences of one element each, one after the other.
LEMMA FlattenSingles ==
    ASSUME NEW seqs, IsSequence(seqs), NEW n \in Nat, n = Len(seqs), NEW c,
           \A i \in 1 .. n : seqs[i] = << c[i] >>
    PROVE  /\ IsSequence(FlattenSeq(seqs)) /\ Len(FlattenSeq(seqs)) = n
           /\ \A i \in 1 .. n : FlattenSeq(seqs)[i] = c[i]
  <1> DEFINE e == [i \in 0 .. n |-> i]
  <1>1. \A i \in 1 .. n : IsSequence(seqs[i]) /\ Len(seqs[i]) = 1 /\ seqs[i][1] = c[i]
    <2> TAKE i \in 1 .. n
    <2>1. IsSequence(<< c[i] >>) /\ Len(<< c[i] >>) = 1 /\ << c[i] >>[1] = c[i]
      BY SingleSequence
    <2> QED BY <2>1
  <1>2. IsSequences(seqs)
    BY <1>1 DEF IsSequences
  <1>3. e \in [0 .. n -> Nat] /\ e[0] = 0 /\ (\A i \in 0 .. n : e[i] = i) /\ \A i \in 1 .. n : e[i] = e[i - 1] + 1
    <2>1. \A i \in 1 .. n : i \in 0 .. n /\ i - 1 \in 0 .. n /\ i = i - 1 + 1
      OBVIOUS
    <2>2. \A i \in 0 .. n : e[i] = i
      OBVIOUS
    <2>3. e \in [0 .. n -> Nat] /\ e[0] = 0
      OBVIOUS
    <2> HIDE DEF e
    <2> QED BY <2>1, <2>2, <2>3
  <1> HIDE DEF e
  <1>4. Ends(seqs, e)
    BY <1>1, <1>3 DEF Ends
  <1>5. /\ IsSequence(FlattenSeq(seqs)) /\ Len(FlattenSeq(seqs)) = e[Len(seqs)]
        /\ \A k \in 1 .. Len(seqs) : \A j \in 1 .. Len(seqs[k]) : FlattenSeq(seqs)[e[k - 1] + j] = seqs[k][j]
    BY <1>2, <1>4, FlattenPlaces
  <1>6. ASSUME NEW i \in 1 .. n
        PROVE  FlattenSeq(seqs)[i] = c[i]
    <2>1. 1 \in 1 .. Len(seqs[i])
      BY <1>1
    <2>2. e[i - 1] + 1 = i
      BY <1>3
    <2> QED BY <1>1, <1>5, <2>1, <2>2
  <1>7. Len(FlattenSeq(seqs)) = n
    BY <1>3, <1>5
  <1> QED BY <1>5, <1>6, <1>7

NameOf(name) == [kind |-> "name", length |-> name.length + 1, text |-> name.text]
NullName == [kind |-> "name", length |-> 1, text |-> ""]

LEMMA NameChunksAre ==
    ASSUME NEW names, IsSequence(names), NEW n \in Nat, n = Len(names),
           \A i \in 1 .. n : names[i].length \in Nat \ {0}
    PROVE  /\ IsSequence(NameChunks(names)) /\ Len(NameChunks(names)) = n + 1
           /\ NameChunks(names)[1] = NullName
           /\ \A i \in 1 .. n : NameChunks(names)[1 + i] = NameOf(names[i])
  <1> DEFINE s == [i \in 1 .. Len(names) |->
                     IF names[i].length > 0
                     THEN << [kind |-> "name", length |-> names[i].length + 1, text |-> names[i].text] >>
                     ELSE << >>]
             c == [i \in 1 .. n |-> NameOf(names[i])]
             f == FlattenSeq(s)
             h == << NullName >>
  <1>1. NameChunks(names) = h \o f
    BY DEF NameChunks, NullName
  <1>2. \A i \in 1 .. n : names[i].length > 0
    <2> TAKE i \in 1 .. n
    <2>1. PICK y \in Nat \ {0} : y = names[i].length
      OBVIOUS
    <2> QED BY <2>1
  <1>3. s = [i \in 1 .. n |-> << NameOf(names[i]) >>]
    BY <1>2 DEF NameOf
  <1>4. \A i \in 1 .. n : c[i] = NameOf(names[i])
    OBVIOUS
  <1> HIDE DEF s, c
  <1>5. \A i \in 1 .. n : s[i] = << c[i] >>
    BY <1>3, <1>4
  <1>6. IsSequence(s) /\ Len(s) = n
    <2>1. s = [i \in 1 .. n |-> s[i]]
      BY <1>3
    <2> QED BY <2>1, FunctionSequence
  <1>7. IsSequence(f) /\ Len(f) = n /\ \A i \in 1 .. n : f[i] = c[i]
    BY SMTT(60), <1>5, <1>6, FlattenSingles
  <1>8. IsSequence(h) /\ Len(h) = 1 /\ h[1] = NullName
    BY SingleSequence
  <1> HIDE DEF f, h
  <1>9. /\ IsSequence(h \o f) /\ Len(h \o f) = Len(h) + Len(f)
        /\ \A i \in 1 .. Len(h) : (h \o f)[i] = h[i]
        /\ \A i \in 1 .. Len(f) : (h \o f)[Len(h) + i] = f[i]
    <2>1. IsSequence(h) /\ IsSequence(f)
      BY <1>7, <1>8
    <2> QED BY <2>1, ConcatSequence
  <1>10. 1 \in 1 .. 1 /\ 1 + n = n + 1
    OBVIOUS
  <1> QED BY <1>1, <1>4, <1>7, <1>8, <1>9, <1>10

\* WriteToStream without its recursive function.
HeadBy(entry, progs, offsets) ==
    << [kind |-> "ehdr", length |-> EhdrSize, entry |-> entry] >>
       \o [i \in 1 .. Len(progs) |->
              [kind |-> "phdr", length |-> PhdrSize, offset |-> offsets[i],
               vaddr |-> progs[i].vaddr, filesz |-> progs[i].filesz, flags |-> progs[i].flags]]

WrittenWith(head, progs, offsets, f) ==
    [i \in 0 .. Len(progs) |->
        IF i = 0 THEN head ELSE Padded(f[i - 1], Length(f[i - 1]), progs[i], offsets[i])]

WrittenBy(head, progs, offsets) == CHOOSE f : f = WrittenWith(head, progs, offsets, f)

NullHeader == [kind |-> "shdr", length |-> ShdrSize, name |-> 0, addr |-> 0, offset |-> 0,
               size |-> 0, flags |-> ""]

ShdrsBy(progs, secs, names, offsets) ==
    [i \in 1 .. Len(secs) |->
        [kind |-> "shdr", length |-> ShdrSize, name |-> names[i], addr |-> secs[i].addr,
         size |-> secs[i].size, flags |-> secs[i].flags,
         offset |-> secs[i].addr - progs[i].vaddr + offsets[i]]]

StrtabBy(n, shoff, strings) ==
    [kind |-> "shdr", length |-> ShdrSize, name |-> strings - 10, addr |-> 0,
     offset |-> shoff + ShdrSize * (n + 2), size |-> strings, flags |-> ""]

HeaderBy(entry, phnum, shoff, n) ==
    [kind |-> "ehdr", length |-> EhdrSize, entry |-> entry, phoff |-> EhdrSize, phnum |-> phnum,
     shoff |-> shoff, shnum |-> n + 2, shstrndx |-> n + 1]

FileBy(body, shdrs, strtab, names) ==
    body \o << NullHeader >> \o shdrs \o << strtab >> \o NameChunks(Append(names, StrtabName))

WithHeader(w, header) == [w EXCEPT ![1] = header]

LEMMA WriteToStreamIs ==
    ASSUME NEW entry, NEW progs, NEW secs
    PROVE  LET n       == Len(secs)
               offsets == DataOffsets(progs)
               body    == WrittenBy(HeadBy(entry, progs, offsets), progs, offsets)[Len(progs)]
               names   == NameOffsets(secs)
           IN  WriteToStream(entry, progs, secs) =
                  WithHeader(FileBy(body, ShdrsBy(progs, secs, names, offsets),
                                    StrtabBy(n, Length(body), names[n + 1] + 10),
                                    [i \in 1 .. n |-> secs[i].name]),
                             HeaderBy(entry, Len(progs), Length(body), n))
  BY DEF WriteToStream, WithHeader, FileBy, ShdrsBy, StrtabBy, HeaderBy, HeadBy, WrittenBy, WrittenWith, NullHeader

ShdrOf(x, i) == [kind |-> "shdr", length |-> ShdrSize, name |-> NameOffsets(SecsOf(x))[i],
                 addr |-> x.start[i], size |-> Len(x.data[i]), flags |-> x.flag[i],
                 offset |-> DataOffsets(ProgsOf(x))[i]]

StrtabOf(x) == StrtabBy(x.n, BodyEnd(x, x.n), NameOffsets(SecsOf(x))[x.n + 1] + 10)

HeaderOf(x) == HeaderBy(x.entry, x.n, BodyEnd(x, x.n), x.n)

LEMMA HeadIs ==
    ASSUME NEW x, GoodParts(x), NEW n \in Nat \ {0}, n = x.n
    PROVE  HeadBy(x.entry, ProgsOf(x), DataOffsets(ProgsOf(x))) = BodySeq(x, 0)
  <1> DEFINE p == [i \in 1 .. n |-> PhdrOf(x, i)]
             e == << EhdrOf(x) >>
             w == BodySeq(x, 0)
  <1>1. HeadBy(x.entry, ProgsOf(x), DataOffsets(ProgsOf(x))) = e \o p
    <2>1. Len(ProgsOf(x)) = n
      BY PartsAre
    <2>2. ASSUME NEW i \in 1 .. n
          PROVE  [kind |-> "phdr", length |-> PhdrSize, offset |-> DataOffsets(ProgsOf(x))[i],
                  vaddr |-> ProgsOf(x)[i].vaddr, filesz |-> ProgsOf(x)[i].filesz, flags |-> ProgsOf(x)[i].flags]
                   = PhdrOf(x, i)
      <3>1. PICK r : r = ProgsOf(x)[i]
        OBVIOUS
      <3>2. r = [vaddr |-> x.start[i], data |-> x.data[i], filesz |-> Len(x.data[i]), align |-> 1, flags |-> x.flag[i]]
        BY <3>1, PartsAre
      <3>3. r.vaddr = x.start[i] /\ r.filesz = Len(x.data[i]) /\ r.flags = x.flag[i]
        BY <3>2
      <3> QED BY <3>1, <3>3 DEF PhdrOf
    <2>3. HeadBy(x.entry, ProgsOf(x), DataOffsets(ProgsOf(x))) =
            e \o [i \in 1 .. n |->
                  [kind |-> "phdr", length |-> PhdrSize, offset |-> DataOffsets(ProgsOf(x))[i],
                   vaddr |-> ProgsOf(x)[i].vaddr, filesz |-> ProgsOf(x)[i].filesz, flags |-> ProgsOf(x)[i].flags]]
      BY <2>1 DEF HeadBy, EhdrOf
    <2> QED BY <2>2, <2>3
  <1>2. IsSequence(p) /\ Len(p) = n /\ \A i \in 1 .. n : p[i] = PhdrOf(x, i)
    <2>1. p = [i \in 1 .. n |-> p[i]] /\ \A i \in 1 .. n : p[i] = PhdrOf(x, i)
      OBVIOUS
    <2> HIDE DEF p
    <2> QED BY <2>1, FunctionSequence
  <1>3. IsSequence(e) /\ Len(e) = 1 /\ e[1] = EhdrOf(x)
    BY SingleSequence
  <1>4. /\ IsSequence(w) /\ Len(w) = 1 + n + 0 /\ w[1] = EhdrOf(x)
        /\ \A i \in 1 .. n : w[1 + i] = PhdrOf(x, i)
    <2>1. 0 \in Nat
      OBVIOUS
    <2> QED BY ZenonT(60), <2>1, BodySeqIs
  <1> HIDE DEF p, e, w
  <1>5. /\ IsSequence(e \o p) /\ Len(e \o p) = Len(e) + Len(p)
        /\ \A i \in 1 .. Len(e) : (e \o p)[i] = e[i]
        /\ \A i \in 1 .. Len(p) : (e \o p)[Len(e) + i] = p[i]
    <2>1. IsSequence(e) /\ IsSequence(p)
      BY <1>2, <1>3
    <2> QED BY <2>1, ConcatSequence
  <1> DEFINE v == e \o p
  <1>6. IsSequence(v) /\ Len(v) = 1 + n /\ v[1] = e[1] /\ \A i \in 1 .. n : v[1 + i] = p[i]
    <2>1. 1 \in 1 .. 1
      OBVIOUS
    <2> QED BY <1>2, <1>3, <1>5, <2>1
  <1> HIDE DEF v
  <1>7. ASSUME NEW k \in 1 .. 1 + n
        PROVE  v[k] = w[k]
    <2>1. CASE k = 1
      BY <1>3, <1>4, <1>6, <2>1
    <2>2. CASE k # 1
      <3>1. PICK i \in 1 .. n : k = 1 + i
        <4>1. k - 1 \in 1 .. n /\ k = 1 + (k - 1)
          BY <2>2
        <4> QED BY <4>1
      <3> QED BY <1>2, <1>4, <1>6, <3>1
    <2> QED BY <2>1, <2>2
  <1>8. v = w
    <2>1. 1 + n + 0 = 1 + n
      OBVIOUS
    <2>2. Len(v) = Len(w) /\ \A k \in 1 .. Len(v) : v[k] = w[k]
      BY <1>4, <1>6, <1>7, <2>1
    <2> QED BY <1>4, <1>6, <2>2, SameSequence
  <1> QED BY <1>1, <1>8 DEF v, w

\* The file of the executable, piece by piece.
ElfSeq(x) == FileBy(BodySeq(x, x.n), [i \in 1 .. x.n |-> ShdrOf(x, i)], StrtabOf(x), [i \in 1 .. x.n |-> x.name[i]])

LEMMA ElfIs ==
    ASSUME NEW x, GoodParts(x), NEW n \in Nat \ {0}, n = x.n
    PROVE  WriteToStream(x.entry, ProgsOf(x), SecsOf(x)) = WithHeader(ElfSeq(x), HeaderOf(x))
  <1> DEFINE P == ProgsOf(x)
             S == SecsOf(x)
             offsets == DataOffsets(P)
             names   == NameOffsets(S)
             body    == WrittenBy(HeadBy(x.entry, P, offsets), P, offsets)[Len(P)]
  <1>1. Len(P) = n /\ Len(S) = n
    BY PartsAre
  <1>2. body = BodySeq(x, n)
    <2>1. WrittenFunction(x) = WrittenBy(BodySeq(x, 0), P, offsets)
      BY DEF WrittenFunction, WrittenOf, WrittenBy, WrittenWith
    <2>2. HeadBy(x.entry, P, offsets) = BodySeq(x, 0)
      BY HeadIs
    <2>3. WrittenFunction(x)[n] = BodySeq(x, n)
      BY WrittenIs
    <2> QED BY <1>1, <2>1, <2>2, <2>3
  <1>3. Length(body) = BodyEnd(x, n)
    <2>1. n \in 0 .. n
      OBVIOUS
    <2>2. Length(BodySeq(x, n)) = BodyEnd(x, n)
      BY <2>1, BodyLength
    <2> HIDE DEF body
    <2> QED BY <1>2, <2>2
  <1>4. ASSUME NEW i \in 1 .. n
        PROVE  /\ [kind |-> "shdr", length |-> ShdrSize, name |-> names[i], addr |-> S[i].addr,
                   size |-> S[i].size, flags |-> S[i].flags, offset |-> S[i].addr - P[i].vaddr + offsets[i]]
                    = ShdrOf(x, i)
               /\ S[i].name = x.name[i]
    <2>1. PICK r, s : r = P[i] /\ s = S[i]
      OBVIOUS
    <2>2. /\ r = [vaddr |-> x.start[i], data |-> x.data[i], filesz |-> Len(x.data[i]), align |-> 1, flags |-> x.flag[i]]
          /\ s = [name |-> x.name[i], addr |-> x.start[i], size |-> Len(x.data[i]), flags |-> x.flag[i]]
      BY <2>1, PartsAre
    <2>3. /\ r.vaddr = x.start[i]
          /\ s.name = x.name[i] /\ s.addr = x.start[i] /\ s.size = Len(x.data[i]) /\ s.flags = x.flag[i]
      BY <2>2
    <2>4. Total(offsets, n, 64 + 56 * n, [j \in 1 .. x.n |-> Len(x.data[j])])
      BY PartsAre
    <2>5. offsets[i] \in Nat /\ x.start[i] \in Nat
      BY <2>4 DEF Total, GoodParts
    <2>6. \A a, b \in Nat : a - a + b = b
      OBVIOUS
    <2> HIDE DEF P, S, offsets, names
    <2>7. x.start[i] - x.start[i] + offsets[i] = offsets[i]
      BY <2>5, <2>6
    <2>8. s.addr - r.vaddr + offsets[i] = offsets[i]
      BY <2>3, <2>7
    <2>9. [kind |-> "shdr", length |-> ShdrSize, name |-> names[i], addr |-> s.addr,
                   size |-> s.size, flags |-> s.flags, offset |-> s.addr - r.vaddr + offsets[i]]
            = [kind |-> "shdr", length |-> ShdrSize, name |-> names[i], addr |-> x.start[i],
               size |-> Len(x.data[i]), flags |-> x.flag[i], offset |-> offsets[i]]
      BY <2>3, <2>8
    <2> QED BY <2>1, <2>3, <2>9 DEF ShdrOf, P, S, offsets, names
  <1>5. ShdrsBy(P, S, names, offsets) = [i \in 1 .. n |-> ShdrOf(x, i)]
    <2>1. ShdrsBy(P, S, names, offsets) = [i \in 1 .. n |->
            [kind |-> "shdr", length |-> ShdrSize, name |-> names[i], addr |-> S[i].addr,
             size |-> S[i].size, flags |-> S[i].flags, offset |-> S[i].addr - P[i].vaddr + offsets[i]]]
      BY <1>1 DEF ShdrsBy
    <2> QED BY <1>4, <2>1
  <1>6. [i \in 1 .. n |-> S[i].name] = [i \in 1 .. n |-> x.name[i]]
    BY <1>4
  <1>7. WriteToStream(x.entry, P, S) =
           WithHeader(FileBy(body, ShdrsBy(P, S, names, offsets),
                             StrtabBy(Len(S), Length(body), names[Len(S) + 1] + 10),
                             [i \in 1 .. Len(S) |-> S[i].name]),
                      HeaderBy(x.entry, Len(P), Length(body), Len(S)))
    BY WriteToStreamIs
  <1> HIDE DEF P, S, offsets, names, body
  <1>8. WriteToStream(x.entry, P, S) =
           WithHeader(FileBy(BodySeq(x, n), [i \in 1 .. n |-> ShdrOf(x, i)],
                             StrtabBy(n, BodyEnd(x, n), names[n + 1] + 10),
                             [i \in 1 .. n |-> x.name[i]]),
                      HeaderBy(x.entry, n, BodyEnd(x, n), n))
    BY <1>1, <1>2, <1>3, <1>5, <1>6, <1>7
  <1> QED BY <1>8 DEF ElfSeq, HeaderOf, StrtabOf, P, S, names

\* Every chunk of an executable with n sections in its place.
ElfFile(x, n, w) ==
    /\ IsSequence(w) /\ Len(w) = 4 * n + 5
    /\ w[1] = HeaderOf(x)
    /\ \A i \in 1 .. n : w[1 + i] = PhdrOf(x, i)
    /\ \A i \in 1 .. n : w[1 + n + i] = DataChunk(x, i)
    /\ w[2 * n + 2] = NullHeader
    /\ \A i \in 1 .. n : w[2 * n + 2 + i] = ShdrOf(x, i)
    /\ w[3 * n + 3] = StrtabOf(x)
    /\ w[3 * n + 4] = NullName
    /\ \A i \in 1 .. n : w[3 * n + 4 + i] = NameOf(x.name[i])
    /\ w[4 * n + 5] = NameOf(StrtabName)

LEMMA NamesAre ==
    ASSUME NEW x, GoodParts(x), NEW n \in Nat \ {0}, n = x.n, NEW c,
           c = NameChunks(Append([i \in 1 .. x.n |-> x.name[i]], StrtabName))
    PROVE  /\ IsSequence(c) /\ Len(c) = n + 2 /\ c[1] = NullName
           /\ \A i \in 1 .. n : c[1 + i] = NameOf(x.name[i])
           /\ c[n + 2] = NameOf(StrtabName)
  <1> DEFINE s == [i \in 1 .. x.n |-> x.name[i]]
             t == Append(s, StrtabName)
  <1>1. IsSequence(s) /\ Len(s) = n /\ \A i \in 1 .. n : s[i] = x.name[i]
    <2>1. s = [i \in 1 .. n |-> s[i]] /\ \A i \in 1 .. n : s[i] = x.name[i]
      OBVIOUS
    <2> HIDE DEF s
    <2> QED BY <2>1, FunctionSequence
  <1> HIDE DEF s
  <1>2. /\ IsSequence(t) /\ Len(t) = Len(s) + 1 /\ t[Len(s) + 1] = StrtabName
        /\ \A i \in 1 .. Len(s) : t[i] = s[i]
    <2>1. IsSequence(s)
      BY <1>1
    <2> QED BY <2>1, AppendSequence
  <1> HIDE DEF t
  <1>3. Len(t) = n + 1 /\ t[n + 1] = StrtabName /\ \A i \in 1 .. n : t[i] = x.name[i]
    BY <1>1, <1>2
  <1>4. PICK m \in Nat : m = n + 1
    <2>1. n + 1 \in Nat
      OBVIOUS
    <2> QED BY <2>1
  <1>5. \A i \in 1 .. m : t[i].length \in Nat \ {0}
    <2> TAKE i \in 1 .. m
    <2>1. CASE i = m
      <3>1. StrtabName.length \in Nat \ {0}
        BY DEF StrtabName
      <3> QED BY <1>3, <1>4, <2>1, <3>1
    <2>2. CASE i # m
      <3>1. i \in 1 .. n
        BY <1>4, <2>2
      <3> QED BY <1>3, <3>1 DEF GoodParts
    <2> QED BY <2>1, <2>2
  <1>6. c = NameChunks(t)
    BY DEF t, s
  <1>7. /\ IsSequence(c) /\ Len(c) = m + 1 /\ c[1] = NullName
        /\ \A i \in 1 .. m : c[1 + i] = NameOf(t[i])
    <2>1. IsSequence(t) /\ m = Len(t)
      BY <1>2, <1>3, <1>4
    <2>2. /\ IsSequence(NameChunks(t)) /\ Len(NameChunks(t)) = m + 1
          /\ NameChunks(t)[1] = NullName
          /\ \A i \in 1 .. m : NameChunks(t)[1 + i] = NameOf(t[i])
      BY <1>5, <2>1, NameChunksAre
    <2> QED BY <1>6, <2>2
  <1>8. m + 1 = n + 2 /\ m \in 1 .. m /\ 1 + m = n + 2 /\ \A i \in 1 .. n : i \in 1 .. m
    BY <1>4
  <1>9. c[n + 2] = NameOf(StrtabName)
    BY <1>3, <1>4, <1>7, <1>8
  <1>10. \A i \in 1 .. n : c[1 + i] = NameOf(x.name[i])
    BY <1>3, <1>7, <1>8
  <1> QED BY <1>7, <1>8, <1>9, <1>10

LEMMA ElfPlaces ==
    ASSUME NEW x, GoodParts(x), NEW n \in Nat \ {0}, n = x.n
    PROVE  ElfFile(x, n, WithHeader(ElfSeq(x), HeaderOf(x)))
  <1>1. PICK b, z, h, s, c :
           /\ b = BodySeq(x, n) /\ z = << NullHeader >> /\ h = [i \in 1 .. n |-> ShdrOf(x, i)]
           /\ s = << StrtabOf(x) >> /\ c = NameChunks(Append([i \in 1 .. x.n |-> x.name[i]], StrtabName))
    OBVIOUS
  <1>2. PICK u1, u2, u3, u4 : u1 = b \o z /\ u2 = u1 \o h /\ u3 = u2 \o s /\ u4 = u3 \o c
    OBVIOUS
  <1>3. ElfSeq(x) = u4
    BY <1>1, <1>2 DEF ElfSeq, FileBy
  <1>4. PICK m0 \in Nat, m1 \in Nat, m2 \in Nat, m3 \in Nat, m4 \in Nat :
           /\ m0 = 2 * n + 1 /\ m1 = 2 * n + 2 /\ m2 = 3 * n + 2 /\ m3 = 3 * n + 3 /\ m4 = 4 * n + 5
           /\ m0 = 1 + n + n /\ m1 = m0 + 1 /\ m2 = m1 + n /\ m3 = m2 + 1 /\ m4 = m3 + (n + 2)
    <2>1. 2 * n + 1 \in Nat /\ 2 * n + 2 \in Nat /\ 3 * n + 2 \in Nat /\ 3 * n + 3 \in Nat /\ 4 * n + 5 \in Nat
      OBVIOUS
    <2>2. /\ 2 * n + 1 = 1 + n + n /\ 2 * n + 2 = 2 * n + 1 + 1 /\ 3 * n + 2 = 2 * n + 2 + n
          /\ 3 * n + 3 = 3 * n + 2 + 1 /\ 4 * n + 5 = 3 * n + 3 + (n + 2)
      OBVIOUS
    <2> QED BY ZenonT(60), <2>1, <2>2
  <1>5. /\ IsSequence(b) /\ Len(b) = m0 /\ b[1] = EhdrOf(x)
        /\ \A i \in 1 .. n : b[1 + i] = PhdrOf(x, i)
        /\ \A i \in 1 .. n : b[1 + n + i] = DataChunk(x, i)
    <2>1. n \in Nat
      OBVIOUS
    <2>2. /\ IsSequence(BodySeq(x, n)) /\ Len(BodySeq(x, n)) = 1 + n + n
          /\ BodySeq(x, n)[1] = EhdrOf(x)
          /\ \A i \in 1 .. n : BodySeq(x, n)[1 + i] = PhdrOf(x, i)
          /\ \A i \in 1 .. n : BodySeq(x, n)[1 + n + i] = DataChunk(x, i)
      BY <2>1, BodySeqIs
    <2> QED BY <1>1, <1>4, <2>2
  <1>6. IsSequence(z) /\ Len(z) = 1 /\ z[1] = NullHeader /\ IsSequence(s) /\ Len(s) = 1 /\ s[1] = StrtabOf(x)
    BY <1>1, SingleSequence
  <1>7. IsSequence(h) /\ Len(h) = n /\ \A i \in 1 .. n : h[i] = ShdrOf(x, i)
    <2>1. h = [i \in 1 .. n |-> h[i]] /\ \A i \in 1 .. n : h[i] = ShdrOf(x, i)
      BY <1>1
    <2> QED BY <2>1, FunctionSequence
  <1>8. /\ IsSequence(c) /\ Len(c) = n + 2 /\ c[1] = NullName
        /\ \A i \in 1 .. n : c[1 + i] = NameOf(x.name[i])
        /\ c[n + 2] = NameOf(StrtabName)
    BY ZenonT(60), <1>1, NamesAre
  <1>9. /\ IsSequence(u1) /\ Len(u1) = m1
        /\ (\A i \in 1 .. m0 : u1[i] = b[i]) /\ \A i \in 1 .. 1 : u1[m0 + i] = z[i]
    <2>1. IsSequence(b) /\ IsSequence(z)
      BY <1>5, <1>6
    <2>2. /\ IsSequence(b \o z) /\ Len(b \o z) = Len(b) + Len(z)
          /\ \A i \in 1 .. Len(b) : (b \o z)[i] = b[i]
          /\ \A i \in 1 .. Len(z) : (b \o z)[Len(b) + i] = z[i]
      BY <2>1, ConcatSequence
    <2>3. Len(b) = m0 /\ Len(z) = 1 /\ u1 = b \o z
      BY <1>2, <1>5, <1>6
    <2> QED BY <1>4, <2>2, <2>3
  <1>10. /\ IsSequence(u2) /\ Len(u2) = m2
         /\ (\A i \in 1 .. m1 : u2[i] = u1[i]) /\ \A i \in 1 .. n : u2[m1 + i] = h[i]
    <2>1. IsSequence(u1) /\ IsSequence(h)
      BY <1>7, <1>9
    <2>2. /\ IsSequence(u1 \o h) /\ Len(u1 \o h) = Len(u1) + Len(h)
          /\ \A i \in 1 .. Len(u1) : (u1 \o h)[i] = u1[i]
          /\ \A i \in 1 .. Len(h) : (u1 \o h)[Len(u1) + i] = h[i]
      BY <2>1, ConcatSequence
    <2>3. Len(u1) = m1 /\ Len(h) = n /\ u2 = u1 \o h
      BY <1>2, <1>7, <1>9
    <2> QED BY <1>4, <2>2, <2>3
  <1>11. /\ IsSequence(u3) /\ Len(u3) = m3
         /\ (\A i \in 1 .. m2 : u3[i] = u2[i]) /\ \A i \in 1 .. 1 : u3[m2 + i] = s[i]
    <2>1. IsSequence(u2) /\ IsSequence(s)
      BY <1>6, <1>10
    <2>2. /\ IsSequence(u2 \o s) /\ Len(u2 \o s) = Len(u2) + Len(s)
          /\ \A i \in 1 .. Len(u2) : (u2 \o s)[i] = u2[i]
          /\ \A i \in 1 .. Len(s) : (u2 \o s)[Len(u2) + i] = s[i]
      BY <2>1, ConcatSequence
    <2>3. Len(u2) = m2 /\ Len(s) = 1 /\ u3 = u2 \o s
      BY <1>2, <1>6, <1>10
    <2> QED BY <1>4, <2>2, <2>3
  <1>12. /\ IsSequence(u4) /\ Len(u4) = m4
         /\ (\A i \in 1 .. m3 : u4[i] = u3[i]) /\ \A i \in 1 .. n + 2 : u4[m3 + i] = c[i]
    <2>1. IsSequence(u3) /\ IsSequence(c)
      BY <1>8, <1>11
    <2>2. /\ IsSequence(u3 \o c) /\ Len(u3 \o c) = Len(u3) + Len(c)
          /\ \A i \in 1 .. Len(u3) : (u3 \o c)[i] = u3[i]
          /\ \A i \in 1 .. Len(c) : (u3 \o c)[Len(u3) + i] = c[i]
      BY <2>1, ConcatSequence
    <2>3. Len(u3) = m3 /\ Len(c) = n + 2 /\ u4 = u3 \o c
      BY <1>2, <1>8, <1>11
    <2> QED BY <1>4, <2>2, <2>3
  <1> DEFINE w == WithHeader(u4, HeaderOf(x))
  <1>13. IsSequence(w) /\ Len(w) = m4 /\ w[1] = HeaderOf(x) /\ \A i \in 2 .. m4 : w[i] = u4[i]
    <2>4. PICK one, header : one = 1 /\ header = HeaderOf(x)
      OBVIOUS
    <2>1. /\ IsSequence(Put(u4, one, header)) /\ Len(Put(u4, one, header)) = Len(u4)
          /\ one \in 1 .. Len(u4) => Put(u4, one, header)[one] = header
          /\ \A j \in 1 .. Len(u4) : j # one => Put(u4, one, header)[j] = u4[j]
      <3>1. IsSequence(u4)
        BY <1>12
      <3> QED BY <3>1, PutSequence
    <2>2. w = Put(u4, one, header)
      BY <2>4 DEF WithHeader, Put
    <2>3. 1 \in 1 .. m4 /\ \A i \in 2 .. m4 : i \in 1 .. m4 /\ i # 1
      BY <1>4
    <2> HIDE DEF w
    <2> QED BY <1>12, <2>1, <2>2, <2>3, <2>4
  <1> HIDE DEF w
  <1>14. \A i \in 2 .. m0 : w[i] = b[i]
    <2>1. \A i \in 2 .. m0 : i \in 1 .. m0 /\ i \in 1 .. m1 /\ i \in 1 .. m2 /\ i \in 1 .. m3 /\ i \in 2 .. m4
      BY <1>4
    <2> TAKE i \in 2 .. m0
    <2>2. i \in 1 .. m0 /\ i \in 1 .. m1 /\ i \in 1 .. m2 /\ i \in 1 .. m3 /\ i \in 2 .. m4
      BY <2>1
    <2>3. u1[i] = b[i]
      BY <1>9, <2>2
    <2>4. u2[i] = u1[i]
      BY <1>10, <2>2
    <2>5. u3[i] = u2[i]
      BY <1>11, <2>2
    <2>6. u4[i] = u3[i]
      BY <1>12, <2>2
    <2>7. w[i] = u4[i]
      BY <1>13, <2>2
    <2> QED BY <2>3, <2>4, <2>5, <2>6, <2>7
  <1>15. \A i \in 1 .. n : w[1 + i] = PhdrOf(x, i) /\ w[1 + n + i] = DataChunk(x, i)
    <2>1. \A i \in 1 .. n : 1 + i \in 2 .. m0 /\ 1 + n + i \in 2 .. m0
      BY <1>4
    <2> QED BY <1>5, <1>14, <2>1
  <1>16. w[m1] = NullHeader
    <2>1. m1 = m0 + 1 /\ 1 \in 1 .. 1 /\ m1 \in 1 .. m1 /\ m1 \in 1 .. m2 /\ m1 \in 1 .. m3 /\ m1 \in 2 .. m4
      BY <1>4
    <2> QED BY <1>6, <1>9, <1>10, <1>11, <1>12, <1>13, <2>1
  <1>17. \A i \in 1 .. n : w[m1 + i] = ShdrOf(x, i)
    <2>1. \A i \in 1 .. n : m1 + i \in 1 .. m2 /\ m1 + i \in 1 .. m3 /\ m1 + i \in 2 .. m4
      BY <1>4
    <2> QED BY <1>7, <1>10, <1>11, <1>12, <1>13, <2>1
  <1>18. w[m3] = StrtabOf(x)
    <2>1. m3 = m2 + 1 /\ 1 \in 1 .. 1 /\ m3 \in 1 .. m3 /\ m3 \in 2 .. m4
      BY <1>4
    <2> QED BY <1>6, <1>11, <1>12, <1>13, <2>1
  <1>19. \A i \in 1 .. n + 2 : w[m3 + i] = c[i]
    <2>1. \A i \in 1 .. n + 2 : m3 + i \in 2 .. m4
      BY <1>4
    <2> QED BY <1>12, <1>13, <2>1
  <1>20. w[3 * n + 4] = NullName /\ w[4 * n + 5] = NameOf(StrtabName)
    <2>1. 1 \in 1 .. n + 2 /\ n + 2 \in 1 .. n + 2 /\ 3 * n + 4 = m3 + 1 /\ 4 * n + 5 = m3 + (n + 2)
      BY <1>4
    <2> QED BY <1>8, <1>19, <2>1
  <1>21. \A i \in 1 .. n : w[3 * n + 4 + i] = NameOf(x.name[i])
    <2> TAKE i \in 1 .. n
    <2>1. 1 + i \in 1 .. n + 2 /\ 3 * n + 4 + i = m3 + (1 + i)
      BY <1>4
    <2> QED BY <1>8, <1>19, <2>1
  <1>22. ElfFile(x, n, w)
    BY <1>4, <1>13, <1>15, <1>16, <1>17, <1>18, <1>20, <1>21 DEF ElfFile
  <1> QED BY <1>3, <1>22 DEF w

-----------------------------------------------------------------------------
(* Where each chunk begins and ends                                        *)

\* Where the chunks end.
ElfEnds(x, n, E) ==
    LET f     == DataOffsets(ProgsOf(x))
        g     == NameOffsets(SecsOf(x))
        shoff == BodyEnd(x, n)
    IN  /\ E[0] = 0
        /\ \A k \in 1 .. 1 + n : E[k] = 64 + 56 * (k - 1)
        /\ \A i \in 1 .. n : E[1 + n + i] = f[i] + Len(x.data[i])
        /\ \A j \in 1 .. n + 2 : E[2 * n + 1 + j] = shoff + 64 * j
        /\ \A j \in 1 .. n + 1 : E[3 * n + 3 + j] = shoff + 64 * (n + 2) + g[j]
        /\ E[4 * n + 5] = shoff + 64 * (n + 2) + g[n + 1] + 10

LEMMA ElfEndsExist ==
    ASSUME NEW x, NEW n \in Nat \ {0}
    PROVE  \E E : ElfEnds(x, n, E)
  <1> DEFINE f     == DataOffsets(ProgsOf(x))
             g     == NameOffsets(SecsOf(x))
             d(i)  == Len(x.data[i])
             shoff == BodyEnd(x, n)
             E == [k \in 0 .. 4 * n + 5 |->
                     IF k = 0 THEN 0
                     ELSE IF k <= 1 + n THEN 64 + 56 * (k - 1)
                     ELSE IF k <= 2 * n + 1 THEN f[k - (1 + n)] + d(k - (1 + n))
                     ELSE IF k <= 3 * n + 3 THEN shoff + 64 * (k - (2 * n + 1))
                     ELSE IF k <= 4 * n + 4 THEN shoff + 64 * (n + 2) + g[k - (3 * n + 3)]
                     ELSE shoff + 64 * (n + 2) + g[n + 1] + 10]
  <1> HIDE DEF f, g, d, shoff
  <1>1. \A k \in 0 .. 4 * n + 5 :
           E[k] = IF k = 0 THEN 0
                  ELSE IF k <= 1 + n THEN 64 + 56 * (k - 1)
                  ELSE IF k <= 2 * n + 1 THEN f[k - (1 + n)] + d(k - (1 + n))
                  ELSE IF k <= 3 * n + 3 THEN shoff + 64 * (k - (2 * n + 1))
                  ELSE IF k <= 4 * n + 4 THEN shoff + 64 * (n + 2) + g[k - (3 * n + 3)]
                  ELSE shoff + 64 * (n + 2) + g[n + 1] + 10
    OBVIOUS
  <1> HIDE DEF E
  <1>2. E[0] = 0
    <2>1. 0 \in 0 .. 4 * n + 5
      OBVIOUS
    <2> QED BY <1>1, <2>1
  <1>3. ASSUME NEW k \in 1 .. 1 + n
        PROVE  E[k] = 64 + 56 * (k - 1)
    <2>1. k \in 0 .. 4 * n + 5 /\ k # 0 /\ k <= 1 + n
      OBVIOUS
    <2> QED BY <1>1, <2>1
  <1>4. ASSUME NEW i \in 1 .. n
        PROVE  E[1 + n + i] = f[i] + d(i)
    <2>1. PICK k \in 0 .. 4 * n + 5 : /\ k = 1 + n + i /\ k # 0 /\ ~(k <= 1 + n) /\ k <= 2 * n + 1
                                      /\ k - (1 + n) = i
      <3>1. /\ 1 + n + i \in 0 .. 4 * n + 5 /\ 1 + n + i # 0 /\ ~(1 + n + i <= 1 + n)
            /\ 1 + n + i <= 2 * n + 1 /\ 1 + n + i - (1 + n) = i
        OBVIOUS
      <3> QED BY <3>1
    <2>2. E[k] = f[k - (1 + n)] + d(k - (1 + n))
      BY <1>1, <2>1
    <2> QED BY <2>1, <2>2
  <1>5. ASSUME NEW j \in 1 .. n + 2
        PROVE  E[2 * n + 1 + j] = shoff + 64 * j
    <2>1. PICK k \in 0 .. 4 * n + 5 : /\ k = 2 * n + 1 + j /\ k # 0 /\ ~(k <= 1 + n) /\ ~(k <= 2 * n + 1)
                                      /\ k <= 3 * n + 3 /\ k - (2 * n + 1) = j
      <3>1. /\ 2 * n + 1 + j \in 0 .. 4 * n + 5 /\ 2 * n + 1 + j # 0 /\ ~(2 * n + 1 + j <= 1 + n)
            /\ ~(2 * n + 1 + j <= 2 * n + 1) /\ 2 * n + 1 + j <= 3 * n + 3 /\ 2 * n + 1 + j - (2 * n + 1) = j
        OBVIOUS
      <3> QED BY <3>1
    <2>2. E[k] = shoff + 64 * (k - (2 * n + 1))
      BY <1>1, <2>1
    <2> QED BY <2>1, <2>2
  <1>6. ASSUME NEW j \in 1 .. n + 1
        PROVE  E[3 * n + 3 + j] = shoff + 64 * (n + 2) + g[j]
    <2>1. PICK k \in 0 .. 4 * n + 5 : /\ k = 3 * n + 3 + j /\ k # 0 /\ ~(k <= 1 + n) /\ ~(k <= 2 * n + 1)
                                      /\ ~(k <= 3 * n + 3) /\ k <= 4 * n + 4 /\ k - (3 * n + 3) = j
      <3>1. /\ 3 * n + 3 + j \in 0 .. 4 * n + 5 /\ 3 * n + 3 + j # 0 /\ ~(3 * n + 3 + j <= 1 + n)
            /\ ~(3 * n + 3 + j <= 2 * n + 1) /\ ~(3 * n + 3 + j <= 3 * n + 3)
            /\ 3 * n + 3 + j <= 4 * n + 4 /\ 3 * n + 3 + j - (3 * n + 3) = j
        OBVIOUS
      <3> QED BY <3>1
    <2>2. E[k] = shoff + 64 * (n + 2) + g[k - (3 * n + 3)]
      BY <1>1, <2>1
    <2> QED BY <2>1, <2>2
  <1>7. E[4 * n + 5] = shoff + 64 * (n + 2) + g[n + 1] + 10
    <2>1. PICK k \in 0 .. 4 * n + 5 : /\ k = 4 * n + 5 /\ k # 0 /\ ~(k <= 1 + n) /\ ~(k <= 2 * n + 1)
                                      /\ ~(k <= 3 * n + 3) /\ ~(k <= 4 * n + 4)
      <3>1. /\ 4 * n + 5 \in 0 .. 4 * n + 5 /\ 4 * n + 5 # 0 /\ ~(4 * n + 5 <= 1 + n)
            /\ ~(4 * n + 5 <= 2 * n + 1) /\ ~(4 * n + 5 <= 3 * n + 3) /\ ~(4 * n + 5 <= 4 * n + 4)
        OBVIOUS
      <3> QED BY <3>1
    <2>2. E[k] = shoff + 64 * (n + 2) + g[n + 1] + 10
      BY <1>1, <2>1
    <2> QED BY <2>1, <2>2
  <1>8. ElfEnds(x, n, E)
    BY <1>2, <1>3, <1>4, <1>5, <1>6, <1>7 DEF ElfEnds, f, g, d, shoff
  <1> QED BY <1>8

LEMMA HeaderFields ==
    ASSUME NEW x
    PROVE  /\ HeaderOf(x).length = 64 /\ HeaderOf(x).kind = "ehdr"
           /\ HeaderOf(x).entry = x.entry /\ HeaderOf(x).phoff = 64 /\ HeaderOf(x).phnum = x.n
           /\ HeaderOf(x).shoff = BodyEnd(x, x.n) /\ HeaderOf(x).shstrndx = x.n + 1
  BY DEF HeaderOf, HeaderBy, EhdrSize

LEMMA NullFields == NullHeader.length = 64 /\ NullHeader.kind = "shdr"
  BY DEF NullHeader, ShdrSize

LEMMA ShdrFields ==
    ASSUME NEW x, NEW i
    PROVE  ShdrOf(x, i).length = 64 /\ ShdrOf(x, i).kind = "shdr"
  BY DEF ShdrOf, ShdrSize

LEMMA StrtabFields ==
    ASSUME NEW x
    PROVE  StrtabOf(x).length = 64 /\ StrtabOf(x).kind = "shdr"
  BY DEF StrtabOf, StrtabBy, ShdrSize

LEMMA NameFields ==
    ASSUME NEW name
    PROVE  NameOf(name).length = name.length + 1 /\ NameOf(name).kind = "name" /\ NameOf(name).text = name.text
  BY DEF NameOf

LEMMA NullNameFields == NullName.length = 1 /\ NullName.kind = "name"
  BY DEF NullName

LEMMA StrtabNameFields == NameOf(StrtabName).length = 10 /\ NameOf(StrtabName).kind = "name"
  <1>1. StrtabName.length = 9
    BY DEF StrtabName
  <1>2. NameOf(StrtabName).length = 9 + 1
    BY <1>1, NameFields
  <1> QED BY <1>2, NameFields

\* The numbers in the headers and in the positions.
LEMMA ElfNumbers ==
    ASSUME NEW x, GoodParts(x), NEW n \in Nat \ {0}, n = x.n
    PROVE  LET f == DataOffsets(ProgsOf(x))
               g == NameOffsets(SecsOf(x))
           IN  /\ f[1] = 64 + 56 * n /\ g[1] = 1
               /\ \A i \in 1 .. n : f[i] \in Nat /\ Len(x.data[i]) \in Nat /\ x.name[i].length \in Nat
               /\ \A i \in 1 .. n + 1 : g[i] \in Nat
               /\ \A i \in 1 .. n : i # 1 => f[i] = f[i - 1] + Len(x.data[i - 1])
               /\ \A i \in 1 .. n : g[i + 1] = g[i] + (x.name[i].length + 1)
               /\ BodyEnd(x, n) \in Nat /\ BodyEnd(x, n) = f[n] + Len(x.data[n])
  <1> DEFINE f == DataOffsets(ProgsOf(x))
             g == NameOffsets(SecsOf(x))
             d == [i \in 1 .. x.n |-> Len(x.data[i])]
             e == [i \in 1 .. x.n |-> x.name[i].length + 1]
  <1>1. Total(f, n, 64 + 56 * n, d) /\ Total(g, n + 1, 1, e)
    BY PartsAre
  <1>2. \A i \in 1 .. n : d[i] = Len(x.data[i]) /\ e[i] = x.name[i].length + 1
    OBVIOUS
  <1>3. \A i \in 1 .. n : Len(x.data[i]) \in Nat /\ x.name[i].length \in Nat
    BY DEF GoodParts, IsSequence
  <1>4. n # 0 /\ n \in 1 .. n
    OBVIOUS
  <1>5. BodyEnd(x, n) = f[n] + Len(x.data[n])
    BY <1>4 DEF BodyEnd
  <1> HIDE DEF f, g, d, e
  <1>6. f[n] \in Nat /\ Len(x.data[n]) \in Nat
    BY <1>1, <1>3, <1>4 DEF Total
  <1>7. \A i \in 1 .. n : i # 1 => f[i] = f[i - 1] + Len(x.data[i - 1])
    <2> TAKE i \in 1 .. n
    <2> HAVE i # 1
    <2>1. i - 1 \in 1 .. n
      OBVIOUS
    <2> QED BY <1>1, <1>2, <2>1 DEF Total
  <1>8. \A i \in 1 .. n : g[i + 1] = g[i] + (x.name[i].length + 1)
    <2> TAKE i \in 1 .. n
    <2>1. i + 1 \in 1 .. n + 1 /\ i + 1 # 1 /\ i + 1 - 1 = i
      OBVIOUS
    <2>2. g[i + 1] = g[i + 1 - 1] + e[i + 1 - 1]
      BY <1>1, <2>1 DEF Total
    <2> QED BY <1>2, <2>1, <2>2
  <1>9. BodyEnd(x, n) \in Nat
    <2>1. PICK a \in Nat, b \in Nat : a = f[n] /\ b = Len(x.data[n])
      BY <1>6
    <2> QED BY <1>5, <2>1
  <1>10. f[1] = 64 + 56 * n /\ g[1] = 1 /\ (\A i \in 1 .. n : f[i] \in Nat) /\ \A i \in 1 .. n + 1 : g[i] \in Nat
    BY <1>1 DEF Total
  <1> QED BY <1>3, <1>5, <1>7, <1>8, <1>9, <1>10 DEF f, g

LEMMA ElfSums ==
    ASSUME NEW x, GoodParts(x), NEW n \in Nat \ {0}, n = x.n, NEW w, ElfFile(x, n, w), NEW E, ElfEnds(x, n, E)
    PROVE  Sums(w, 4 * n + 5, E)
  <1> DEFINE f == DataOffsets(ProgsOf(x))
             g == NameOffsets(SecsOf(x))
             shoff == BodyEnd(x, n)
  <1>n. /\ f[1] = 64 + 56 * n /\ g[1] = 1
        /\ \A i \in 1 .. n : f[i] \in Nat /\ Len(x.data[i]) \in Nat /\ x.name[i].length \in Nat
        /\ \A i \in 1 .. n + 1 : g[i] \in Nat
        /\ \A i \in 1 .. n : i # 1 => f[i] = f[i - 1] + Len(x.data[i - 1])
        /\ \A i \in 1 .. n : g[i + 1] = g[i] + (x.name[i].length + 1)
        /\ shoff \in Nat /\ shoff = f[n] + Len(x.data[n])
    BY ZenonT(60), ElfNumbers
  <1>e. /\ E[0] = 0
        /\ \A k \in 1 .. 1 + n : E[k] = 64 + 56 * (k - 1)
        /\ \A i \in 1 .. n : E[1 + n + i] = f[i] + Len(x.data[i])
        /\ \A j \in 1 .. n + 2 : E[2 * n + 1 + j] = shoff + 64 * j
        /\ \A j \in 1 .. n + 1 : E[3 * n + 3 + j] = shoff + 64 * (n + 2) + g[j]
        /\ E[4 * n + 5] = shoff + 64 * (n + 2) + g[n + 1] + 10
    BY DEF ElfEnds
  <1> HIDE DEF f, g, shoff
  <1>1. w[1].length = 64
    <2>1. HeaderOf(x).length = 64
      BY HeaderFields
    <2> QED
      BY <2>1 DEF ElfFile
  <1>2. ASSUME NEW i \in 1 .. n
        PROVE  w[1 + i].length = 56
    <2>1. PhdrOf(x, i).length = 56
      BY PhdrFields
    <2>2. w[1 + i] = PhdrOf(x, i)
      BY DEF ElfFile
    <2> QED
      BY <2>1, <2>2
  <1>3. ASSUME NEW i \in 1 .. n
        PROVE  w[1 + n + i].length = Len(x.data[i])
    <2>1. DataChunk(x, i).length = Len(x.data[i])
      BY DataFields
    <2>2. w[1 + n + i] = DataChunk(x, i)
      BY DEF ElfFile
    <2> QED
      BY <2>1, <2>2
  <1>4. w[2 * n + 2].length = 64
    BY NullFields DEF ElfFile
  <1>5. ASSUME NEW i \in 1 .. n
        PROVE  w[2 * n + 2 + i].length = 64
    <2>1. ShdrOf(x, i).length = 64
      BY ShdrFields
    <2>2. w[2 * n + 2 + i] = ShdrOf(x, i)
      BY DEF ElfFile
    <2> QED
      BY <2>1, <2>2
  <1>6. w[3 * n + 3].length = 64
    <2>1. StrtabOf(x).length = 64
      BY StrtabFields
    <2> QED
      BY <2>1 DEF ElfFile
  <1>7. w[3 * n + 4].length = 1
    BY NullNameFields DEF ElfFile
  <1>8. ASSUME NEW i \in 1 .. n
        PROVE  w[3 * n + 4 + i].length = x.name[i].length + 1
    <2>1. NameOf(x.name[i]).length = x.name[i].length + 1
      BY NameFields
    <2>2. w[3 * n + 4 + i] = NameOf(x.name[i])
      BY DEF ElfFile
    <2> QED
      BY <2>1, <2>2
  <1>9. w[4 * n + 5].length = 10
    BY StrtabNameFields DEF ElfFile
  <1>10. ASSUME NEW k \in 1 .. 4 * n + 5
         PROVE  w[k].length \in Nat /\ E[k] \in Nat /\ E[k] = E[k - 1] + w[k].length
    <2>1. CASE k = 1
      <3>1. E[1] = 64
        <4>1. 1 \in 1 .. 1 + n /\ 64 + 56 * (1 - 1) = 64
          OBVIOUS
        <4> QED
          BY <1>e, <4>1
      <3>2. k - 1 = 0
        BY <2>1
      <3> QED
        BY <2>1, <3>1, <3>2, <1>e, <1>1
    <2>2. CASE k \in 2 .. 1 + n
      <3>1. PICK i \in 1 .. n : k = 1 + i /\ k - 1 = i /\ i \in 1 .. 1 + n
        <4>1. k - 1 \in 1 .. n /\ k = 1 + (k - 1) /\ k - 1 \in 1 .. 1 + n
          BY <2>2
        <4> QED
          BY <4>1
      <3>2. w[k].length = 56
        BY <1>2, <3>1
      <3>3. E[k] = 64 + 56 * i
        <4>1. E[k] = 64 + 56 * (k - 1)
          BY <1>e, <2>2
        <4> QED
          BY <3>1, <4>1
      <3>4. E[i] = 64 + 56 * (i - 1)
        BY <1>e, <3>1
      <3>5. 64 + 56 * i \in Nat /\ 64 + 56 * i = 64 + 56 * (i - 1) + 56
        OBVIOUS
      <3> QED
        BY <3>1, <3>2, <3>3, <3>4, <3>5
    <2>3. CASE k \in 2 + n .. 2 * n + 1
      <3>1. PICK i \in 1 .. n : k = 1 + n + i
        <4>1. k - (1 + n) \in 1 .. n /\ k = 1 + n + (k - (1 + n))
          BY <2>3
        <4> QED
          BY <4>1
      <3>2. w[k].length = Len(x.data[i])
        BY <1>3, <3>1
      <3>3. E[k] = f[i] + Len(x.data[i])
        BY <1>e, <3>1
      <3>4. E[k - 1] = f[i]
        <4>1. CASE i = 1
          <5>1. k - 1 = 1 + n /\ 1 + n \in 1 .. 1 + n /\ 1 + n - 1 = n
            BY <3>1, <4>1
          <5>2. PICK k0 \in 1 .. 1 + n : k0 = 1 + n /\ k0 - 1 = n
            BY <5>1
          <5>3. E[k0] = 64 + 56 * (k0 - 1)
            BY <1>e
          <5> QED
            BY <5>1, <5>2, <5>3, <4>1, <1>n
        <4>2. CASE i # 1
          <5>1. PICK j \in 1 .. n : j = i - 1 /\ k - 1 = 1 + n + j
            <6>1. i - 1 \in 1 .. n /\ k - 1 = 1 + n + (i - 1)
              BY <3>1, <4>2
            <6> QED
              BY <6>1
          <5>2. E[1 + n + j] = f[j] + Len(x.data[j])
            BY <1>e
          <5>3. f[i] = f[j] + Len(x.data[j])
            BY <1>n, <4>2, <5>1
          <5> QED
            BY <5>1, <5>2, <5>3
        <4> QED
          BY <4>1, <4>2
      <3>5. f[i] \in Nat /\ Len(x.data[i]) \in Nat
        BY <1>n
      <3> QED
        BY <3>2, <3>3, <3>4, <3>5
    <2>4. CASE k \in 2 * n + 2 .. 3 * n + 3
      <3>1. PICK j \in 1 .. n + 2 : k = 2 * n + 1 + j
        <4>1. k - (2 * n + 1) \in 1 .. n + 2 /\ k = 2 * n + 1 + (k - (2 * n + 1))
          BY <2>4
        <4> QED
          BY <4>1
      <3>2. w[k].length = 64
        <4>1. CASE j = 1
          BY <3>1, <4>1, <1>4
        <4>2. CASE j = n + 2
          <5>1. k = 3 * n + 3
            BY <3>1, <4>2
          <5> QED
            BY <5>1, <1>6
        <4>3. CASE j # 1 /\ j # n + 2
          <5>1. j - 1 \in 1 .. n /\ k = 2 * n + 2 + (j - 1)
            BY <3>1, <4>3
          <5> QED
            BY <5>1, <1>5
        <4> QED
          BY <4>1, <4>2, <4>3
      <3>3. E[k] = shoff + 64 * j
        BY <1>e, <3>1
      <3>4. E[k - 1] = shoff + 64 * (j - 1)
        <4>1. CASE j = 1
          <5>1. k - 1 = 1 + n + n /\ n \in 1 .. n
            BY <3>1, <4>1
          <5>2. E[1 + n + n] = f[n] + Len(x.data[n])
            BY <1>e, <5>1
          <5>3. shoff + 64 * (j - 1) = shoff
            BY <4>1, <1>n
          <5> QED
            BY <5>1, <5>2, <5>3, <1>n
        <4>2. CASE j # 1
          <5>1. j - 1 \in 1 .. n + 2 /\ k - 1 = 2 * n + 1 + (j - 1)
            BY <3>1, <4>2
          <5> QED
            BY <1>e, <5>1
        <4> QED
          BY <4>1, <4>2
      <3>5. shoff \in Nat
        BY <1>n
      <3>6. shoff + 64 * j \in Nat /\ shoff + 64 * j = shoff + 64 * (j - 1) + 64
        BY <3>5
      <3> QED
        BY <3>2, <3>3, <3>4, <3>6
    <2>5. CASE k \in 3 * n + 4 .. 4 * n + 4
      <3>1. PICK j \in 1 .. n + 1 : k = 3 * n + 3 + j
        <4>1. k - (3 * n + 3) \in 1 .. n + 1 /\ k = 3 * n + 3 + (k - (3 * n + 3))
          BY <2>5
        <4> QED
          BY <4>1
      <3>2. E[k] = shoff + 64 * (n + 2) + g[j]
        BY <1>e, <3>1
      <3>3. g[j] \in Nat /\ shoff \in Nat
        BY <1>n
      <3>4. PICK base \in Nat : base = shoff + 64 * (n + 2)
        BY <3>3
      <3>5. CASE j = 1
        <4>1. k = 3 * n + 4 /\ k - 1 = 2 * n + 1 + (n + 2) /\ n + 2 \in 1 .. n + 2
          BY <3>1, <3>5
        <4>2. E[k - 1] = base
          BY ZenonT(60), <4>1, <1>e, <3>4
        <4>3. w[k].length = 1 /\ g[j] = 1
          BY <4>1, <1>7, <1>n, <3>5
        <4>4. E[k] = base + 1
          BY <3>2, <3>4, <4>3
        <4> QED
          BY <4>2, <4>3, <4>4
      <3>6. CASE j # 1
        <4>1. PICK i \in 1 .. n : j = i + 1 /\ k = 3 * n + 4 + i /\ k - 1 = 3 * n + 3 + i /\ i \in 1 .. n + 1
          <5>1. j - 1 \in 1 .. n /\ j = (j - 1) + 1 /\ k = 3 * n + 4 + (j - 1) /\ k - 1 = 3 * n + 3 + (j - 1)
            BY <3>1, <3>6
          <5> QED
            BY <5>1
        <4>2. w[k].length = x.name[i].length + 1
          BY <1>8, <4>1
        <4>3. E[k - 1] = base + g[i]
          BY <1>e, <4>1, <3>4
        <4>4. g[j] = g[i] + (x.name[i].length + 1) /\ g[i] \in Nat /\ x.name[i].length \in Nat
          BY <1>n, <4>1
        <4>5. E[k] = base + g[j]
          BY <3>2, <3>4
        <4> QED
          BY <4>2, <4>3, <4>4, <4>5
      <3> QED
        BY <3>5, <3>6
    <2>6. CASE k = 4 * n + 5
      <3>1. E[k - 1] = shoff + 64 * (n + 2) + g[n + 1]
        <4>1. n + 1 \in 1 .. n + 1 /\ k - 1 = 3 * n + 3 + (n + 1)
          BY <2>6
        <4> QED
          BY SMTT(60), <1>e, <4>1
      <3>2. g[n + 1] \in Nat /\ shoff \in Nat
        BY <1>n
      <3>3. w[k].length = 10 /\ E[k] = shoff + 64 * (n + 2) + g[n + 1] + 10
        BY <2>6, <1>9, <1>e
      <3>4. PICK base \in Nat : base = shoff + 64 * (n + 2)
        BY <3>2
      <3> QED
        BY <3>1, <3>2, <3>3, <3>4
    <2> QED
      BY <2>1, <2>2, <2>3, <2>4, <2>5, <2>6
  <1> QED
    BY <1>e, <1>10 DEF Sums

\* Where the chunks begin.
ElfBegins(n, E, f, g, shoff) ==
    /\ \A i \in 1 .. n : E[(1 + i) - 1] = 64 + (i - 1) * 56
    /\ \A i \in 1 .. n : E[(1 + n + i) - 1] = f[i]
    /\ \A i \in 1 .. n + 2 : E[(2 * n + 1 + i) - 1] = shoff + (i - 1) * 64
    /\ \A i \in 1 .. n : E[(3 * n + 4 + i) - 1] = shoff + 64 * (n + 2) + g[i]
    /\ E[(4 * n + 5) - 1] = shoff + 64 * (n + 2) + g[n + 1]

LEMMA ElfStarts ==
    ASSUME NEW x, GoodParts(x), NEW n \in Nat \ {0}, n = x.n, NEW E, ElfEnds(x, n, E)
    PROVE  ElfBegins(n, E, DataOffsets(ProgsOf(x)), NameOffsets(SecsOf(x)), BodyEnd(x, n))
  <1>0. PICK f, g, shoff : f = DataOffsets(ProgsOf(x)) /\ g = NameOffsets(SecsOf(x)) /\ shoff = BodyEnd(x, n)
    OBVIOUS
  <1>n. /\ f[1] = 64 + 56 * n /\ g[1] = 1
        /\ \A i \in 1 .. n : f[i] \in Nat /\ Len(x.data[i]) \in Nat /\ x.name[i].length \in Nat
        /\ \A i \in 1 .. n + 1 : g[i] \in Nat
        /\ \A i \in 1 .. n : i # 1 => f[i] = f[i - 1] + Len(x.data[i - 1])
        /\ \A i \in 1 .. n : g[i + 1] = g[i] + (x.name[i].length + 1)
        /\ shoff \in Nat /\ shoff = f[n] + Len(x.data[n])
    <2>1. LET a == DataOffsets(ProgsOf(x))
              b == NameOffsets(SecsOf(x))
          IN  /\ a[1] = 64 + 56 * n /\ b[1] = 1
              /\ \A i \in 1 .. n : a[i] \in Nat /\ Len(x.data[i]) \in Nat /\ x.name[i].length \in Nat
              /\ \A i \in 1 .. n + 1 : b[i] \in Nat
              /\ \A i \in 1 .. n : i # 1 => a[i] = a[i - 1] + Len(x.data[i - 1])
              /\ \A i \in 1 .. n : b[i + 1] = b[i] + (x.name[i].length + 1)
              /\ BodyEnd(x, n) \in Nat /\ BodyEnd(x, n) = a[n] + Len(x.data[n])
      BY ZenonT(60), ElfNumbers
    <2> QED
      BY <1>0, <2>1
  <1>e. /\ E[0] = 0
        /\ \A k \in 1 .. 1 + n : E[k] = 64 + 56 * (k - 1)
        /\ \A i \in 1 .. n : E[1 + n + i] = f[i] + Len(x.data[i])
        /\ \A j \in 1 .. n + 2 : E[2 * n + 1 + j] = shoff + 64 * j
        /\ \A j \in 1 .. n + 1 : E[3 * n + 3 + j] = shoff + 64 * (n + 2) + g[j]
        /\ E[4 * n + 5] = shoff + 64 * (n + 2) + g[n + 1] + 10
    BY <1>0 DEF ElfEnds
  <1>1. ASSUME NEW i \in 1 .. n
        PROVE  E[(1 + i) - 1] = 64 + (i - 1) * 56
    <2>1. (1 + i) - 1 = i /\ i \in 1 .. 1 + n /\ 64 + 56 * (i - 1) = 64 + (i - 1) * 56
      OBVIOUS
    <2> QED
      BY <1>e, <2>1
  <1>2. ASSUME NEW i \in 1 .. n
        PROVE  E[(1 + n + i) - 1] = f[i]
    <2>1. CASE i = 1
      <3>1. (1 + n + i) - 1 = 1 + n /\ 1 + n \in 1 .. 1 + n /\ 1 + n - 1 = n
        BY <2>1
      <3>2. PICK k0 \in 1 .. 1 + n : k0 = 1 + n /\ k0 - 1 = n
        BY <3>1
      <3>3. E[k0] = 64 + 56 * (k0 - 1)
        BY <1>e
      <3> QED
        BY <3>1, <3>2, <3>3, <2>1, <1>n
    <2>2. CASE i # 1
      <3>1. PICK j \in 1 .. n : j = i - 1 /\ (1 + n + i) - 1 = 1 + n + j
        <4>1. i - 1 \in 1 .. n /\ (1 + n + i) - 1 = 1 + n + (i - 1)
          BY <2>2
        <4> QED
          BY <4>1
      <3>2. E[1 + n + j] = f[j] + Len(x.data[j])
        BY <1>e
      <3>3. f[i] = f[j] + Len(x.data[j])
        BY <1>n, <2>2, <3>1
      <3> QED
        BY <3>1, <3>2, <3>3
    <2> QED
      BY <2>1, <2>2
  <1>3. ASSUME NEW i \in 1 .. n + 2
        PROVE  E[(2 * n + 1 + i) - 1] = shoff + (i - 1) * 64
    <2>1. CASE i = 1
      <3>1. (2 * n + 1 + i) - 1 = 1 + n + n /\ n \in 1 .. n
        BY <2>1
      <3>2. E[1 + n + n] = f[n] + Len(x.data[n])
        BY <1>e, <3>1
      <3>3. shoff + (i - 1) * 64 = shoff
        BY <2>1, <1>n
      <3> QED
        BY <3>1, <3>2, <3>3, <1>n
    <2>2. CASE i # 1
      <3>1. PICK j \in 1 .. n + 2 : j = i - 1 /\ (2 * n + 1 + i) - 1 = 2 * n + 1 + j
        <4>1. i - 1 \in 1 .. n + 2 /\ (2 * n + 1 + i) - 1 = 2 * n + 1 + (i - 1)
          BY <2>2
        <4> QED
          BY <4>1
      <3>2. E[2 * n + 1 + j] = shoff + 64 * j
        BY <1>e
      <3>3. shoff + 64 * j = shoff + (i - 1) * 64
        BY <3>1, <1>n
      <3> QED
        BY <3>1, <3>2, <3>3
    <2> QED
      BY <2>1, <2>2
  <1>4. ASSUME NEW i \in 1 .. n
        PROVE  E[(3 * n + 4 + i) - 1] = shoff + 64 * (n + 2) + g[i]
    <2>1. (3 * n + 4 + i) - 1 = 3 * n + 3 + i /\ i \in 1 .. n + 1
      OBVIOUS
    <2> QED
      BY <1>e, <2>1
  <1>5. E[(4 * n + 5) - 1] = shoff + 64 * (n + 2) + g[n + 1]
    <2>1. (4 * n + 5) - 1 = 3 * n + 3 + (n + 1) /\ n + 1 \in 1 .. n + 1
      OBVIOUS
    <2> QED
      BY SMTT(60), <1>e, <2>1
  <1> QED
    <2>1. ElfBegins(n, E, f, g, shoff)
      BY <1>1, <1>2, <1>3, <1>4, <1>5 DEF ElfBegins
    <2> QED
      BY <1>0, <2>1

-----------------------------------------------------------------------------
(* What a pointer finds                                                    *)

LEMMA ElfKinds ==
    ASSUME NEW x, GoodParts(x), NEW n \in Nat \ {0}, n = x.n, NEW w, ElfFile(x, n, w), NEW k \in 1 .. 4 * n + 5
    PROVE  \/ \E i \in 1 .. n : w[k] = DataChunk(x, i)
           \/ w[k].length \in Nat \ {0} /\ w[k].kind # "data"
  <1>1. CASE k = 1
    <2>1. HeaderOf(x).length = 64 /\ HeaderOf(x).kind = "ehdr"
      BY HeaderFields
    <2>2. w[1] = HeaderOf(x)
      BY DEF ElfFile
    <2>3. 64 \in Nat \ {0} /\ "ehdr" # "data"
      OBVIOUS
    <2> QED
      BY <1>1, <2>1, <2>2, <2>3
  <1>2. CASE k \in 2 .. 1 + n
    <2>1. PICK i \in 1 .. n : k = 1 + i
      <3>1. k - 1 \in 1 .. n /\ k = 1 + (k - 1)
        BY <1>2
      <3> QED
        BY <3>1
    <2>2. PhdrOf(x, i).length = 56 /\ PhdrOf(x, i).kind = "phdr"
      BY PhdrFields
    <2>3. w[1 + i] = PhdrOf(x, i)
      BY DEF ElfFile
    <2> QED
      BY <2>1, <2>2, <2>3
  <1>3. CASE k \in 2 + n .. 2 * n + 1
    <2>1. PICK i \in 1 .. n : k = 1 + n + i
      <3>1. k - (1 + n) \in 1 .. n /\ k = 1 + n + (k - (1 + n))
        BY <1>3
      <3> QED
        BY <3>1
    <2>2. w[1 + n + i] = DataChunk(x, i)
      BY DEF ElfFile
    <2> QED
      BY <2>1, <2>2
  <1>4. CASE k = 2 * n + 2
    <2>1. w[2 * n + 2] = NullHeader
      BY DEF ElfFile
    <2> QED
      BY <1>4, <2>1, NullFields
  <1>5. CASE k \in 2 * n + 3 .. 3 * n + 2
    <2>1. PICK i \in 1 .. n : k = 2 * n + 2 + i
      <3>1. k - (2 * n + 2) \in 1 .. n /\ k = 2 * n + 2 + (k - (2 * n + 2))
        BY <1>5
      <3> QED
        BY <3>1
    <2>2. ShdrOf(x, i).length = 64 /\ ShdrOf(x, i).kind = "shdr"
      BY ShdrFields
    <2>3. w[2 * n + 2 + i] = ShdrOf(x, i)
      BY DEF ElfFile
    <2> QED
      BY <2>1, <2>2, <2>3
  <1>6. CASE k = 3 * n + 3
    <2>1. StrtabOf(x).length = 64 /\ StrtabOf(x).kind = "shdr"
      BY StrtabFields
    <2>2. w[3 * n + 3] = StrtabOf(x)
      BY DEF ElfFile
    <2> QED
      BY <1>6, <2>1, <2>2
  <1>7. CASE k = 3 * n + 4
    <2>1. w[3 * n + 4] = NullName
      BY DEF ElfFile
    <2> QED
      BY <1>7, <2>1, NullNameFields
  <1>8. CASE k \in 3 * n + 5 .. 4 * n + 4
    <2>1. PICK i \in 1 .. n : k = 3 * n + 4 + i
      <3>1. k - (3 * n + 4) \in 1 .. n /\ k = 3 * n + 4 + (k - (3 * n + 4))
        BY <1>8
      <3> QED
        BY <3>1
    <2>2. NameOf(x.name[i]).length = x.name[i].length + 1 /\ NameOf(x.name[i]).kind = "name"
      BY NameFields
    <2>3. w[3 * n + 4 + i] = NameOf(x.name[i])
      BY DEF ElfFile
    <2>4. x.name[i].length \in Nat \ {0}
      BY DEF GoodParts
    <2>5. x.name[i].length + 1 \in Nat \ {0}
      <3>1. PICK l \in Nat : l = x.name[i].length
        BY <2>4
      <3> QED
        BY <3>1
    <2> QED
      BY <2>1, <2>2, <2>3, <2>5
  <1>9. CASE k = 4 * n + 5
    <2>1. w[4 * n + 5] = NameOf(StrtabName)
      BY DEF ElfFile
    <2> QED
      BY <1>9, <2>1, StrtabNameFields
  <1>10. \/ k = 1 \/ k \in 2 .. 1 + n \/ k \in 2 + n .. 2 * n + 1 \/ k = 2 * n + 2
         \/ k \in 2 * n + 3 .. 3 * n + 2 \/ k = 3 * n + 3 \/ k = 3 * n + 4
         \/ k \in 3 * n + 5 .. 4 * n + 4 \/ k = 4 * n + 5
    OBVIOUS
  <1> QED
    BY <1>1, <1>2, <1>3, <1>4, <1>5, <1>6, <1>7, <1>8, <1>9, <1>10

\* Two chunks that begin at the same offset are the same one, if they hold anything.
LEMMA ElfApart ==
    ASSUME NEW x, GoodParts(x), NEW n \in Nat \ {0}, n = x.n, NEW w, ElfFile(x, n, w), NEW E, ElfEnds(x, n, E),
           NEW k \in 1 .. 4 * n + 5, NEW j \in 1 .. 4 * n + 5, E[j - 1] = E[k - 1],
           w[k].kind # "data", w[j].kind # "data"
    PROVE  j = k
  <1>1. \/ \E i \in 1 .. n : w[k] = DataChunk(x, i)
        \/ w[k].length \in Nat \ {0} /\ w[k].kind # "data"
    BY ElfKinds
  <1>2. \/ \E i \in 1 .. n : w[j] = DataChunk(x, i)
        \/ w[j].length \in Nat \ {0} /\ w[j].kind # "data"
    BY ElfKinds
  <1>3. \A i \in 1 .. n : DataChunk(x, i).kind = "data"
    BY DataFields
  <1>4. w[k].length > 0 /\ w[j].length > 0
    BY <1>1, <1>2, <1>3
  <1>5. PICK m \in Nat : m = 4 * n + 5
    OBVIOUS
  <1>6. Sums(w, m, E)
    BY ElfSums, <1>5
  <1> QED
    BY <1>4, <1>5, <1>6, ChunksApart

Finds(w, E, k) == \A missing : Chunk(w, E[k - 1], w[k].kind, w[k].length, missing) = w[k]

\* What a pointer to a chunk finds is that chunk.
LEMMA ElfFinds ==
    ASSUME NEW x, GoodParts(x), NEW n \in Nat \ {0}, n = x.n, NEW w, ElfFile(x, n, w), NEW E, ElfEnds(x, n, E),
           NEW k \in 1 .. 4 * n + 5
    PROVE  Finds(w, E, k)
  <1>0. PICK where, kind, length : where = E[k - 1] /\ kind = w[k].kind /\ length = w[k].length
    OBVIOUS
  <1>1. ASSUME NEW j \in 1 .. 4 * n + 5, E[j - 1] = where, w[j].kind = kind, w[j].length = length
        PROVE  w[j] = w[k]
    <2>1. CASE kind # "data"
      <3>1. w[j].kind # "data" /\ w[k].kind # "data" /\ E[j - 1] = E[k - 1]
        BY <1>0, <1>1, <2>1
      <3>2. j = k
        BY <3>1, ElfApart
      <3> QED
        BY <3>2
    <2>2. CASE kind = "data"
      <3>1. \/ \E i \in 1 .. n : w[k] = DataChunk(x, i)
            \/ w[k].length \in Nat \ {0} /\ w[k].kind # "data"
        BY ElfKinds
      <3>2. \/ \E i \in 1 .. n : w[j] = DataChunk(x, i)
            \/ w[j].length \in Nat \ {0} /\ w[j].kind # "data"
        BY ElfKinds
      <3>3. PICK a \in 1 .. n : w[k] = DataChunk(x, a)
        BY <1>0, <3>1, <2>2
      <3>4. PICK b \in 1 .. n : w[j] = DataChunk(x, b)
        BY <3>2, <2>2, <1>1
      <3>5. /\ DataChunk(x, a).length = Len(x.data[a]) /\ DataChunk(x, b).length = Len(x.data[b])
        BY DataFields
      <3>6. IsSequence(x.data[a]) /\ IsSequence(x.data[b])
        BY DEF GoodParts
      <3>7. Len(x.data[a]) = Len(x.data[b]) /\ length = Len(x.data[a]) /\ length \in Nat
        BY <1>0, <3>3, <3>4, <3>5, <3>6, <1>1 DEF IsSequence
      <3>8. CASE length = 0
        <4>1. \A i \in 1 .. Len(x.data[a]) : x.data[a][i] = x.data[b][i]
          BY <3>7, <3>8
        <4>2. x.data[a] = x.data[b]
          BY <3>6, <3>7, <4>1, SameSequence
        <4>3. DataChunk(x, a) = DataChunk(x, b)
          BY <4>2 DEF DataChunk
        <4> QED
          BY <4>3, <3>3, <3>4
      <3>9. CASE length # 0
        <4>1. w[k].length > 0 /\ w[j].length > 0
          BY <1>0, <3>7, <3>9, <1>1
        <4>2. PICK m \in Nat : m = 4 * n + 5
          OBVIOUS
        <4>3. Sums(w, m, E)
          BY ElfSums, <4>2
        <4>4. j = k
          BY <1>0, <4>1, <4>2, <4>3, <1>1, ChunksApart
        <4> QED
          BY <4>4
      <3> QED
        BY <3>8, <3>9
    <2> QED
      BY <2>1, <2>2
  <1>2. PICK m \in Nat : m = 4 * n + 5
    OBVIOUS
  <1>3. Sums(w, m, E)
    BY ElfSums, <1>2
  <1>4. m \in Nat /\ IsSequence(w) /\ m = Len(w) /\ k \in 1 .. m
    BY <1>2 DEF ElfFile
  <1>5. Only(w, m, E, k)
    BY <1>0, <1>1, <1>2 DEF Only
  <1>6. ASSUME NEW missing
        PROVE  Chunk(w, E[k - 1], w[k].kind, w[k].length, missing) = w[k]
    BY SMTT(60), <1>3, <1>4, <1>5, ChunkFound
  <1> QED
    BY <1>6 DEF Finds

NamesAt(w, strtab, shdr) ==
    {w[i].text : i \in {j \in 1 .. Len(w) : w[j].kind = "name" /\ At(w, j) = strtab.offset + shdr.name}}

LoadedBy(w, ehdr, phdrs, shdrs, strtab) ==
    << ehdr.entry,
       [i \in 1 .. ehdr.phnum |->
           IF /\ phdrs[i].flags = shdrs[i + 1].flags
              /\ phdrs[i].vaddr = shdrs[i + 1].addr
              /\ phdrs[i].offset = shdrs[i + 1].offset
              /\ phdrs[i].filesz = shdrs[i + 1].size
              /\ strtab.offset + strtab.size = Length(w)
              /\ NamesAt(w, strtab, strtab) = {StrtabName.text}
           THEN << NamesAt(w, strtab, shdrs[i + 1]), phdrs[i].vaddr,
                   Chunk(w, phdrs[i].offset, "data", phdrs[i].filesz, [data |-> "?"]).data, phdrs[i].flags >>
           ELSE << "?" >>] >>

LEMMA LoadedIs ==
    ASSUME NEW w
    PROVE  Loaded(w) =
              LoadedBy(w, w[1], Headers(w, w[1].phoff, w[1].phnum, PhdrSize, "phdr"),
                       Headers(w, w[1].shoff, w[1].shnum, ShdrSize, "shdr"),
                       Headers(w, w[1].shoff, w[1].shnum, ShdrSize, "shdr")[w[1].shstrndx + 1])
  BY DEF Loaded, LoadedBy, NamesAt

LEMMA ElfPhdrs ==
    ASSUME NEW x, GoodParts(x), NEW n \in Nat \ {0}, n = x.n, NEW w, ElfFile(x, n, w), NEW E, ElfEnds(x, n, E)
    PROVE  Headers(w, 64, n, PhdrSize, "phdr") = [i \in 1 .. n |-> PhdrOf(x, i)]
  <1>1. ASSUME NEW i \in 1 .. n
        PROVE  Chunk(w, 64 + (i - 1) * 56, "phdr", 56, << >>) = PhdrOf(x, i)
    <2>1. PICK k \in 1 .. 4 * n + 5 : k = 1 + i
      <3>1. 1 + i \in 1 .. 4 * n + 5
        OBVIOUS
      <3> QED
        BY <3>1
    <2>2. Chunk(w, E[k - 1], w[k].kind, w[k].length, << >>) = w[k]
      <3>1. Finds(w, E, k)
        BY ElfFinds
      <3> QED
        BY <3>1 DEF Finds
    <2>3. w[1 + i] = PhdrOf(x, i)
      BY DEF ElfFile
    <2>4. PhdrOf(x, i).length = 56 /\ PhdrOf(x, i).kind = "phdr"
      BY PhdrFields
    <2>6. \A a \in 1 .. n : E[(1 + a) - 1] = 64 + (a - 1) * 56
      <3>1. ElfBegins(n, E, DataOffsets(ProgsOf(x)), NameOffsets(SecsOf(x)), BodyEnd(x, n))
        BY ElfStarts
      <3> QED
        BY <3>1, Zenon DEF ElfBegins
    <2>7. E[k - 1] = 64 + (i - 1) * 56
      BY <2>1, <2>6
    <2> QED
      BY <2>1, <2>2, <2>3, <2>4, <2>7
  <1> QED
    BY <1>1 DEF Headers, PhdrSize

LEMMA ElfShdrs ==
    ASSUME NEW x, GoodParts(x), NEW n \in Nat \ {0}, n = x.n, NEW w, ElfFile(x, n, w), NEW E, ElfEnds(x, n, E),
           NEW shdrs, shdrs = Headers(w, BodyEnd(x, n), n + 2, ShdrSize, "shdr")
    PROVE  shdrs[n + 2] = StrtabOf(x) /\ \A i \in 1 .. n : shdrs[i + 1] = ShdrOf(x, i)
  <1>1. ASSUME NEW i \in 1 .. n + 2, NEW k \in 1 .. 4 * n + 5, k = 2 * n + 1 + i, w[k].kind = "shdr", w[k].length = 64
        PROVE  shdrs[i] = w[k]
    <2>1. Chunk(w, E[k - 1], w[k].kind, w[k].length, << >>) = w[k]
      <3>1. Finds(w, E, k)
        BY ElfFinds
      <3> QED
        BY <3>1 DEF Finds
    <2>2. PICK f, g, shoff : f = DataOffsets(ProgsOf(x)) /\ g = NameOffsets(SecsOf(x)) /\ shoff = BodyEnd(x, n)
      OBVIOUS
    <2>3. \A a \in 1 .. n + 2 : E[(2 * n + 1 + a) - 1] = shoff + (a - 1) * 64
      <3>1. ElfBegins(n, E, DataOffsets(ProgsOf(x)), NameOffsets(SecsOf(x)), BodyEnd(x, n))
        BY ElfStarts
      <3> QED
        BY <2>2, <3>1, Zenon DEF ElfBegins
    <2>4. E[k - 1] = BodyEnd(x, n) + (i - 1) * 64
      BY <1>1, <2>2, <2>3
    <2>5. shdrs[i] = Chunk(w, BodyEnd(x, n) + (i - 1) * 64, "shdr", 64, << >>)
      BY DEF Headers, ShdrSize
    <2> QED
      BY <1>1, <2>1, <2>4, <2>5
  <1>2. shdrs[n + 2] = StrtabOf(x)
    <2>1. PICK i \in 1 .. n + 2, k \in 1 .. 4 * n + 5 : i = n + 2 /\ k = 3 * n + 3 /\ k = 2 * n + 1 + i
      <3>1. n + 2 \in 1 .. n + 2 /\ 3 * n + 3 \in 1 .. 4 * n + 5 /\ 3 * n + 3 = 2 * n + 1 + (n + 2)
        OBVIOUS
      <3> QED
        BY <3>1
    <2>2. w[3 * n + 3] = StrtabOf(x)
      BY DEF ElfFile
    <2>3. StrtabOf(x).length = 64 /\ StrtabOf(x).kind = "shdr"
      BY StrtabFields
    <2>4. w[k].kind = "shdr" /\ w[k].length = 64
      BY <2>1, <2>2, <2>3
    <2>5. shdrs[i] = w[k]
      BY <1>1, <2>1, <2>4
    <2> QED
      BY <2>1, <2>2, <2>5
  <1>3. ASSUME NEW i \in 1 .. n
        PROVE  shdrs[i + 1] = ShdrOf(x, i)
    <2>1. PICK j \in 1 .. n + 2, k \in 1 .. 4 * n + 5 : j = i + 1 /\ k = 2 * n + 2 + i /\ k = 2 * n + 1 + j
      <3>1. i + 1 \in 1 .. n + 2 /\ 2 * n + 2 + i \in 1 .. 4 * n + 5 /\ 2 * n + 2 + i = 2 * n + 1 + (i + 1)
        OBVIOUS
      <3> QED
        BY <3>1
    <2>2. w[2 * n + 2 + i] = ShdrOf(x, i)
      BY DEF ElfFile
    <2>3. ShdrOf(x, i).length = 64 /\ ShdrOf(x, i).kind = "shdr"
      BY ShdrFields
    <2>4. w[k].kind = "shdr" /\ w[k].length = 64
      BY <2>1, <2>2, <2>3
    <2>5. shdrs[j] = w[k]
      BY <1>1, <2>1, <2>4
    <2> QED
      BY <2>1, <2>2, <2>5
  <1> QED
    BY <1>2, <1>3

\* The one name that a pointer finds.
LEMMA ElfName ==
    ASSUME NEW x, GoodParts(x), NEW n \in Nat \ {0}, n = x.n, NEW w, ElfFile(x, n, w), NEW E, ElfEnds(x, n, E),
           NEW k \in 1 .. 4 * n + 5, w[k].kind = "name", NEW strtab, NEW shdr, strtab.offset + shdr.name = E[k - 1]
    PROVE  NamesAt(w, strtab, shdr) = {w[k].text}
  <1>1. PICK m \in Nat : m = 4 * n + 5
    OBVIOUS
  <1>2. Sums(w, m, E)
    BY ElfSums, <1>1
  <1>3. IsSequence(w) /\ m = Len(w)
    BY <1>1 DEF ElfFile
  <1>4. \A j \in 1 .. m : At(w, j) = E[j - 1]
    BY <1>2, <1>3, AtIs
  <1>5. ASSUME NEW j \in 1 .. m, w[j].kind = "name", At(w, j) = E[k - 1]
        PROVE  j = k
    <2>1. E[j - 1] = E[k - 1] /\ w[j].kind # "data" /\ w[k].kind # "data" /\ j \in 1 .. 4 * n + 5
      BY <1>1, <1>4, <1>5
    <2> QED
      BY <2>1, ElfApart
  <1>6. k \in 1 .. m
    BY <1>1
  <1>7. {j \in 1 .. m : w[j].kind = "name" /\ At(w, j) = E[k - 1]} = {k}
    BY <1>4, <1>5, <1>6
  <1>8. NamesAt(w, strtab, shdr) = {w[i].text : i \in {k}}
    BY <1>3, <1>7 DEF NamesAt
  <1> QED
    BY <1>8

-----------------------------------------------------------------------------
(* An executable reads back                                                *)

LEMMA ElfData ==
    ASSUME NEW x, GoodParts(x), NEW n \in Nat \ {0}, n = x.n, NEW w, ElfFile(x, n, w), NEW E, ElfEnds(x, n, E),
           NEW i \in 1 .. n
    PROVE  \A missing : Chunk(w, DataOffsets(ProgsOf(x))[i], "data", Len(x.data[i]), missing) = DataChunk(x, i)
  <1>1. PICK k \in 1 .. 4 * n + 5 : k = 1 + n + i
    <2>1. 1 + n + i \in 1 .. 4 * n + 5
      OBVIOUS
    <2> QED
      BY <2>1
  <1>2. \A missing : Chunk(w, E[k - 1], w[k].kind, w[k].length, missing) = w[k]
    <2>1. Finds(w, E, k)
      BY ElfFinds
    <2> QED
      BY <2>1 DEF Finds
  <1>3. w[1 + n + i] = DataChunk(x, i)
    BY DEF ElfFile
  <1>4. DataChunk(x, i).length = Len(x.data[i]) /\ DataChunk(x, i).kind = "data"
    BY DataFields
  <1>5. E[(1 + n + i) - 1] = DataOffsets(ProgsOf(x))[i]
    <2>1. ElfBegins(n, E, DataOffsets(ProgsOf(x)), NameOffsets(SecsOf(x)), BodyEnd(x, n))
      BY ElfStarts
    <2> QED
      BY <2>1 DEF ElfBegins
  <1> QED
    BY <1>1, <1>2, <1>3, <1>4, <1>5

LEMMA ElfNames ==
    ASSUME NEW x, GoodParts(x), NEW n \in Nat \ {0}, n = x.n, NEW w, ElfFile(x, n, w), NEW E, ElfEnds(x, n, E)
    PROVE  /\ NamesAt(w, StrtabOf(x), StrtabOf(x)) = {StrtabName.text}
           /\ \A i \in 1 .. n : NamesAt(w, StrtabOf(x), ShdrOf(x, i)) = {x.name[i].text}
           /\ StrtabOf(x).offset + StrtabOf(x).size = Length(w)
  <1>0. PICK f, g, shoff : f = DataOffsets(ProgsOf(x)) /\ g = NameOffsets(SecsOf(x)) /\ shoff = BodyEnd(x, n)
    OBVIOUS
  <1>n. shoff \in Nat /\ g[n + 1] \in Nat
    <2>1. LET a == DataOffsets(ProgsOf(x))
              b == NameOffsets(SecsOf(x))
          IN  /\ a[1] = 64 + 56 * n /\ b[1] = 1
              /\ \A i \in 1 .. n : a[i] \in Nat /\ Len(x.data[i]) \in Nat /\ x.name[i].length \in Nat
              /\ \A i \in 1 .. n + 1 : b[i] \in Nat
              /\ \A i \in 1 .. n : i # 1 => a[i] = a[i - 1] + Len(x.data[i - 1])
              /\ \A i \in 1 .. n : b[i + 1] = b[i] + (x.name[i].length + 1)
              /\ BodyEnd(x, n) \in Nat /\ BodyEnd(x, n) = a[n] + Len(x.data[n])
      BY ZenonT(60), ElfNumbers
    <2>2. n + 1 \in 1 .. n + 1
      OBVIOUS
    <2> QED
      BY <1>0, <2>1, <2>2
  <1>b. ElfBegins(n, E, f, g, shoff)
    <2>1. ElfBegins(n, E, DataOffsets(ProgsOf(x)), NameOffsets(SecsOf(x)), BodyEnd(x, n))
      BY ElfStarts
    <2> QED
      BY <1>0, <2>1
  <1>a. PICK a \in Nat, b \in Nat : a = g[n + 1] /\ b = shoff + 64 * (n + 2)
    BY <1>n
  <1>s. StrtabOf(x).offset = b /\ StrtabOf(x).name = a /\ StrtabOf(x).size = a + 10
    <2>1. PICK t : t = a + 10
      OBVIOUS
    <2>2. StrtabOf(x) = StrtabBy(n, shoff, t)
      BY <1>0, <1>a, <2>1 DEF StrtabOf
    <2>3. PICK o, m : o = shoff + ShdrSize * (n + 2) /\ m = t - 10
      OBVIOUS
    <2>4. PICK r : r = StrtabBy(n, shoff, t)
      OBVIOUS
    <2>5. r = [kind |-> "shdr", length |-> ShdrSize, name |-> m, addr |-> 0, offset |-> o, size |-> t, flags |-> ""]
      BY <2>3, <2>4 DEF StrtabBy
    <2>6. r.offset = o /\ r.name = m /\ r.size = t
      BY <2>5
    <2>7. o = b
      BY <1>a, <2>3 DEF ShdrSize
    <2>8. m = a
      BY <2>1, <2>3
    <2> QED
      BY <2>1, <2>2, <2>4, <2>6, <2>7, <2>8
  <1>1. NamesAt(w, StrtabOf(x), StrtabOf(x)) = {StrtabName.text}
    <2>1. PICK k \in 1 .. 4 * n + 5 : k = 4 * n + 5
      <3>1. 4 * n + 5 \in 1 .. 4 * n + 5
        OBVIOUS
      <3> QED
        BY <3>1
    <2>2. w[4 * n + 5] = NameOf(StrtabName)
      BY DEF ElfFile
    <2>3. NameOf(StrtabName).kind = "name" /\ NameOf(StrtabName).text = StrtabName.text
      BY NameFields
    <2>4. E[(4 * n + 5) - 1] = shoff + 64 * (n + 2) + g[n + 1]
      BY <1>b DEF ElfBegins
    <2>6. StrtabOf(x).offset + StrtabOf(x).name = E[k - 1]
      <3>1. E[k - 1] = b + a
        BY <1>a, <2>1, <2>4
      <3> QED
        BY <1>s, <3>1
    <2>7. w[k].kind = "name"
      BY <2>1, <2>2, <2>3
    <2>8. NamesAt(w, StrtabOf(x), StrtabOf(x)) = {w[k].text}
      BY <2>6, <2>7, ElfName
    <2> QED
      BY <2>1, <2>2, <2>3, <2>8
  <1>2. ASSUME NEW i \in 1 .. n
        PROVE  NamesAt(w, StrtabOf(x), ShdrOf(x, i)) = {x.name[i].text}
    <2>1. PICK k \in 1 .. 4 * n + 5 : k = 3 * n + 4 + i
      <3>1. 3 * n + 4 + i \in 1 .. 4 * n + 5
        OBVIOUS
      <3> QED
        BY <3>1
    <2>2. w[3 * n + 4 + i] = NameOf(x.name[i])
      BY DEF ElfFile
    <2>3. NameOf(x.name[i]).kind = "name" /\ NameOf(x.name[i]).text = x.name[i].text
      BY NameFields
    <2>4. E[(3 * n + 4 + i) - 1] = shoff + 64 * (n + 2) + g[i]
      BY <1>b DEF ElfBegins
    <2>5. ShdrOf(x, i).name = g[i]
      BY <1>0 DEF ShdrOf
    <2>6. StrtabOf(x).offset + ShdrOf(x, i).name = E[k - 1]
      BY <1>a, <1>s, <2>1, <2>4, <2>5
    <2>7. w[k].kind = "name"
      BY <2>1, <2>2, <2>3
    <2>8. NamesAt(w, StrtabOf(x), ShdrOf(x, i)) = {w[k].text}
      BY <2>6, <2>7, ElfName
    <2> QED
      BY <2>1, <2>2, <2>3, <2>8
  <1>3. StrtabOf(x).offset + StrtabOf(x).size = Length(w)
    <2>1. PICK m \in Nat : m = 4 * n + 5
      OBVIOUS
    <2>2. Sums(w, m, E) /\ m = Len(w)
      BY ElfSums, <2>1 DEF ElfFile
    <2>3. Length(w) = E[m]
      BY <2>2, LengthIs
    <2>4. E[m] = shoff + 64 * (n + 2) + g[n + 1] + 10
      BY <1>0, <2>1 DEF ElfEnds
    <2>5. E[m] = b + a + 10
      BY <1>a, <2>4
    <2>6. b + a + 10 = b + (a + 10)
      BY <1>a
    <2> QED
      BY <1>s, <2>3, <2>5, <2>6
  <1> QED
    BY <1>1, <1>2, <1>3

\* Reading an executable by its headers gives back the parts it was written from.
LEMMA ElfLoads ==
    ASSUME NEW x, GoodParts(x), NEW n \in Nat \ {0}, n = x.n, NEW w, ElfFile(x, n, w)
    PROVE  Loaded(w) = << x.entry, [i \in 1 .. n |-> << {x.name[i].text}, x.start[i], x.data[i], x.flag[i] >>] >>
  <1>1. PICK E : ElfEnds(x, n, E)
    BY ElfEndsExist
  <1>2. w[1] = HeaderOf(x)
    BY DEF ElfFile
  <1>3. /\ w[1].entry = x.entry /\ w[1].phoff = 64 /\ w[1].phnum = n
        /\ w[1].shoff = BodyEnd(x, n) /\ w[1].shnum = n + 2 /\ w[1].shstrndx + 1 = n + 2
    <2>1. HeaderOf(x) = HeaderBy(x.entry, n, BodyEnd(x, n), n)
      BY DEF HeaderOf
    <2>2. PICK b : b = BodyEnd(x, n)
      OBVIOUS
    <2>3. /\ HeaderBy(x.entry, n, b, n).entry = x.entry /\ HeaderBy(x.entry, n, b, n).phoff = 64
          /\ HeaderBy(x.entry, n, b, n).phnum = n /\ HeaderBy(x.entry, n, b, n).shoff = b
          /\ HeaderBy(x.entry, n, b, n).shnum = n + 2 /\ HeaderBy(x.entry, n, b, n).shstrndx = n + 1
      BY DEF HeaderBy, EhdrSize
    <2>4. n + 1 + 1 = n + 2
      OBVIOUS
    <2> QED
      BY <1>2, <2>1, <2>2, <2>3, <2>4
  <1>4. PICK phdrs : phdrs = Headers(w, 64, n, PhdrSize, "phdr")
    OBVIOUS
  <1>5. PICK shdrs : shdrs = Headers(w, BodyEnd(x, n), n + 2, ShdrSize, "shdr")
    OBVIOUS
  <1>6. Loaded(w) = LoadedBy(w, w[1], phdrs, shdrs, shdrs[n + 2])
    <2>1. Loaded(w) =
              LoadedBy(w, w[1], Headers(w, w[1].phoff, w[1].phnum, PhdrSize, "phdr"),
                       Headers(w, w[1].shoff, w[1].shnum, ShdrSize, "shdr"),
                       Headers(w, w[1].shoff, w[1].shnum, ShdrSize, "shdr")[w[1].shstrndx + 1])
      BY LoadedIs
    <2> QED
      BY <1>3, <1>4, <1>5, <2>1
  <1>7. phdrs = [i \in 1 .. n |-> PhdrOf(x, i)]
    BY <1>1, <1>4, ElfPhdrs
  <1>8. shdrs[n + 2] = StrtabOf(x) /\ \A i \in 1 .. n : shdrs[i + 1] = ShdrOf(x, i)
    BY <1>1, <1>5, ElfShdrs
  <1>9. /\ NamesAt(w, StrtabOf(x), StrtabOf(x)) = {StrtabName.text}
        /\ \A i \in 1 .. n : NamesAt(w, StrtabOf(x), ShdrOf(x, i)) = {x.name[i].text}
        /\ StrtabOf(x).offset + StrtabOf(x).size = Length(w)
    BY <1>1, ElfNames
  <1> DEFINE Entry(i) ==
               IF /\ phdrs[i].flags = shdrs[i + 1].flags
                  /\ phdrs[i].vaddr = shdrs[i + 1].addr
                  /\ phdrs[i].offset = shdrs[i + 1].offset
                  /\ phdrs[i].filesz = shdrs[i + 1].size
                  /\ StrtabOf(x).offset + StrtabOf(x).size = Length(w)
                  /\ NamesAt(w, StrtabOf(x), StrtabOf(x)) = {StrtabName.text}
               THEN << NamesAt(w, StrtabOf(x), shdrs[i + 1]), phdrs[i].vaddr,
                       Chunk(w, phdrs[i].offset, "data", phdrs[i].filesz, [data |-> "?"]).data, phdrs[i].flags >>
               ELSE << "?" >>
  <1>10. LoadedBy(w, w[1], phdrs, shdrs, StrtabOf(x)) = << x.entry, [i \in 1 .. n |-> Entry(i)] >>
    BY <1>3 DEF LoadedBy
  <1>11. ASSUME NEW i \in 1 .. n
         PROVE  Entry(i) = << {x.name[i].text}, x.start[i], x.data[i], x.flag[i] >>
    <2>1. PICK p, s : p = PhdrOf(x, i) /\ s = ShdrOf(x, i)
      OBVIOUS
    <2>2. phdrs[i] = p /\ shdrs[i + 1] = s
      BY <1>7, <1>8, <2>1
    <2>3. /\ p.flags = x.flag[i] /\ p.vaddr = x.start[i] /\ p.offset = DataOffsets(ProgsOf(x))[i]
          /\ p.filesz = Len(x.data[i])
      BY <2>1 DEF PhdrOf
    <2>4. /\ s.flags = x.flag[i] /\ s.addr = x.start[i] /\ s.offset = DataOffsets(ProgsOf(x))[i]
          /\ s.size = Len(x.data[i])
      BY <2>1 DEF ShdrOf
    <2>5. NamesAt(w, StrtabOf(x), s) = {x.name[i].text}
      BY <1>9, <2>1
    <2>6. Chunk(w, p.offset, "data", p.filesz, [data |-> "?"]) = DataChunk(x, i)
      <3>1. \A missing : Chunk(w, DataOffsets(ProgsOf(x))[i], "data", Len(x.data[i]), missing) = DataChunk(x, i)
        BY ZenonT(60), <1>1, ElfData
      <3> QED
        BY <2>3, <3>1
    <2>7. DataChunk(x, i).data = x.data[i]
      BY DEF DataChunk
    <2>8. PICK c : c = Chunk(w, p.offset, "data", p.filesz, [data |-> "?"])
      OBVIOUS
    <2>9. Entry(i) = << NamesAt(w, StrtabOf(x), s), p.vaddr, c.data, p.flags >>
      BY <1>9, <2>2, <2>3, <2>4, <2>8
    <2> QED
      BY <2>3, <2>5, <2>6, <2>7, <2>8, <2>9
  <1> HIDE DEF Entry
  <1>12. [i \in 1 .. n |-> Entry(i)] = [i \in 1 .. n |-> << {x.name[i].text}, x.start[i], x.data[i], x.flag[i] >>]
    BY <1>11
  <1> QED
    BY <1>6, <1>8, <1>10, <1>12

(***************************************************************************)
(* An executable reads back: the file that ELFExecutable::WriteToStream    *)
(* makes of any parts is loaded with the same entry and, section by        *)
(* section, the same name, address, bytes and flags.                       *)
(***************************************************************************)
THEOREM ElfRead ==
    ASSUME NEW x, GoodParts(x), NEW n \in Nat \ {0}, n = x.n
    PROVE  Loaded(WriteToStream(x.entry, ProgsOf(x), SecsOf(x))) =
              << x.entry, [i \in 1 .. n |-> << {x.name[i].text}, x.start[i], x.data[i], x.flag[i] >>] >>
  <1>1. ElfFile(x, n, WithHeader(ElfSeq(x), HeaderOf(x)))
    BY ElfPlaces
  <1>2. WriteToStream(x.entry, ProgsOf(x), SecsOf(x)) = WithHeader(ElfSeq(x), HeaderOf(x))
    BY ElfIs
  <1> QED
    BY <1>1, <1>2, ElfLoads

=============================================================================
