--------------------------- MODULE LinkingProofs ---------------------------
(***************************************************************************)
(* The two passes of the assembler, for every program.                     *)
(*                                                                         *)
(* The layout of a program is a function l: l[s][i] is the address of item *)
(* i of section s and l[s][n + 1] the end of the section.  It exists for   *)
(* every program whose items are well formed (LayoutExists), and the first *)
(* pass reaches it (LaidState): each section holds the bytes of the items  *)
(* passed, with holes where a label is referred to, and jumpsToHere lists  *)
(* those places by label.  The second pass fills them in block by block    *)
(* (FillState): a place holds its label's address exactly when the block   *)
(* of the label is passed, and every other byte stands as it was.          *)
(*                                                                         *)
(* What holds in each phase makes the inductive invariant AssemblerInv,    *)
(* from which every step of the assembler is a step of Linking or changes  *)
(* nothing that Linking sees.  That an executable reads back as the image, *)
(* which the last of these steps needs, is ElfRead of AssemblerProofs.     *)
(*                                                                         *)
(* A flat file is then cut item by item (FileCarried), so that DecodesBack *)
(* applies at each place where an instruction begins: the listing follows  *)
(* the program (DecodedInv), and each operand is worth what was written.   *)
(***************************************************************************)
EXTENDS AssemblerProofs

-----------------------------------------------------------------------------
(* The bytes of an item, before and after its addresses are filled in      *)

\* The bytes of an item before the addresses are filled in, and the places in it
\* that want one.
Raw(item, address) ==
    CASE item.kind = "ins"   -> IF Encodable(item.ins) THEN EncodeInstruction(item.ins, Stale).bytes ELSE << >>
      [] item.kind = "raw"   -> item.bytes
      [] item.kind = "block" -> Placeholder
      [] item.kind = "align" -> IF PowerOfTwo(item.to) THEN Nops((-address) % item.to) ELSE << >>
      [] item.kind = "skip"  -> Nops(item.by)
      [] OTHER               -> << >>

Jumps(item) ==
    CASE item.kind = "ins"   -> IF Encodable(item.ins) THEN EncodeInstruction(item.ins, Stale).jumps ELSE {}
      [] item.kind = "block" -> {[at |-> 0, block |-> item.block]}
      [] OTHER               -> {}

Enumerable(item, blocks) == item.kind = "begin" \/ Good(item, blocks)

LEMMA NopsSequence ==
    ASSUME NEW n \in Nat
    PROVE  IsSequence(Nops(n)) /\ Len(Nops(n)) = n
  <1> DEFINE s == Nops(n)
  <1>1. s = [i \in 1 .. n |-> NOP]
    BY DEF Nops
  <1>2. s = [i \in 1 .. n |-> s[i]]
    BY <1>1
  <1> HIDE DEF s
  <1>3. IsSequence(s) /\ Len(s) = n
    BY <1>2, FunctionSequence
  <1> QED BY <1>3 DEF s

LEMMA RestOfPower ==
    ASSUME NEW n, PowerOfTwo(n), NEW address \in Int
    PROVE  (-address) % n \in Nat
  BY DEF PowerOfTwo

LEMMA RawSequence ==
    ASSUME NEW item, NEW blocks, Enumerable(item, blocks), NEW address \in Int
    PROVE  IsSequence(Raw(item, address)) /\ Len(Raw(item, address)) \in Nat
  <1>1. IsSequence(Raw(item, address))
    <2>1. CASE item.kind = "ins"
      <3>1. CASE Encodable(item.ins)
        <4>1. GoodInstruction(item.ins, blocks)
          BY <2>1 DEF Enumerable, Good
        <4>2. PICK bend : Laid(EncodeInstruction(item.ins, Stale), Lead(item.ins, Stale), Fields(item.ins), bend, blocks)
          BY <3>1, <4>1, EncodingLaid
        <4>3. IsSequence(EncodeInstruction(item.ins, Stale).bytes)
          BY <4>2 DEF Laid
        <4> QED BY <2>1, <3>1, <4>3 DEF Raw
      <3>2. CASE ~Encodable(item.ins)
        BY <2>1, <3>2, EmptySequence DEF Raw
      <3> QED BY <3>1, <3>2
    <2>2. CASE item.kind = "raw"
      BY <2>2 DEF Raw, Enumerable, Good
    <2>3. CASE item.kind = "block"
      BY <2>3, PlaceholderSequence DEF Raw
    <2>4. CASE item.kind = "align"
      <3>1. CASE PowerOfTwo(item.to)
        <4>1. (-address) % item.to \in Nat
          BY <3>1, RestOfPower
        <4>2. Raw(item, address) = Nops((-address) % item.to)
          BY <2>4, <3>1 DEF Raw
        <4>3. IsSequence(Nops((-address) % item.to))
          BY <4>1, NopsSequence
        <4> QED BY <4>2, <4>3
      <3>2. CASE ~PowerOfTwo(item.to)
        BY <2>4, <3>2, EmptySequence DEF Raw
      <3> QED BY <3>1, <3>2
    <2>5. CASE item.kind = "skip"
      <3>1. item.by \in Nat
        BY <2>5 DEF Enumerable, Good
      <3>2. Raw(item, address) = Nops(item.by)
        BY <2>5 DEF Raw
      <3> QED BY <3>1, <3>2, NopsSequence
    <2>6. CASE item.kind \notin {"ins", "raw", "block", "align", "skip"}
      BY <2>6, EmptySequence DEF Raw
    <2> QED BY <2>1, <2>2, <2>3, <2>4, <2>5, <2>6
  <1> QED BY <1>1 DEF IsSequence

LEMMA FiniteImage ==
    ASSUME NEW S, IsFiniteSet(S), NEW f
    PROVE  IsFiniteSet({f[x] : x \in S})
  <1> DEFINE T == {f[x] : x \in S}
             g == [x \in S |-> f[x]]
  <1>1. g \in Surjection(S, T)
    BY DEF Surjection
  <1> HIDE DEF T, g
  <1>2. IsFiniteSet(T)
    BY <1>1, FS_Surjection
  <1> QED BY <1>2 DEF T

\* The places of an instruction that want an address: in it, and apart.
LEMMA EncodedJumps ==
    ASSUME NEW enc, NEW head, NEW fields, NEW bend, NEW blocks,
           Laid(enc, head, fields, bend, blocks)
    PROVE  /\ IsFiniteSet(enc.jumps)
           /\ \A j \in enc.jumps : /\ j.at \in Nat /\ j.at + 8 <= Len(enc.bytes)
                                   /\ j.block \in blocks
                                   /\ j = [at |-> j.at, block |-> j.block]
           /\ \A j, l \in enc.jumps : \A x \in Nat : x - j.at \in 1 .. 8 /\ x - l.at \in 1 .. 8 => j = l
  <1>0. /\ IsSequence(head) /\ IsSequence(fields) /\ IsSequence(enc.bytes)
        /\ Ends(BytesOf(fields), bend)
        /\ \A k \in 1 .. Len(fields) : GoodField(fields[k], blocks)
        /\ Len(enc.bytes) = Len(head) + bend[Len(fields)]
        /\ enc.jumps = {[at |-> Len(head) + bend[k - 1], block |-> fields[k].awaits[1]] :
                           k \in {j \in 1 .. Len(fields) : fields[j].awaits # << >>}}
    BY DEF Laid
  <1> DEFINE raw == BytesOf(fields)
             jump(k) == [at |-> Len(head) + bend[k - 1], block |-> fields[k].awaits[1]]
  <1>1. /\ IsSequences(raw) /\ Len(raw) = Len(fields)
        /\ \A k \in 1 .. Len(fields) : raw[k] = fields[k].bytes
    BY <1>0, BytesOfFields
  <1>2. PICK m \in Nat, h \in Nat : m = Len(fields) /\ h = Len(head)
    BY <1>0 DEF IsSequence
  <1>3. Ends(raw, bend)
    BY <1>0
  <1> HIDE DEF raw
  <1>4. /\ \A k \in 0 .. m : bend[k] \in Nat
        /\ \A k \in 1 .. m : Len(raw[k]) \in Nat /\ bend[k] = bend[k - 1] + Len(raw[k])
    BY <1>1, <1>2, <1>3, EndsTyped
  <1> DEFINE waiting == {k \in 1 .. m : fields[k].awaits # << >>}
  <1>5. enc.jumps = {jump(k) : k \in waiting}
    BY <1>0, <1>2
  <1>6. IsFiniteSet(enc.jumps)
    <2>1. IsFiniteSet(1 .. m)
      BY FS_Interval
    <2>2. IsFiniteSet(waiting)
      BY <2>1, FS_Subset
    <2> HIDE DEF waiting, jump
    <2> DEFINE f == [k \in waiting |-> jump(k)]
    <2>3. {jump(k) : k \in waiting} = {f[k] : k \in waiting}
      OBVIOUS
    <2> HIDE DEF f
    <2>4. IsFiniteSet({f[k] : k \in waiting})
      BY <2>2, FiniteImage
    <2> QED BY <1>5, <2>3, <2>4
  <1>7. ASSUME NEW k \in waiting
        PROVE  /\ bend[k - 1] \in Nat /\ bend[k] = bend[k - 1] + 8 /\ bend[k] <= bend[m]
               /\ fields[k].awaits[1] \in blocks
    <2>1. k \in 1 .. m /\ k - 1 \in 0 .. m /\ k \in 0 .. m /\ m \in 0 .. m
      OBVIOUS
    <2>2. GoodField(fields[k], blocks) /\ fields[k].awaits # << >>
      BY <1>0, <1>2
    <2>3. PICK b \in blocks : fields[k].awaits = << b >> /\ Len(fields[k].bytes) = 8
      BY <2>2 DEF GoodField
    <2>4. Len(raw[k]) = 8 /\ fields[k].awaits[1] = b
      BY <1>1, <1>2, <2>1, <2>3
    <2>5. bend[k] <= bend[m]
      <3>1. k \in 0 .. Len(raw) /\ m \in 0 .. Len(raw) /\ k <= m
        BY <1>1, <1>2, <2>1
      <3> QED BY <1>1, <1>3, <3>1, EndsGrow
    <2> QED BY <1>4, <2>1, <2>4, <2>5
  <1>8. \A k \in waiting : jump(k).at = h + bend[k - 1] /\ jump(k).block = fields[k].awaits[1]
                           /\ jump(k) = [at |-> jump(k).at, block |-> jump(k).block]
    BY <1>2
  <1> HIDE DEF jump
  <1>9. ASSUME NEW k \in waiting
        PROVE  /\ jump(k).at \in Nat /\ jump(k).at + 8 <= Len(enc.bytes)
               /\ jump(k).block \in blocks
               /\ jump(k) = [at |-> jump(k).at, block |-> jump(k).block]
    <2>1. PICK a \in Nat : a = bend[k - 1]
      BY <1>7
    <2>2. PICK e \in Nat : e = bend[m]
      <3>1. m \in 0 .. m
        OBVIOUS
      <3> QED BY <1>4, <3>1
    <2>3. a + 8 <= e /\ jump(k).at = h + a /\ Len(enc.bytes) = h + e
      BY <1>0, <1>2, <1>7, <1>8, <2>1, <2>2
    <2>4. jump(k).at \in Nat /\ jump(k).at + 8 <= Len(enc.bytes)
      <3>1. h + a \in Nat /\ h + a + 8 <= h + e
        BY <2>3
      <3> QED BY <2>3, <3>1
    <2>5. jump(k).block \in blocks
      <3>1. jump(k).block = fields[k].awaits[1]
        BY <1>8
      <3>2. fields[k].awaits[1] \in blocks
        BY <1>7
      <3> QED BY <3>1, <3>2
    <2>6. jump(k) = [at |-> jump(k).at, block |-> jump(k).block]
      BY <1>8
    <2> QED BY <2>4, <2>5, <2>6
  <1>10. ASSUME NEW k \in waiting, NEW l \in waiting, NEW x \in Nat,
                x - jump(k).at \in 1 .. 8, x - jump(l).at \in 1 .. 8
         PROVE  jump(k) = jump(l)
    <2>1. PICK a \in Nat, b \in Nat : a = bend[k - 1] /\ b = bend[l - 1]
      BY <1>7
    <2>2. jump(k).at = h + a /\ jump(l).at = h + b /\ bend[k] = a + 8 /\ bend[l] = b + 8
      BY <1>7, <1>8, <2>1
    <2>3. PICK z \in Nat : z = x - h /\ a < z /\ z <= a + 8 /\ b < z /\ z <= b + 8
      BY <1>10, <2>2
    <2>4. k = l
      <3>1. k \in 1 .. Len(raw) /\ l \in 1 .. Len(raw)
        BY <1>1, <1>2
      <3>2. bend[k - 1] < z /\ z <= bend[k] /\ bend[l - 1] < z /\ z <= bend[l]
        BY <2>1, <2>2, <2>3
      <3> QED BY <1>1, <1>3, <3>1, <3>2, EndsApart
    <2> QED BY <2>4
  <1> HIDE DEF waiting
  <1>11. \A j \in enc.jumps : \E k \in waiting : j = jump(k)
    BY <1>5
  <1>12. \A j, l \in enc.jumps : \A x \in Nat : x - j.at \in 1 .. 8 /\ x - l.at \in 1 .. 8 => j = l
    BY <1>10, <1>11
  <1>13. \A j \in enc.jumps : /\ j.at \in Nat /\ j.at + 8 <= Len(enc.bytes)
                              /\ j.block \in blocks
                              /\ j = [at |-> j.at, block |-> j.block]
    BY <1>9, <1>11
  <1> QED BY <1>6, <1>12, <1>13

LEMMA JumpsGood ==
    ASSUME NEW item, NEW blocks, Enumerable(item, blocks), NEW address \in Int
    PROVE  /\ IsFiniteSet(Jumps(item))
           /\ \A j \in Jumps(item) : /\ j.at \in Nat /\ j.at + 8 <= Len(Raw(item, address))
                                     /\ j.block \in blocks
                                     /\ j = [at |-> j.at, block |-> j.block]
           /\ \A j, l \in Jumps(item) : \A x \in Nat : x - j.at \in 1 .. 8 /\ x - l.at \in 1 .. 8 => j = l
  <1>1. CASE item.kind = "ins"
    <2>1. CASE Encodable(item.ins)
      <3>1. GoodInstruction(item.ins, blocks)
        BY <1>1 DEF Enumerable, Good
      <3> DEFINE enc == EncodeInstruction(item.ins, Stale)
      <3>2. PICK bend : Laid(enc, Lead(item.ins, Stale), Fields(item.ins), bend, blocks)
        BY <2>1, <3>1, EncodingLaid
      <3>3. Jumps(item) = enc.jumps /\ Raw(item, address) = enc.bytes
        BY <1>1, <2>1 DEF Jumps, Raw
      <3> HIDE DEF enc
      <3> QED BY <3>2, <3>3, EncodedJumps
    <2>2. CASE ~Encodable(item.ins)
      <3>1. Jumps(item) = {}
        BY <1>1, <2>2 DEF Jumps
      <3> QED BY <3>1, FS_EmptySet
    <2> QED BY <2>1, <2>2
  <1>2. CASE item.kind = "block"
    <2>1. Jumps(item) = {[at |-> 0, block |-> item.block]} /\ Raw(item, address) = Placeholder
      BY <1>2 DEF Jumps, Raw
    <2>2. item.block \in blocks
      BY <1>2 DEF Enumerable, Good
    <2>3. IsFiniteSet(Jumps(item))
      BY <2>1, FS_Singleton
    <2> QED BY <2>1, <2>2, <2>3, PlaceholderSequence
  <1>3. CASE item.kind \notin {"ins", "block"}
    <2>1. Jumps(item) = {}
      BY <1>3 DEF Jumps
    <2> QED BY <2>1, FS_EmptySet
  <1> QED BY <1>1, <1>2, <1>3

\* What Linking says of the bytes of an item: the raw bytes, with an address over
\* every place that wants one.
FilledItem(b, item, address, where) ==
    /\ IsSequence(b) /\ Len(b) = Len(Raw(item, address))
    /\ \A y \in 1 .. Len(b) : (\A j \in Jumps(item) : ~(y - j.at \in 1 .. 8)) => b[y] = Raw(item, address)[y]
    /\ \A y \in 1 .. Len(b) : \A j \in Jumps(item) :
          y - j.at \in 1 .. 8 => b[y] = AddressBytes(where[j.block])[y - j.at]

LEMMA UnfilledItem ==
    ASSUME NEW item, NEW blocks, Enumerable(item, blocks), NEW address \in Int, NEW where,
           Jumps(item) = {}
    PROVE  FilledItem(Raw(item, address), item, address, where)
  <1>1. IsSequence(Raw(item, address))
    BY RawSequence
  <1> QED BY <1>1 DEF FilledItem

LEMMA ItemBytesFilled ==
    ASSUME NEW item, NEW blocks, Enumerable(item, blocks), NEW address \in Int, NEW where,
           Linker!Accepted(item)
    PROVE  FilledItem(Linker!ItemBytes(item, address, where), item, address, where)
  <1>1. CASE item.kind = "ins"
    <2>1. Encodable(item.ins)
      <3>1. Linker!Encodable(item.ins)
        BY <1>1 DEF Linker!Accepted
      <3> QED BY <3>1, SameEncodable
    <2>2. GoodInstruction(item.ins, blocks)
      BY <1>1 DEF Enumerable, Good
    <2> DEFINE enc == EncodeInstruction(item.ins, Stale)
               b   == Linker!ItemBytes(item, address, where)
    <2>3. PICK bend : Laid(enc, Lead(item.ins, Stale), Fields(item.ins), bend, blocks)
      BY <2>1, <2>2, EncodingLaid
    <2>4. Jumps(item) = enc.jumps /\ Raw(item, address) = enc.bytes
      BY <1>1, <2>1 DEF Jumps, Raw
    <2>5. b = Linker!Addressed(enc, where)
      BY <1>1, SameEncoding DEF Linker!ItemBytes
    <2> HIDE DEF enc, b
    <2>6. IsSequence(enc.bytes)
      BY <2>3 DEF Laid
    <2>7. /\ IsSequence(b) /\ Len(b) = Len(enc.bytes)
          /\ \A x \in 1 .. Len(enc.bytes) : Over(enc, x) = {} => b[x] = enc.bytes[x]
          /\ \A x \in 1 .. Len(enc.bytes) : \A j : Over(enc, x) = {j} =>
                b[x] = AddressBytes(where[j.block])[x - j.at]
      BY <2>5, <2>6, AddressedBytes
    <2>8. \A j, l \in enc.jumps : \A x \in Nat : x - j.at \in 1 .. 8 /\ x - l.at \in 1 .. 8 => j = l
      BY <2>3, EncodedJumps
    <2>9. ASSUME NEW y \in 1 .. Len(b), \A j \in enc.jumps : ~(y - j.at \in 1 .. 8)
          PROVE  b[y] = enc.bytes[y]
      <3>1. Over(enc, y) = {}
        BY <2>9 DEF Over
      <3> QED BY <2>7, <3>1
    <2>10. ASSUME NEW y \in 1 .. Len(b), NEW j \in enc.jumps, y - j.at \in 1 .. 8
           PROVE  b[y] = AddressBytes(where[j.block])[y - j.at]
      <3>1. y \in Nat
        BY <2>7 DEF IsSequence
      <3>2. Over(enc, y) = {j}
        BY <2>8, <2>10, <3>1 DEF Over
      <3> QED BY <2>7, <3>2
    <2>11. FilledItem(b, item, address, where)
      BY <2>4, <2>7, <2>9, <2>10 DEF FilledItem
    <2> QED BY <2>11 DEF b
  <1>2. CASE item.kind = "block"
    <2> DEFINE a == AddressBytes(where[item.block])
    <2>1. Linker!ItemBytes(item, address, where) = a
      BY <1>2, SameBytes DEF Linker!ItemBytes
    <2>2. Jumps(item) = {[at |-> 0, block |-> item.block]} /\ Raw(item, address) = Placeholder
      BY <1>2 DEF Jumps, Raw
    <2>3. IsSequence(a) /\ Len(a) = 8 /\ Len(Placeholder) = 8
      BY AddressSequence, PlaceholderSequence
    <2>4. \A y \in 1 .. 8 : y - 0 \in 1 .. 8 /\ y - 0 = y
      OBVIOUS
    <2>5. PICK j : j = [at |-> 0, block |-> item.block]
      OBVIOUS
    <2>6. Jumps(item) = {j} /\ j.at = 0 /\ a = AddressBytes(where[j.block])
      BY <2>2, <2>5
    <2> HIDE DEF a
    <2>7. FilledItem(a, item, address, where)
      BY <2>2, <2>3, <2>4, <2>6 DEF FilledItem
    <2> QED BY <2>1, <2>7
  <1>3. CASE item.kind \notin {"ins", "block"}
    <2>1. Jumps(item) = {}
      BY <1>3 DEF Jumps
    <2>2. Linker!ItemBytes(item, address, where) = Raw(item, address)
      <3>1. CASE item.kind = "align"
        <4>1. PowerOfTwo(item.to)
          <5>1. Linker!PowerOfTwo(item.to)
            BY <3>1 DEF Linker!Accepted
          <5> QED BY <5>1, SameBytes
        <4> QED BY <3>1, <4>1, SameBytes DEF Linker!ItemBytes, Raw
      <3>2. CASE item.kind = "skip"
        BY <3>2, SameBytes DEF Linker!ItemBytes, Raw
      <3>3. CASE item.kind = "raw"
        BY <3>3 DEF Linker!ItemBytes, Raw
      <3>4. CASE item.kind \notin {"align", "skip", "raw"}
        BY <1>3, <3>4 DEF Linker!ItemBytes, Raw
      <3> QED BY <3>1, <3>2, <3>3, <3>4
    <2> QED BY <2>1, <2>2, UnfilledItem
  <1> QED BY <1>1, <1>2, <1>3

-----------------------------------------------------------------------------
(* The names of the blocks                                                 *)

\* Some places at which the sequences end.
EndsOf(seqs) == CHOOSE end : Ends(seqs, end)

LEMMA EndsOfAre ==
    ASSUME NEW seqs, IsSequences(seqs)
    PROVE  Ends(seqs, EndsOf(seqs))
  BY EndsExist DEF EndsOf

\* Of two places in sequences joined, the earlier one is in an earlier sequence or
\* earlier in the same.
LEMMA EndsOrder ==
    ASSUME NEW seqs, IsSequences(seqs), NEW end, Ends(seqs, end),
           NEW k \in 1 .. Len(seqs), NEW l \in 1 .. Len(seqs),
           NEW i \in 1 .. Len(seqs[k]), NEW j \in 1 .. Len(seqs[l])
    PROVE  /\ end[k - 1] + i < end[l - 1] + j => k < l \/ (k = l /\ i < j)
           /\ end[k - 1] + i = end[l - 1] + j => k = l /\ i = j
  <1>1. PICK n \in Nat : n = Len(seqs)
    BY EndsTyped
  <1>2. /\ \A x \in 0 .. n : end[x] \in Nat
        /\ \A x \in 1 .. n : Len(seqs[x]) \in Nat /\ end[x] = end[x - 1] + Len(seqs[x])
    BY <1>1, EndsTyped
  <1>3. ASSUME NEW x \in 1 .. n, NEW y \in 1 .. n, NEW f \in 1 .. Len(seqs[x]), NEW g \in 1 .. Len(seqs[y]), x < y
        PROVE  end[x - 1] + f < end[y - 1] + g
    <2>1. x \in 0 .. n /\ x - 1 \in 0 .. n /\ y - 1 \in 0 .. n /\ x <= y - 1
      BY <1>3
    <2>2. end[x] <= end[y - 1]
      <3>1. x \in 0 .. Len(seqs) /\ y - 1 \in 0 .. Len(seqs) /\ x <= y - 1
        BY <1>1, <2>1
      <3> QED BY <3>1, EndsGrow
    <2>3. PICK a \in Nat, b \in Nat, c \in Nat, m \in Nat, q \in Nat :
             a = end[x - 1] /\ b = end[x] /\ c = end[y - 1] /\ m = Len(seqs[x]) /\ q = Len(seqs[y])
      BY <1>2, <2>1
    <2>4. b = a + m
      BY <1>2, <2>3
    <2>5. b <= c /\ f \in 1 .. m /\ g \in 1 .. q
      BY <2>2, <2>3
    <2>6. a + f < c + g
      BY <2>4, <2>5
    <2> QED BY <2>3, <2>6
  <1>4. k \in 1 .. n /\ l \in 1 .. n /\ k - 1 \in 0 .. n /\ l - 1 \in 0 .. n
    BY <1>1
  <1>5. PICK a \in Nat, b \in Nat, m \in Nat, q \in Nat :
           a = end[k - 1] /\ b = end[l - 1] /\ m = Len(seqs[k]) /\ q = Len(seqs[l])
    BY <1>2, <1>4
  <1>6. CASE k < l
    <2>1. a + i < b + j
      BY <1>3, <1>4, <1>5, <1>6
    <2>2. a = end[k - 1] /\ b = end[l - 1]
      BY <1>5
    <2>3. ~(l < k) /\ k # l
      BY <1>4, <1>6
    <2> QED BY <2>1, <2>2, <2>3
  <1>7. CASE l < k
    <2>1. b + j < a + i
      BY <1>3, <1>4, <1>5, <1>7
    <2>2. a = end[k - 1] /\ b = end[l - 1]
      BY <1>5
    <2>3. ~(a + i < b + j) /\ a + i # b + j
      <3>1. PICK y \in Nat, z \in Nat : y = a + i /\ z = b + j
        BY <1>2, <1>4
      <3> QED BY <2>1, <3>1
    <2> QED BY <2>2, <2>3
  <1>8. CASE k = l
    <2>1. a = b
      BY <1>5, <1>8
    <2> QED BY <1>5, <1>8, <2>1
  <1> QED BY <1>4, <1>6, <1>7, <1>8

----------------------------------------------------------------------------

Names(p, s) == [l \in 1 .. Len(p[s].labels) |-> [b \in 1 .. Len(p[s].labels[l]) |-> << s, l, b >>]]

\* The blocks of a section: named by it, and each once.
LEMMA SectionNames ==
    ASSUME NEW p, GoodProgram(p), NEW s \in 1 .. Len(p)
    PROVE  /\ IsSequence(BlocksOf(p, s))
           /\ \A k \in 1 .. Len(BlocksOf(p, s)) :
                 \E l \in 1 .. Len(p[s].labels) : \E b \in 1 .. Len(p[s].labels[l]) :
                    BlocksOf(p, s)[k] = << s, l, b >>
           /\ \A k, l \in 1 .. Len(BlocksOf(p, s)) : BlocksOf(p, s)[k] = BlocksOf(p, s)[l] => k = l
  <1> DEFINE labels == p[s].labels
             names  == Names(p, s)
  <1>1. IsSequence(labels) /\ \A l \in 1 .. Len(labels) : IsSequence(labels[l])
    BY DEF GoodProgram
  <1>2. PICK n \in Nat : n = Len(labels)
    BY <1>1 DEF IsSequence
  <1>3. names = [l \in 1 .. n |-> [b \in 1 .. Len(labels[l]) |-> << s, l, b >>]]
    BY <1>2 DEF Names
  <1>4. BlocksOf(p, s) = FlattenSeq(names)
    BY DEF BlocksOf, Names
  <1> HIDE DEF names, labels
  <1>5. /\ names = [l \in 1 .. n |-> names[l]]
        /\ \A l \in 1 .. n : names[l] = [b \in 1 .. Len(labels[l]) |-> << s, l, b >>]
    BY <1>3
  <1>6. IsSequence(names) /\ Len(names) = n
    BY <1>5, FunctionSequence
  <1>7. ASSUME NEW l \in 1 .. n
        PROVE  /\ IsSequence(names[l]) /\ Len(names[l]) = Len(labels[l])
               /\ \A b \in 1 .. Len(labels[l]) : names[l][b] = << s, l, b >>
    <2>1. PICK m \in Nat : m = Len(labels[l])
      BY <1>1, <1>2 DEF IsSequence
    <2>2. PICK f : f = names[l] /\ f = [b \in 1 .. m |-> << s, l, b >>]
      BY <1>5, <2>1
    <2>3. f = [b \in 1 .. m |-> f[b]] /\ \A b \in 1 .. m : f[b] = << s, l, b >>
      BY <2>2
    <2>4. IsSequence(f) /\ Len(f) = m
      BY <2>3, FunctionSequence
    <2> QED BY <2>1, <2>2, <2>3, <2>4
  <1>8. IsSequences(names)
    BY <1>6, <1>7 DEF IsSequences
  <1>9. PICK end : Ends(names, end)
    BY <1>8, EndsExist
  <1>10. PICK t : t = FlattenSeq(names)
    OBVIOUS
  <1>11. /\ IsSequence(t) /\ Len(t) = end[n]
         /\ \A k \in 1 .. n : \A j \in 1 .. Len(names[k]) : t[end[k - 1] + j] = names[k][j]
    BY <1>6, <1>8, <1>9, <1>10, FlattenPlaces
  <1>12. \A i \in 1 .. Len(t) : \E k \in 1 .. n : \E j \in 1 .. Len(names[k]) : i = end[k - 1] + j
    <2>1. SUFFICES ASSUME NEW i \in 1 .. Len(t)
                   PROVE  \E k \in 1 .. n : \E j \in 1 .. Len(names[k]) : i = end[k - 1] + j
      OBVIOUS
    <2>2. Len(names) = n
      BY <1>6
    <2>3. i \in 1 .. end[Len(names)]
      BY <1>11, <2>2
    <2>4. \E k \in 1 .. Len(names) : \E j \in 1 .. Len(names[k]) : i = end[k - 1] + j
      BY <1>8, <1>9, <2>3, EndsFind
    <2> QED BY <2>2, <2>4
  <1>13. \A i \in 1 .. Len(t) : \E k \in 1 .. n : \E j \in 1 .. Len(labels[k]) :
            i = end[k - 1] + j /\ t[i] = << s, k, j >>
    <2> TAKE i \in 1 .. Len(t)
    <2>1. PICK k \in 1 .. n : \E j \in 1 .. Len(names[k]) : i = end[k - 1] + j
      BY <1>12
    <2>2. PICK j \in 1 .. Len(names[k]) : i = end[k - 1] + j
      BY <2>1
    <2>3. t[i] = names[k][j] /\ j \in 1 .. Len(labels[k])
      BY <1>7, <1>11, <2>2
    <2>4. t[i] = << s, k, j >>
      BY <1>7, <2>3
    <2> QED BY <2>2, <2>3, <2>4
  <1>14. ASSUME NEW i \in 1 .. Len(t), NEW j \in 1 .. Len(t), t[i] = t[j]
         PROVE  i = j
    <2>1. PICK k \in 1 .. n : \E x \in 1 .. Len(labels[k]) : i = end[k - 1] + x /\ t[i] = << s, k, x >>
      BY <1>13
    <2>2. PICK x \in 1 .. Len(labels[k]) : i = end[k - 1] + x /\ t[i] = << s, k, x >>
      BY <2>1
    <2>3. PICK l \in 1 .. n : \E y \in 1 .. Len(labels[l]) : j = end[l - 1] + y /\ t[j] = << s, l, y >>
      BY <1>13
    <2>4. PICK y \in 1 .. Len(labels[l]) : j = end[l - 1] + y /\ t[j] = << s, l, y >>
      BY <2>3
    <2> QED BY <1>14, <2>2, <2>4
  <1> QED BY <1>2, <1>4, <1>10, <1>11, <1>13, <1>14 DEF labels

-----------------------------------------------------------------------------
(* The items of a section                                                  *)

SectionBlocks(p) == [s \in 1 .. Len(p) |-> BlocksOf(p, s)]

BeginOf(block) == [kind |-> "begin", block |-> block]

Chunks(p, s) ==
    [k \in 1 .. Len(BlocksOf(p, s)) |-> << BeginOf(BlocksOf(p, s)[k]) >> \o BlockAt(p, BlocksOf(p, s)[k])]

\* The blocks of the program are those of its sections.
LEMMA SectionsOfBlocks ==
    ASSUME NEW p, GoodProgram(p)
    PROVE  /\ IsSequences(SectionBlocks(p)) /\ Len(SectionBlocks(p)) = Len(p)
           /\ \A s \in 1 .. Len(p) : SectionBlocks(p)[s] = BlocksOf(p, s)
           /\ AllBlocks(p) = FlattenSeq(SectionBlocks(p))
           /\ IsSequence(AllBlocks(p))
  <1> DEFINE t == SectionBlocks(p)
  <1>1. PICK n \in Nat : n = Len(p)
    BY DEF GoodProgram, IsSequence
  <1>2. t = [s \in 1 .. n |-> t[s]] /\ \A s \in 1 .. n : t[s] = BlocksOf(p, s)
    BY <1>1 DEF SectionBlocks
  <1>3. AllBlocks(p) = FlattenSeq(t)
    BY DEF AllBlocks, SectionBlocks
  <1> HIDE DEF t
  <1>4. IsSequence(t) /\ Len(t) = n
    BY <1>2, FunctionSequence
  <1>5. \A s \in 1 .. n : IsSequence(BlocksOf(p, s))
    BY <1>1, SectionNames
  <1>6. IsSequences(t)
    BY <1>2, <1>4, <1>5 DEF IsSequences
  <1>7. IsSequence(FlattenSeq(t))
    BY <1>6, FlattenElements
  <1> QED BY <1>1, <1>2, <1>3, <1>4, <1>6, <1>7 DEF t

\* A block of the program is made of sequences of good items.
LEMMA BlockGood ==
    ASSUME NEW p, GoodProgram(p), NEW s \in 1 .. Len(p), NEW k \in 1 .. Len(BlocksOf(p, s))
    PROVE  /\ IsSequence(BlockAt(p, BlocksOf(p, s)[k]))
           /\ \A i \in 1 .. Len(BlockAt(p, BlocksOf(p, s)[k])) :
                 Good(BlockAt(p, BlocksOf(p, s)[k])[i], ToSet(AllBlocks(p)))
           /\ BlocksOf(p, s)[k][1] = s
  <1>1. PICK id : id = BlocksOf(p, s)[k]
    OBVIOUS
  <1>2. PICK l \in 1 .. Len(p[s].labels) : \E b \in 1 .. Len(p[s].labels[l]) : id = << s, l, b >>
    <2>1. \A x \in 1 .. Len(BlocksOf(p, s)) :
             \E l \in 1 .. Len(p[s].labels) : \E b \in 1 .. Len(p[s].labels[l]) :
                BlocksOf(p, s)[x] = << s, l, b >>
      BY SectionNames
    <2>2. \E l \in 1 .. Len(p[s].labels) : \E b \in 1 .. Len(p[s].labels[l]) :
             BlocksOf(p, s)[k] = << s, l, b >>
      BY <2>1
    <2> QED BY <1>1, <2>2
  <1>3. PICK b \in 1 .. Len(p[s].labels[l]) : id = << s, l, b >>
    BY <1>2
  <1>4. BlockAt(p, id) = p[s].labels[l][b] /\ id[1] = s
    BY <1>3 DEF BlockAt
  <1>5. IsSequence(BlockAt(p, id))
    <2>1. \A x \in 1 .. Len(p) : \A y \in 1 .. Len(p[x].labels) : \A z \in 1 .. Len(p[x].labels[y]) :
             IsSequence(p[x].labels[y][z])
      BY DEF GoodProgram
    <2>2. IsSequence(p[s].labels[l][b])
      BY <2>1
    <2> QED BY <1>4, <2>2
  <1>6. id \in ToSet(AllBlocks(p))
    <2> DEFINE t == SectionBlocks(p)
    <2>1. /\ IsSequences(t) /\ s \in 1 .. Len(t) /\ t[s] = BlocksOf(p, s)
          /\ AllBlocks(p) = FlattenSeq(t) /\ IsSequence(AllBlocks(p))
      BY SectionsOfBlocks
    <2> HIDE DEF t
    <2>2. k \in 1 .. Len(t[s])
      BY <2>1
    <2>3. \E i \in 1 .. Len(FlattenSeq(t)) : FlattenSeq(t)[i] = t[s][k]
      BY <2>1, <2>2, FlattenElements
    <2>4. PICK i \in 1 .. Len(AllBlocks(p)) : AllBlocks(p)[i] = id
      BY <1>1, <2>1, <2>3
    <2>5. DOMAIN AllBlocks(p) = 1 .. Len(AllBlocks(p))
      BY <2>1, SequenceDomain
    <2> QED BY <2>4, <2>5 DEF ToSet
  <1>7. \A i \in 1 .. Len(BlockAt(p, id)) : Good(BlockAt(p, id)[i], ToSet(AllBlocks(p)))
    BY <1>6 DEF GoodProgram
  <1> QED BY <1>1, <1>4, <1>5, <1>7

\* A chunk: the beginning of a block, and its items.
ChunkOf(chunk, id, block) ==
    /\ IsSequence(chunk) /\ IsSequence(block)
    /\ Len(chunk) = 1 + Len(block)
    /\ chunk = << BeginOf(id) >> \o block
    /\ chunk[1] = BeginOf(id)
    /\ \A j \in 1 .. Len(block) : chunk[1 + j] = block[j]

LEMMA ChunkGood ==
    ASSUME NEW id, NEW block, IsSequence(block)
    PROVE  ChunkOf(<< BeginOf(id) >> \o block, id, block)
  <1>1. PICK o, u : o = << BeginOf(id) >> /\ u = << BeginOf(id) >> \o block
    OBVIOUS
  <1>2. IsSequence(o) /\ Len(o) = 1 /\ o[1] = BeginOf(id)
    BY <1>1, SingleSequence
  <1>3. /\ IsSequence(o \o block) /\ Len(o \o block) = Len(o) + Len(block)
        /\ \A i \in 1 .. Len(o) : (o \o block)[i] = o[i]
        /\ \A i \in 1 .. Len(block) : (o \o block)[Len(o) + i] = block[i]
    <2>1. IsSequence(o) /\ IsSequence(block)
      BY <1>2
    <2> QED BY <2>1, ConcatSequence
  <1>4. u = o \o block
    BY <1>1
  <1>5. 1 \in 1 .. Len(o)
    BY <1>2
  <1>6. /\ IsSequence(u) /\ Len(u) = 1 + Len(block) /\ u[1] = BeginOf(id)
        /\ \A i \in 1 .. Len(block) : u[1 + i] = block[i]
    BY <1>2, <1>3, <1>4, <1>5
  <1>7. ChunkOf(u, id, block)
    BY <1>1, <1>6 DEF ChunkOf
  <1> QED BY <1>1, <1>7

LEMMA ChunksGood ==
    ASSUME NEW p, GoodProgram(p), NEW s \in 1 .. Len(p)
    PROVE  /\ IsSequences(Chunks(p, s)) /\ Len(Chunks(p, s)) = Len(BlocksOf(p, s))
           /\ \A k \in 1 .. Len(BlocksOf(p, s)) :
                 ChunkOf(Chunks(p, s)[k], BlocksOf(p, s)[k], BlockAt(p, BlocksOf(p, s)[k]))
           /\ Enumerated(p, s) = FlattenSeq(Chunks(p, s))
  <1> DEFINE ids == BlocksOf(p, s)
             t   == Chunks(p, s)
             Block(k) == BlockAt(p, ids[k])
  <1>1. PICK n \in Nat : n = Len(ids)
    BY SectionNames DEF IsSequence
  <1>2. t = [k \in 1 .. n |-> t[k]] /\ \A k \in 1 .. n : t[k] = << BeginOf(ids[k]) >> \o Block(k)
    BY <1>1 DEF Chunks
  <1>3. Enumerated(p, s) = FlattenSeq(t)
    BY DEF Enumerated, Chunks, BeginOf
  <1> HIDE DEF t
  <1>4. IsSequence(t) /\ Len(t) = n
    BY <1>2, FunctionSequence
  <1>5. \A k \in 1 .. n : IsSequence(Block(k))
    BY <1>1, BlockGood
  <1> HIDE DEF Block, ids
  <1>6. ASSUME NEW k \in 1 .. n
        PROVE  ChunkOf(t[k], ids[k], Block(k))
    <2>1. PICK id, b : id = ids[k] /\ b = Block(k)
      OBVIOUS
    <2>2. ChunkOf(<< BeginOf(id) >> \o b, id, b)
      BY <1>5, <2>1, ChunkGood
    <2>3. t[k] = << BeginOf(id) >> \o b
      BY <1>2, <2>1
    <2> QED BY <2>1, <2>2, <2>3
  <1>7. IsSequences(t)
    BY <1>4, <1>6 DEF IsSequences, ChunkOf
  <1> QED BY <1>1, <1>3, <1>4, <1>6, <1>7 DEF t, ids, Block

LEMMA ItemsGood ==
    ASSUME NEW p, GoodProgram(p), NEW s \in 1 .. Len(p)
    PROVE  /\ IsSequence(Enumerated(p, s))
           /\ \A i \in 1 .. Len(Enumerated(p, s)) : Enumerable(Enumerated(p, s)[i], ToSet(AllBlocks(p)))
  <1> DEFINE t == Chunks(p, s)
             items == Enumerated(p, s)
             Block(k) == BlockAt(p, BlocksOf(p, s)[k])
  <1>1. PICK n \in Nat : n = Len(BlocksOf(p, s))
    BY SectionNames DEF IsSequence
  <1>2. /\ IsSequences(t) /\ Len(t) = n /\ items = FlattenSeq(t)
        /\ \A k \in 1 .. n : ChunkOf(t[k], BlocksOf(p, s)[k], Block(k))
    BY <1>1, ChunksGood
  <1>3. \A k \in 1 .. n : /\ IsSequence(Block(k))
                          /\ \A j \in 1 .. Len(Block(k)) : Good(Block(k)[j], ToSet(AllBlocks(p)))
    <2>1. \A k \in 1 .. Len(BlocksOf(p, s)) :
             /\ IsSequence(Block(k))
             /\ \A j \in 1 .. Len(Block(k)) : Good(Block(k)[j], ToSet(AllBlocks(p)))
      BY BlockGood
    <2> QED BY <1>1, <2>1
  <1> HIDE DEF t, items, Block
  <1>4. ASSUME NEW k \in 1 .. n, NEW j \in 1 .. Len(t[k])
        PROVE  Enumerable(t[k][j], ToSet(AllBlocks(p)))
    <2>1. CASE j = 1
      <3>0. t[k][1] = BeginOf(BlocksOf(p, s)[k])
        BY <1>2 DEF ChunkOf
      <3>1. PICK e : e = t[k][j] /\ e = BeginOf(BlocksOf(p, s)[k])
        BY <2>1, <3>0
      <3>2. e.kind = "begin"
        BY <3>1 DEF BeginOf
      <3>3. Enumerable(e, ToSet(AllBlocks(p)))
        BY <3>2 DEF Enumerable
      <3> QED BY <3>1, <3>3
    <2>2. CASE j # 1
      <3>1. PICK m \in Nat : m = Len(Block(k))
        BY <1>3 DEF IsSequence
      <3>2. j \in 1 .. (1 + m)
        BY <1>2, <3>1 DEF ChunkOf
      <3>3. PICK q \in 1 .. m : j = 1 + q
        <4>1. j - 1 \in 1 .. m /\ j = 1 + (j - 1)
          BY <2>2, <3>2
        <4> QED BY <4>1
      <3>4. t[k][j] = Block(k)[q]
        BY <1>2, <3>1, <3>3 DEF ChunkOf
      <3> QED BY <1>3, <3>1, <3>4 DEF Enumerable
    <2> QED BY <2>1, <2>2
  <1>5. /\ IsSequence(FlattenSeq(t))
        /\ \A i \in 1 .. Len(FlattenSeq(t)) :
              \E k \in 1 .. Len(t) : \E j \in 1 .. Len(t[k]) : FlattenSeq(t)[i] = t[k][j]
    BY <1>2, FlattenElements
  <1>6. \A i \in 1 .. Len(items) : Enumerable(items[i], ToSet(AllBlocks(p)))
    BY <1>2, <1>4, <1>5
  <1> QED BY <1>2, <1>5, <1>6 DEF items

Precedes(a, b) == a[1] < b[1] \/ (a[1] = b[1] /\ a[2] < b[2])

\* Where the blocks begin: block m at item begin[m][2] of section begin[m][1].
Begins(p, begin) ==
    /\ \A m \in 1 .. Len(AllBlocks(p)) :
          /\ begin[m] = << begin[m][1], begin[m][2] >>
          /\ begin[m][1] \in 1 .. Len(p) /\ begin[m][2] \in 1 .. Len(Enumerated(p, begin[m][1]))
          /\ AllBlocks(p)[m][1] = begin[m][1]
          /\ Enumerated(p, begin[m][1])[begin[m][2]] = BeginOf(AllBlocks(p)[m])
    /\ \A l, m \in 1 .. Len(AllBlocks(p)) : l < m => Precedes(begin[l], begin[m])
    /\ \A l, m \in 1 .. Len(AllBlocks(p)) : AllBlocks(p)[l] = AllBlocks(p)[m] => l = m
    /\ \A s \in 1 .. Len(p) : \A i \in 1 .. Len(Enumerated(p, s)) :
          Enumerated(p, s)[i].kind = "begin" => \E m \in 1 .. Len(AllBlocks(p)) : begin[m] = << s, i >>

\* Item 1 of chunk k of section s, for the block number m.
BeginPlace(p, m) ==
    CHOOSE a : \E s \in 1 .. Len(p) : \E k \in 1 .. Len(BlocksOf(p, s)) :
        /\ m = EndsOf(SectionBlocks(p))[s - 1] + k
        /\ a = << s, EndsOf(Chunks(p, s))[k - 1] + 1 >>

\* Block m of the program is block k of section s.
BeginAt(p, m, s, k) ==
    /\ m = EndsOf(SectionBlocks(p))[s - 1] + k
    /\ BeginPlace(p, m) = << s, EndsOf(Chunks(p, s))[k - 1] + 1 >>
    /\ AllBlocks(p)[m] = BlocksOf(p, s)[k]

LEMMA BeginPlaces ==
    ASSUME NEW p, GoodProgram(p)
    PROVE  /\ \A m \in 1 .. Len(AllBlocks(p)) :
                 \E s \in 1 .. Len(p) : \E k \in 1 .. Len(BlocksOf(p, s)) : BeginAt(p, m, s, k)
           /\ \A s \in 1 .. Len(p) : \A k \in 1 .. Len(BlocksOf(p, s)) :
                 \E m \in 1 .. Len(AllBlocks(p)) : BeginAt(p, m, s, k)
  <1> DEFINE t == SectionBlocks(p)
             e == EndsOf(t)
             all == AllBlocks(p)
             Is(a, s, k) == a = << s, EndsOf(Chunks(p, s))[k - 1] + 1 >>
  <1>1. PICK n \in Nat : n = Len(p)
    BY DEF GoodProgram, IsSequence
  <1>2. /\ IsSequences(t) /\ Len(t) = n /\ all = FlattenSeq(t) /\ IsSequence(all)
        /\ \A s \in 1 .. n : t[s] = BlocksOf(p, s)
    BY <1>1, SectionsOfBlocks
  <1>3. Ends(t, e)
    BY <1>2, EndsOfAre
  <1> HIDE DEF t, e, all
  <1>4. /\ Len(all) = e[n]
        /\ \A k \in 1 .. n : \A j \in 1 .. Len(t[k]) : all[e[k - 1] + j] = t[k][j]
    <2>1. /\ Len(FlattenSeq(t)) = e[Len(t)]
          /\ \A k \in 1 .. Len(t) : \A j \in 1 .. Len(t[k]) : FlattenSeq(t)[e[k - 1] + j] = t[k][j]
      BY <1>2, <1>3, FlattenPlaces
    <2> QED BY <1>2, <2>1
  <1>5. \A i \in 1 .. Len(all) : \E k \in 1 .. n : \E j \in 1 .. Len(t[k]) : i = e[k - 1] + j
    <2>1. \A i \in 1 .. e[Len(t)] : \E k \in 1 .. Len(t) : \E j \in 1 .. Len(t[k]) : i = e[k - 1] + j
      BY <1>2, <1>3, EndsFind
    <2> QED BY <1>2, <1>4, <2>1
  <1>6. \A k, l \in 1 .. n : \A i \in 1 .. Len(t[k]) : \A j \in 1 .. Len(t[l]) :
           e[k - 1] + i = e[l - 1] + j => k = l /\ i = j
    <2>1. \A k, l \in 1 .. Len(t) : \A i \in 1 .. Len(t[k]) : \A j \in 1 .. Len(t[l]) :
             e[k - 1] + i = e[l - 1] + j => k = l /\ i = j
      BY <1>2, <1>3, EndsOrder
    <2> QED BY <1>2, <2>1
  <1>7. ASSUME NEW s \in 1 .. n, NEW k \in 1 .. Len(BlocksOf(p, s))
        PROVE  /\ Is(BeginPlace(p, e[s - 1] + k), s, k)
               /\ all[e[s - 1] + k] = BlocksOf(p, s)[k]
    <2> DEFINE P(a) == \E x \in 1 .. n : \E y \in 1 .. Len(BlocksOf(p, x)) :
                          e[s - 1] + k = e[x - 1] + y /\ Is(a, x, y)
    <2>1. BeginPlace(p, e[s - 1] + k) = CHOOSE a : P(a)
      BY <1>1 DEF BeginPlace, e, t
    <2> HIDE DEF Is
    <2>2. \E a : P(a)
      <3>1. \E a : Is(a, s, k)
        BY DEF Is
      <3> QED BY <3>1
    <2>3. \A a : P(a) => Is(a, s, k)
      <3> SUFFICES ASSUME NEW a, NEW x \in 1 .. n, NEW y \in 1 .. Len(BlocksOf(p, x)),
                          e[s - 1] + k = e[x - 1] + y, Is(a, x, y)
                   PROVE  Is(a, s, k)
        OBVIOUS
      <3>1. k \in 1 .. Len(t[s]) /\ y \in 1 .. Len(t[x])
        BY <1>2
      <3>2. x = s /\ y = k
        BY <1>6, <3>1
      <3> QED BY <3>2
    <2> HIDE DEF P
    <2>4. Is(BeginPlace(p, e[s - 1] + k), s, k)
      <3>1. P(CHOOSE a : P(a))
        BY <2>2
      <3> QED BY <2>1, <2>3, <3>1
    <2>5. all[e[s - 1] + k] = BlocksOf(p, s)[k]
      <3>1. k \in 1 .. Len(t[s]) /\ t[s] = BlocksOf(p, s)
        BY <1>2
      <3>2. all[e[s - 1] + k] = t[s][k]
        BY <1>4, <3>1
      <3> QED BY <3>1, <3>2
    <2> QED BY <2>4, <2>5
  <1> HIDE DEF Is
  <1>8. ASSUME NEW s \in 1 .. n, NEW k \in 1 .. Len(BlocksOf(p, s))
        PROVE  BeginAt(p, e[s - 1] + k, s, k)
    <2>1. Is(BeginPlace(p, e[s - 1] + k), s, k) /\ all[e[s - 1] + k] = BlocksOf(p, s)[k]
      BY <1>7
    <2> QED BY <2>1 DEF BeginAt, Is, e, t, all
  <1>9. \A m \in 1 .. Len(all) : \E s \in 1 .. n : \E k \in 1 .. Len(BlocksOf(p, s)) : BeginAt(p, m, s, k)
    <2> TAKE m \in 1 .. Len(all)
    <2>1. PICK s \in 1 .. n : \E k \in 1 .. Len(t[s]) : m = e[s - 1] + k
      BY <1>5
    <2>2. PICK k \in 1 .. Len(BlocksOf(p, s)) : m = e[s - 1] + k
      BY <1>2, <2>1
    <2> QED BY <1>8, <2>2
  <1>10. \A s \in 1 .. n : \A k \in 1 .. Len(BlocksOf(p, s)) : \E m \in 1 .. Len(all) : BeginAt(p, m, s, k)
    <2> TAKE s \in 1 .. n
    <2> TAKE k \in 1 .. Len(BlocksOf(p, s))
    <2>1. /\ \A x \in 0 .. n : e[x] \in Nat
          /\ \A x \in 1 .. n : Len(t[x]) \in Nat /\ e[x] = e[x - 1] + Len(t[x])
      BY <1>2, <1>3, EndsTyped
    <2>2. s \in 0 .. n /\ s - 1 \in 0 .. n /\ n \in 0 .. n /\ s <= n
      OBVIOUS
    <2>3. e[s] <= e[n]
      <3>1. s \in 0 .. Len(t) /\ n \in 0 .. Len(t)
        BY <1>2, <2>2
      <3> QED BY <1>2, <1>3, <2>2, <3>1, EndsGrow
    <2>4. PICK a \in Nat, b \in Nat, c \in Nat, l \in Nat : a = e[s - 1] /\ b = e[s] /\ c = e[n] /\ l = Len(t[s])
      BY <2>1, <2>2
    <2>5. b = a + l /\ b <= c /\ k \in 1 .. l
      BY <1>2, <2>1, <2>3, <2>4
    <2>6. a + k \in 1 .. c
      BY <2>5
    <2>7. e[s - 1] + k \in 1 .. Len(all)
      BY <1>4, <2>4, <2>6
    <2> QED BY <1>8, <2>7
  <1> QED BY <1>1, <1>9, <1>10 DEF all

-----------------------------------------------------------------------------
(* The layout of a program                                                 *)

LEMMA BeginsExist ==
    ASSUME NEW p, GoodProgram(p)
    PROVE  \E begin : Begins(p, begin)
  <1> DEFINE t     == SectionBlocks(p)
             e     == EndsOf(t)
             all   == AllBlocks(p)
             F(s)  == EndsOf(Chunks(p, s))
             begin == [m \in 1 .. Len(all) |-> BeginPlace(p, m)]
  <1>1. PICK n \in Nat : n = Len(p)
    BY DEF GoodProgram, IsSequence
  <1>2. /\ IsSequences(t) /\ Len(t) = n /\ IsSequence(all)
        /\ \A s \in 1 .. n : t[s] = BlocksOf(p, s)
    BY <1>1, SectionsOfBlocks
  <1>3. Ends(t, e)
    BY <1>2, EndsOfAre
  <1>0. \A m, s, k : BeginAt(p, m, s, k) <=>
           m = e[s - 1] + k /\ BeginPlace(p, m) = << s, F(s)[k - 1] + 1 >> /\ all[m] = BlocksOf(p, s)[k]
    BY DEF BeginAt
  <1>4. \A m \in 1 .. Len(all) : \E s \in 1 .. n : \E k \in 1 .. Len(BlocksOf(p, s)) : BeginAt(p, m, s, k)
    BY <1>1, BeginPlaces
  <1>5. \A s \in 1 .. n : \A k \in 1 .. Len(BlocksOf(p, s)) : \E m \in 1 .. Len(all) : BeginAt(p, m, s, k)
    BY <1>1, BeginPlaces
  <1>6. \A m \in 1 .. Len(all) : begin[m] = BeginPlace(p, m)
    OBVIOUS
  <1> HIDE DEF t, e, all, F, begin
  <1>7. ASSUME NEW s \in 1 .. n
        PROVE  /\ IsSequences(Chunks(p, s)) /\ Len(Chunks(p, s)) = Len(BlocksOf(p, s))
               /\ Ends(Chunks(p, s), F(s))
               /\ Enumerated(p, s) = FlattenSeq(Chunks(p, s))
               /\ IsSequence(BlocksOf(p, s))
    <2>1. /\ IsSequences(Chunks(p, s)) /\ Len(Chunks(p, s)) = Len(BlocksOf(p, s))
          /\ Enumerated(p, s) = FlattenSeq(Chunks(p, s))
      BY <1>1, ChunksGood
    <2>2. Ends(Chunks(p, s), F(s))
      BY <2>1, EndsOfAre DEF F
    <2>3. IsSequence(BlocksOf(p, s))
      BY <1>1, SectionNames
    <2> QED BY <2>1, <2>2, <2>3
  \* The place of block k of section s.
  <1>8. ASSUME NEW s \in 1 .. n, NEW k \in 1 .. Len(BlocksOf(p, s))
        PROVE  /\ F(s)[k - 1] + 1 \in 1 .. Len(Enumerated(p, s))
               /\ Enumerated(p, s)[F(s)[k - 1] + 1] = BeginOf(BlocksOf(p, s)[k])
               /\ BlocksOf(p, s)[k][1] = s
               /\ F(s)[k - 1] \in Nat
               /\ \A l \in 1 .. Len(BlocksOf(p, s)) : k < l => F(s)[k - 1] + 1 < F(s)[l - 1] + 1
    <2> DEFINE c == Chunks(p, s)
               f == F(s)
    <2>1. PICK q \in Nat : q = Len(BlocksOf(p, s))
      BY <1>7 DEF IsSequence
    <2>2. IsSequences(c) /\ Len(c) = q /\ Ends(c, f) /\ Enumerated(p, s) = FlattenSeq(c)
      BY <1>7, <2>1
    <2>14. \A l \in 1 .. Len(BlocksOf(p, s)) : ChunkOf(c[l], BlocksOf(p, s)[l], BlockAt(p, BlocksOf(p, s)[l]))
      BY <1>1, ChunksGood
    <2>3. c[k][1] = BeginOf(BlocksOf(p, s)[k])
      BY <2>14 DEF ChunkOf
    <2>4. \A l \in 1 .. q : Len(c[l]) \in Nat /\ 1 <= Len(c[l])
      <3>1. ASSUME NEW l \in 1 .. Len(BlocksOf(p, s))
            PROVE  Len(c[l]) = 1 + Len(BlockAt(p, BlocksOf(p, s)[l])) /\ IsSequence(BlockAt(p, BlocksOf(p, s)[l]))
        BY <2>14 DEF ChunkOf
      <3>2. ASSUME NEW l \in 1 .. Len(BlocksOf(p, s))
            PROVE  Len(c[l]) \in Nat /\ 1 <= Len(c[l])
        <4>1. PICK x \in Nat : x = Len(BlockAt(p, BlocksOf(p, s)[l]))
          BY <3>1 DEF IsSequence
        <4>2. Len(c[l]) = 1 + x
          BY <3>1, <4>1
        <4> QED BY <4>2
      <3> QED BY <2>1, <3>2
    <2>5. BlocksOf(p, s)[k][1] = s
      BY <1>1, BlockGood
    <2> HIDE DEF c, f
    <2>6. /\ \A l \in 0 .. q : f[l] \in Nat
          /\ \A l \in 1 .. q : Len(c[l]) \in Nat /\ f[l] = f[l - 1] + Len(c[l])
      BY <2>2, EndsTyped
    <2>7. /\ Len(FlattenSeq(c)) = f[q]
          /\ \A l \in 1 .. q : \A j \in 1 .. Len(c[l]) : FlattenSeq(c)[f[l - 1] + j] = c[l][j]
      <3>1. /\ Len(FlattenSeq(c)) = f[Len(c)]
            /\ \A l \in 1 .. Len(c) : \A j \in 1 .. Len(c[l]) : FlattenSeq(c)[f[l - 1] + j] = c[l][j]
        <4>1. IsSequences(c) /\ Ends(c, f)
          BY <2>2
        <4> QED BY <4>1, FlattenPlaces
      <3> QED BY <2>2, <3>1
    <2>8. k \in 1 .. q /\ k - 1 \in 0 .. q /\ k \in 0 .. q /\ q \in 0 .. q /\ k <= q
      BY <2>1
    <2>9. PICK a \in Nat, b \in Nat, z \in Nat, l \in Nat :
             a = f[k - 1] /\ b = f[k] /\ z = f[q] /\ l = Len(c[k]) /\ b = a + l /\ 1 <= l
      BY <2>4, <2>6, <2>8
    <2>10. b <= z
      <3>1. k \in 0 .. Len(c) /\ q \in 0 .. Len(c)
        BY <2>2, <2>8
      <3> QED BY <2>2, <2>8, <2>9, <3>1, EndsGrow
    <2>11. a + 1 \in 1 .. z /\ 1 \in 1 .. l
      BY SMTT(60), <2>9, <2>10
    <2>12. FlattenSeq(c)[a + 1] = BeginOf(BlocksOf(p, s)[k])
      BY <2>3, <2>7, <2>8, <2>9, <2>11
    <2>13. ASSUME NEW m \in 1 .. q, k < m
           PROVE  a + 1 < f[m - 1] + 1
      <3>1. m - 1 \in 0 .. q /\ k <= m - 1
        BY <2>8, <2>13
      <3>2. PICK d \in Nat : d = f[m - 1]
        BY <2>6, <3>1
      <3>3. b <= d
        <4>1. k \in 0 .. Len(c) /\ m - 1 \in 0 .. Len(c)
          BY <2>2, <2>8, <3>1
        <4> QED BY <2>2, <2>9, <3>1, <3>2, <4>1, EndsGrow
      <3> QED BY SMTT(60), <2>9, <3>2, <3>3
    <2> QED BY <2>1, <2>2, <2>5, <2>7, <2>9, <2>11, <2>12, <2>13 DEF f
  <1>9. ASSUME NEW m \in 1 .. Len(all)
        PROVE  /\ begin[m] = << begin[m][1], begin[m][2] >>
               /\ begin[m][1] \in 1 .. Len(p) /\ begin[m][2] \in 1 .. Len(Enumerated(p, begin[m][1]))
               /\ all[m][1] = begin[m][1]
               /\ Enumerated(p, begin[m][1])[begin[m][2]] = BeginOf(all[m])
    <2>1. PICK s \in 1 .. n : \E k \in 1 .. Len(BlocksOf(p, s)) : BeginAt(p, m, s, k)
      BY <1>4
    <2>2. PICK k \in 1 .. Len(BlocksOf(p, s)) :
             BeginPlace(p, m) = << s, F(s)[k - 1] + 1 >> /\ all[m] = BlocksOf(p, s)[k]
      BY <1>0, <2>1
    <2>3. PICK i : i = F(s)[k - 1] + 1
      OBVIOUS
    <2>4. begin[m] = << s, i >> /\ begin[m][1] = s /\ begin[m][2] = i
      BY <1>6, <2>2, <2>3
    <2>5. i \in 1 .. Len(Enumerated(p, s)) /\ Enumerated(p, s)[i] = BeginOf(all[m]) /\ all[m][1] = s
      BY <1>8, <2>2, <2>3
    <2> QED BY <1>1, <2>4, <2>5
  <1>10. ASSUME NEW l \in 1 .. Len(all), NEW m \in 1 .. Len(all), l < m
         PROVE  Precedes(begin[l], begin[m])
    <2>1. PICK s \in 1 .. n : \E k \in 1 .. Len(BlocksOf(p, s)) : BeginAt(p, l, s, k)
      BY <1>4
    <2>2. PICK k \in 1 .. Len(BlocksOf(p, s)) : l = e[s - 1] + k /\ BeginPlace(p, l) = << s, F(s)[k - 1] + 1 >>
      BY <1>0, <2>1
    <2>3. PICK x \in 1 .. n : \E y \in 1 .. Len(BlocksOf(p, x)) : BeginAt(p, m, x, y)
      BY <1>4
    <2>4. PICK y \in 1 .. Len(BlocksOf(p, x)) : m = e[x - 1] + y /\ BeginPlace(p, m) = << x, F(x)[y - 1] + 1 >>
      BY SMTT(60), <1>0, <2>3
    <2>5. s < x \/ (s = x /\ k < y)
      <3>1. /\ s \in 1 .. Len(t) /\ x \in 1 .. Len(t) /\ k \in 1 .. Len(t[s]) /\ y \in 1 .. Len(t[x])
            /\ e[s - 1] + k < e[x - 1] + y
        BY <1>2, <1>10, <2>2, <2>4
      <3> QED BY <1>2, <1>3, <3>1, EndsOrder
    <2>6. begin[l] = << s, F(s)[k - 1] + 1 >> /\ begin[m] = << x, F(x)[y - 1] + 1 >>
      BY <1>6, <2>2, <2>4
    <2>7. s < x \/ (s = x /\ F(s)[k - 1] + 1 < F(x)[y - 1] + 1)
      <3>1. CASE s < x
        BY <3>1
      <3>2. CASE s = x /\ k < y
        BY <1>8, <3>2
      <3> QED BY <2>5, <3>1, <3>2
    <2> QED BY <2>6, <2>7 DEF Precedes
  <1>11. ASSUME NEW l \in 1 .. Len(all), NEW m \in 1 .. Len(all), all[l] = all[m]
         PROVE  l = m
    <2>1. PICK s \in 1 .. n : \E k \in 1 .. Len(BlocksOf(p, s)) : BeginAt(p, l, s, k)
      BY <1>4
    <2>2. PICK k \in 1 .. Len(BlocksOf(p, s)) : l = e[s - 1] + k /\ all[l] = BlocksOf(p, s)[k]
      BY <1>0, <2>1
    <2>3. PICK x \in 1 .. n : \E y \in 1 .. Len(BlocksOf(p, x)) : BeginAt(p, m, x, y)
      BY <1>4
    <2>4. PICK y \in 1 .. Len(BlocksOf(p, x)) : m = e[x - 1] + y /\ all[m] = BlocksOf(p, x)[y]
      BY <1>0, <2>3
    <2>5. s = x
      <3>1. BlocksOf(p, s)[k][1] = s /\ BlocksOf(p, x)[y][1] = x
        BY <1>8
      <3> QED BY <1>11, <2>2, <2>4, <3>1
    <2>6. k = y
      <3>1. \A i, j \in 1 .. Len(BlocksOf(p, s)) : BlocksOf(p, s)[i] = BlocksOf(p, s)[j] => i = j
        BY <1>1, SectionNames
      <3> QED BY <1>11, <2>2, <2>4, <2>5, <3>1
    <2> QED BY <2>2, <2>4, <2>5, <2>6
  <1>12. ASSUME NEW s \in 1 .. n, NEW i \in 1 .. Len(Enumerated(p, s)), Enumerated(p, s)[i].kind = "begin"
         PROVE  \E m \in 1 .. Len(all) : begin[m] = << s, i >>
    <2> DEFINE c == Chunks(p, s)
               f == F(s)
               Block(k) == BlockAt(p, BlocksOf(p, s)[k])
    <2>1. PICK q \in Nat : q = Len(BlocksOf(p, s))
      BY <1>7 DEF IsSequence
    <2>2. IsSequences(c) /\ Len(c) = q /\ Ends(c, f) /\ Enumerated(p, s) = FlattenSeq(c)
      BY <1>7, <2>1
    <2>3. ASSUME NEW k \in 1 .. q
          PROVE  /\ IsSequence(Block(k)) /\ Len(c[k]) = 1 + Len(Block(k))
                 /\ \A j \in 1 .. Len(Block(k)) : c[k][1 + j] = Block(k)[j] /\ Block(k)[j].kind # "begin"
      <3>1. k \in 1 .. Len(BlocksOf(p, s)) /\ s \in 1 .. Len(p)
        BY <1>1, <2>1
      <3>2. /\ Len(c[k]) = 1 + Len(Block(k))
            /\ \A j \in 1 .. Len(Block(k)) : c[k][1 + j] = Block(k)[j]
        <4>1. ChunkOf(c[k], BlocksOf(p, s)[k], Block(k))
          BY <3>1, ChunksGood
        <4> QED BY <4>1 DEF ChunkOf
      <3>3. /\ IsSequence(Block(k))
            /\ \A j \in 1 .. Len(Block(k)) : Good(Block(k)[j], ToSet(AllBlocks(p)))
        BY <3>1, BlockGood
      <3>4. \A item : Good(item, ToSet(AllBlocks(p))) => item.kind # "begin"
        BY DEF Good
      <3> HIDE DEF c, Block
      <3> QED BY <3>2, <3>3, <3>4
    <2> HIDE DEF c, f, Block
    <2>4. /\ Len(FlattenSeq(c)) = f[Len(c)]
          /\ \A l \in 1 .. Len(c) : \A j \in 1 .. Len(c[l]) : FlattenSeq(c)[f[l - 1] + j] = c[l][j]
      <3>1. IsSequences(c) /\ Ends(c, f)
        BY <2>2
      <3> QED BY <3>1, FlattenPlaces
    <2>5. i \in 1 .. f[Len(c)]
      BY <2>2, <2>4
    <2>6. PICK k \in 1 .. Len(c) : \E j \in 1 .. Len(c[k]) : i = f[k - 1] + j
      BY <2>2, <2>5, EndsFind
    <2>7. PICK j \in 1 .. Len(c[k]) : i = f[k - 1] + j
      BY <2>6
    <2>8. j = 1
      <3> SUFFICES ASSUME j # 1
                   PROVE  FALSE
        OBVIOUS
      <3>1. PICK x \in Nat : x = Len(Block(k)) /\ Len(c[k]) = 1 + x
        BY <2>2, <2>3 DEF IsSequence
      <3>2. PICK y \in 1 .. x : j = 1 + y
        <4>1. j - 1 \in 1 .. x /\ j = 1 + (j - 1)
          BY <3>1
        <4> QED BY <4>1
      <3>3. c[k][j].kind # "begin"
        <4>1. c[k][1 + y] = Block(k)[y] /\ Block(k)[y].kind # "begin"
          BY <2>2, <2>3, <3>1
        <4> QED BY <3>2, <4>1
      <3>4. Enumerated(p, s)[i] = c[k][j]
        BY <2>2, <2>4, <2>7
      <3> QED BY <1>12, <3>3, <3>4
    <2>9. k \in 1 .. Len(BlocksOf(p, s)) /\ i = F(s)[k - 1] + 1
      BY <2>1, <2>2, <2>7, <2>8 DEF f
    <2>10. PICK m \in 1 .. Len(all) : BeginPlace(p, m) = << s, F(s)[k - 1] + 1 >>
      <3>1. \E m \in 1 .. Len(all) : BeginAt(p, m, s, k)
        BY <1>5, <2>9
      <3> QED BY <1>0, <3>1
    <2> QED BY <1>6, <2>9, <2>10
  <1>13. Begins(p, begin)
    BY <1>1, <1>9, <1>10, <1>11, <1>12 DEF Begins, all
  <1> QED BY <1>13

\* The bytes r of the items of a section that starts at a, before any address is in
\* its place: item i ends at e[i].
SectionLaid(items, a, r, e) ==
    /\ IsSequences(r) /\ Len(r) = Len(items) /\ Ends(r, e)
    /\ \A i \in 1 .. Len(items) : r[i] = Raw(items[i], a + e[i - 1])

LEMMA SectionLays ==
    ASSUME NEW items, IsSequence(items), NEW blocks,
           \A i \in 1 .. Len(items) : Enumerable(items[i], blocks), NEW a \in Nat
    PROVE  \E r, e : SectionLaid(items, a, r, e)
  <1>1. PICK n \in Nat : n = Len(items)
    BY DEF IsSequence
  <1>2. ASSUME NEW o \in Nat, NEW i \in 1 .. n
        PROVE  IsSequence(Raw(items[i], a + o)) /\ Len(Raw(items[i], a + o)) \in Nat
    <2>1. Enumerable(items[i], blocks) /\ a + o \in Int
      BY <1>1
    <2> QED BY <2>1, RawSequence
  <1> DEFINE G == [x \in Nat \X (1 .. n) |-> x[1] + Len(Raw(items[x[2]], a + x[1]))]
  <1>3. G \in [Nat \X (1 .. n) -> Nat]
    <2>1. ASSUME NEW x \in Nat \X (1 .. n)
          PROVE  x[1] + Len(Raw(items[x[2]], a + x[1])) \in Nat
      <3>1. PICK o \in Nat, i \in 1 .. n : x = << o, i >>
        OBVIOUS
      <3>2. PICK z \in Nat : z = Len(Raw(items[i], a + o))
        BY <1>2
      <3> QED BY <3>1, <3>2
    <2> QED BY <2>1
  <1>4. \A o \in Nat : \A i \in 1 .. n : G[<< o, i >>] = o + Len(Raw(items[i], a + o))
    OBVIOUS
  <1> HIDE DEF G
  <1>5. PICK e \in [0 .. n -> Nat] : Recursive(e, 0, n, G)
    BY <1>3, Recursion
  <1>6. e[0] = 0 /\ \A k \in 1 .. n : e[k] = G[<< e[k - 1], k >>]
    <2>1. \A k \in 0 .. n : e[k] = IF k = 0 THEN 0 ELSE G[<< e[k - 1], k >>]
      BY <1>5 DEF Recursive
    <2>2. 0 \in 0 .. n /\ \A k \in 1 .. n : k \in 0 .. n /\ k # 0
      OBVIOUS
    <2> QED BY <2>1, <2>2
  <1> DEFINE r == [i \in 1 .. n |-> Raw(items[i], a + e[i - 1])]
  <1>7. \A k \in 1 .. n : e[k - 1] \in Nat
    OBVIOUS
  <1>8. IsSequence(r) /\ Len(r) = n
    BY FunctionSequence
  <1>9. \A i \in 1 .. n : r[i] = Raw(items[i], a + e[i - 1])
    OBVIOUS
  <1> HIDE DEF r
  <1>10. \A i \in 1 .. n : IsSequence(r[i])
    BY <1>2, <1>7, <1>9
  <1>11. \A k \in 1 .. n : e[k] = e[k - 1] + Len(r[k])
    <2> TAKE k \in 1 .. n
    <2>1. PICK o \in Nat : o = e[k - 1]
      BY <1>7
    <2>2. e[k] = G[<< o, k >>] /\ r[k] = Raw(items[k], a + o)
      BY <1>6, <1>9, <2>1
    <2> QED BY <1>4, <2>1, <2>2
  <1>12. Ends(r, e)
    BY <1>6, <1>8, <1>11 DEF Ends
  <1> QED BY <1>1, <1>8, <1>9, <1>10, <1>12 DEF SectionLaid, IsSequences

Laying(items, a) == CHOOSE x : SectionLaid(items, a, x[1], x[2])

LEMMA LayingLays ==
    ASSUME NEW items, IsSequence(items), NEW blocks,
           \A i \in 1 .. Len(items) : Enumerable(items[i], blocks), NEW a \in Nat
    PROVE  /\ SectionLaid(items, a, Laying(items, a)[1], Laying(items, a)[2])
           /\ Laying(items, a)[2][Len(items)] \in Nat
  <1>1. PICK r, e : SectionLaid(items, a, r, e)
    BY SectionLays
  <1>2. << r, e >>[1] = r /\ << r, e >>[2] = e
    OBVIOUS
  <1>3. \E x : SectionLaid(items, a, x[1], x[2])
    BY <1>1, <1>2
  <1>4. SectionLaid(items, a, Laying(items, a)[1], Laying(items, a)[2])
    BY <1>3 DEF Laying
  <1>5. PICK q, f : q = Laying(items, a)[1] /\ f = Laying(items, a)[2]
    OBVIOUS
  <1>6. IsSequences(q) /\ Ends(q, f) /\ Len(q) = Len(items)
    BY <1>4, <1>5 DEF SectionLaid
  <1>7. Len(items) \in Nat
    BY DEF IsSequence
  <1>8. f[Len(items)] \in Nat
    BY <1>6, <1>7 DEF Ends
  <1> QED BY <1>4, <1>5, <1>8

\* Where everything stands: section s at start[s], its items before the addresses are
\* in them raw[s], each up to end[s][i], and the blocks where begin says.
LaidOut(p, l) ==
    /\ Begins(p, l.begin)
    /\ \A s \in 1 .. Len(p) :
          /\ l.start[s] \in Nat
          /\ l.start[s] = IF p[s].org # NoOrg THEN p[s].org
                          ELSE IF s = 1 THEN 0
                          ELSE l.start[s - 1] + l.end[s - 1][Len(Enumerated(p, s - 1))]
          /\ SectionLaid(Enumerated(p, s), l.start[s], l.raw[s], l.end[s])

LEMMA LayoutExists ==
    ASSUME NEW p, GoodProgram(p)
    PROVE  \E l : LaidOut(p, l)
  <1> DEFINE items(s) == Enumerated(p, s)
             size(s, a) == Laying(items(s), a)[2][Len(items(s))]
  <1>1. PICK n \in Nat : n = Len(p)
    BY DEF GoodProgram, IsSequence
  <1>2. ASSUME NEW s \in 1 .. n, NEW a \in Nat
        PROVE  /\ SectionLaid(items(s), a, Laying(items(s), a)[1], Laying(items(s), a)[2])
               /\ size(s, a) \in Nat
    <2>1. /\ IsSequence(items(s))
          /\ \A i \in 1 .. Len(items(s)) : Enumerable(items(s)[i], ToSet(AllBlocks(p)))
      BY <1>1, ItemsGood
    <2> HIDE DEF items
    <2> QED BY <2>1, LayingLays
  <1>3. \A s \in 1 .. n : p[s].org # NoOrg => p[s].org \in Nat
    BY <1>1 DEF GoodProgram
  <1> HIDE DEF items, size
  <1> DEFINE Next1(o, s) == IF p[s].org # NoOrg THEN p[s].org
                            ELSE IF s = 1 THEN 0 ELSE o + size(s - 1, o)
             G == [x \in Nat \X (1 .. n) |-> Next1(x[1], x[2])]
  <1>4. ASSUME NEW o \in Nat, NEW s \in 1 .. n
        PROVE  Next1(o, s) \in Nat
    <2>1. CASE p[s].org # NoOrg
      BY <1>3, <2>1
    <2>2. CASE p[s].org = NoOrg /\ s = 1
      BY <2>2
    <2>3. CASE p[s].org = NoOrg /\ s # 1
      <3>1. PICK t \in 1 .. n : t = s - 1
        BY <2>3
      <3>2. PICK z \in Nat : z = size(t, o)
        BY <1>2
      <3>3. Next1(o, s) = o + z
        BY <2>3, <3>1, <3>2
      <3> QED BY <3>2, <3>3
    <2> QED BY <2>1, <2>2, <2>3
  <1>5. \A o \in Nat : \A s \in 1 .. n : G[<< o, s >>] = Next1(o, s)
    OBVIOUS
  <1>6. G \in [Nat \X (1 .. n) -> Nat]
    <2>1. ASSUME NEW x \in Nat \X (1 .. n)
          PROVE  Next1(x[1], x[2]) \in Nat
      <3>1. PICK o \in Nat, s \in 1 .. n : x = << o, s >>
        OBVIOUS
      <3>2. x[1] = o /\ x[2] = s
        BY <3>1
      <3> HIDE DEF Next1
      <3> QED BY <1>4, <3>2
    <2> HIDE DEF Next1
    <2> QED BY <2>1
  <1> HIDE DEF G
  <1>7. PICK F \in [0 .. n -> Nat] : Recursive(F, 0, n, G)
    BY <1>6, Recursion
  <1>8. \A k \in 1 .. n : F[k] = G[<< F[k - 1], k >>] /\ F[k - 1] \in Nat /\ F[k] \in Nat
    <2>1. \A k \in 0 .. n : F[k] = IF k = 0 THEN 0 ELSE G[<< F[k - 1], k >>]
      BY <1>7 DEF Recursive
    <2>2. \A k \in 1 .. n : k \in 0 .. n /\ k - 1 \in 0 .. n /\ k # 0
      OBVIOUS
    <2> QED BY <1>7, <2>1, <2>2
  <1>9. \A k \in 1 .. n : F[k] = Next1(F[k - 1], k)
    <2> HIDE DEF Next1
    <2> QED BY <1>5, <1>8
  <1>10. PICK begin : Begins(p, begin)
    BY BeginsExist
  <1>11. PICK l : /\ l.begin = begin
                  /\ \A s \in 1 .. n : l.start[s] = F[s]
                  /\ \A s \in 1 .. n : l.raw[s] = Laying(items(s), F[s])[1] /\ l.end[s] = Laying(items(s), F[s])[2]
    <2> DEFINE m == [begin |-> begin, start |-> F,
                     raw |-> [s \in 1 .. n |-> Laying(items(s), F[s])[1]],
                     end |-> [s \in 1 .. n |-> Laying(items(s), F[s])[2]]]
    <2>1. /\ m.begin = begin
          /\ \A s \in 1 .. n : m.start[s] = F[s]
          /\ \A s \in 1 .. n : m.raw[s] = Laying(items(s), F[s])[1] /\ m.end[s] = Laying(items(s), F[s])[2]
      OBVIOUS
    <2> HIDE DEF m
    <2> QED BY <2>1
  <1>12. ASSUME NEW s \in 1 .. n
         PROVE  /\ l.start[s] \in Nat
                /\ l.start[s] = IF p[s].org # NoOrg THEN p[s].org
                                ELSE IF s = 1 THEN 0
                                ELSE l.start[s - 1] + l.end[s - 1][Len(items(s - 1))]
                /\ SectionLaid(items(s), l.start[s], l.raw[s], l.end[s])
    <2>1. l.start[s] = F[s] /\ F[s] \in Nat
      BY <1>8, <1>11
    <2>2. SectionLaid(items(s), l.start[s], l.raw[s], l.end[s])
      BY <1>2, <1>11, <2>1
    <2>3. ASSUME s # 1
          PROVE  /\ F[s - 1] = l.start[s - 1]
                 /\ size(s - 1, F[s - 1]) = l.end[s - 1][Len(items(s - 1))]
      <3>1. PICK t \in 1 .. n : t = s - 1
        BY <2>3
      <3>2. F[t] = l.start[t] /\ size(t, F[t]) = l.end[t][Len(items(t))]
        BY <1>11 DEF size
      <3> QED BY <3>1, <3>2
    <2>4. F[s] = IF p[s].org # NoOrg THEN p[s].org
                 ELSE IF s = 1 THEN 0 ELSE F[s - 1] + size(s - 1, F[s - 1])
      BY <1>9
    <2> QED BY <2>1, <2>2, <2>3, <2>4
  <1>13. LaidOut(p, l)
    BY <1>1, <1>10, <1>11, <1>12 DEF LaidOut, items
  <1> QED BY <1>13

-----------------------------------------------------------------------------
(* The items of all sections in a row                                      *)

\* The bytes of the items joined: item i from e[i - 1] on.
Joined(items, r, e) ==
    /\ Len(items) \in Nat /\ e[0] = 0
    /\ \A k \in 0 .. Len(items) : e[k] \in Nat /\ e[k] <= e[Len(items)]
    /\ \A i \in 1 .. Len(items) : /\ IsSequence(r[i]) /\ Len(r[i]) \in Nat
                                  /\ e[i] = e[i - 1] + Len(r[i])
    /\ IsSequence(FlattenSeq(r)) /\ Len(FlattenSeq(r)) = e[Len(items)]
    /\ \A i \in 1 .. Len(items) : \A y \in 1 .. Len(r[i]) : FlattenSeq(r)[e[i - 1] + y] = r[i][y]
    /\ \A x \in 1 .. e[Len(items)] :
          \E i \in 1 .. Len(items) : \E y \in 1 .. Len(r[i]) : x = e[i - 1] + y

LEMMA LaidJoined ==
    ASSUME NEW items, IsSequence(items), NEW a, NEW r, NEW e, SectionLaid(items, a, r, e)
    PROVE  Joined(items, r, e)
  <1>1. PICK n \in Nat : n = Len(items)
    BY DEF IsSequence
  <1>2. IsSequences(r) /\ Len(r) = n /\ Ends(r, e)
    BY <1>1 DEF SectionLaid
  <1>3. IsSequences(r) /\ Ends(r, e)
    BY <1>2
  <1>4. /\ e[0] = 0
        /\ \A k \in 0 .. n : e[k] \in Nat
        /\ \A k \in 1 .. n : Len(r[k]) \in Nat /\ e[k] = e[k - 1] + Len(r[k])
    <2>1. /\ e[0] = 0
          /\ \A k \in 0 .. Len(r) : e[k] \in Nat
          /\ \A k \in 1 .. Len(r) : Len(r[k]) \in Nat /\ e[k] = e[k - 1] + Len(r[k])
      BY <1>3, EndsTyped
    <2> QED BY <1>2, <2>1
  <1>5. ASSUME NEW k \in 0 .. n
        PROVE  e[k] <= e[n]
    <2>1. k \in 0 .. Len(r) /\ n \in 0 .. Len(r) /\ k <= n
      BY <1>2
    <2> QED BY <1>3, <2>1, EndsGrow
  <1>6. /\ IsSequence(FlattenSeq(r))
        /\ Len(FlattenSeq(r)) = e[n]
        /\ \A k \in 1 .. n : \A j \in 1 .. Len(r[k]) : FlattenSeq(r)[e[k - 1] + j] = r[k][j]
    <2>1. /\ IsSequence(FlattenSeq(r))
          /\ Len(FlattenSeq(r)) = e[Len(r)]
          /\ \A k \in 1 .. Len(r) : \A j \in 1 .. Len(r[k]) : FlattenSeq(r)[e[k - 1] + j] = r[k][j]
      BY <1>3, FlattenPlaces
    <2> QED BY <1>2, <2>1
  <1>7. ASSUME NEW x \in 1 .. e[n]
        PROVE  \E i \in 1 .. n : \E y \in 1 .. Len(r[i]) : x = e[i - 1] + y
    <2>1. x \in 1 .. e[Len(r)]
      BY <1>2
    <2>2. \E i \in 1 .. Len(r) : \E y \in 1 .. Len(r[i]) : x = e[i - 1] + y
      BY <1>3, <2>1, EndsFind
    <2> QED BY <1>2, <2>2
  <1>8. \A k \in 1 .. n : IsSequence(r[k])
    BY <1>2 DEF IsSequences
  <1> QED BY <1>1, <1>4, <1>5, <1>6, <1>7, <1>8 DEF Joined

LEMMA ProgramJoined ==
    ASSUME NEW p, GoodProgram(p), NEW l, LaidOut(p, l), NEW s \in 1 .. Len(p)
    PROVE  /\ Joined(Enumerated(p, s), l.raw[s], l.end[s])
           /\ l.start[s] \in Nat
           /\ \A i \in 1 .. Len(Enumerated(p, s)) :
                 /\ Enumerable(Enumerated(p, s)[i], ToSet(AllBlocks(p)))
                 /\ l.raw[s][i] = Raw(Enumerated(p, s)[i], l.start[s] + l.end[s][i - 1])
  <1>1. SectionLaid(Enumerated(p, s), l.start[s], l.raw[s], l.end[s]) /\ l.start[s] \in Nat
    BY DEF LaidOut
  <1>2. /\ IsSequence(Enumerated(p, s))
        /\ \A i \in 1 .. Len(Enumerated(p, s)) : Enumerable(Enumerated(p, s)[i], ToSet(AllBlocks(p)))
    BY ItemsGood
  <1>3. Joined(Enumerated(p, s), l.raw[s], l.end[s])
    BY <1>1, <1>2, LaidJoined
  <1>4. \A i \in 1 .. Len(Enumerated(p, s)) :
           l.raw[s][i] = Raw(Enumerated(p, s)[i], l.start[s] + l.end[s][i - 1])
    BY <1>1 DEF SectionLaid
  <1> QED BY <1>1, <1>2, <1>3, <1>4

-----------------------------------------------------------------------------

\* Where the walk may be: before the items of a section, at one of them, or behind.
Walking(p, a) ==
    /\ a = << a[1], a[2] >>
    /\ a[1] \in 1 .. Len(p) + 1 /\ a[2] \in Nat
    /\ a[1] <= Len(p) => a[2] <= Len(Enumerated(p, a[1])) + 1
    /\ a[1] = Len(p) + 1 => a[2] = 0

\* Item i of section t is behind the walk.
Passed(a, t, i) == t < a[1] \/ (t = a[1] /\ i < a[2])

LEMMA PassedNext ==
    ASSUME NEW s \in Nat, NEW i \in Nat
    PROVE  \A t, k \in Nat : Passed(<< s, i + 1 >>, t, k) <=> Passed(<< s, i >>, t, k) \/ (t = s /\ k = i)
  BY DEF Passed

\* A buffer begins with n given bytes.
HasBytes(buffer, bytes, n) ==
    /\ n <= Len(FlattenSeq(buffer))
    /\ \A x \in 1 .. n : FlattenSeq(buffer)[x] = bytes[x]

\* One more item behind them.
LEMMA HasMore ==
    ASSUME NEW buffer, NEW bytes, NEW n \in Nat, NEW data, IsSequences(buffer), IsSequence(data),
           HasBytes(buffer, bytes, n), \A y \in 1 .. Len(data) : bytes[n + y] = data[y]
    PROVE  /\ IsSequences(Write(buffer, n, data))
           /\ HasBytes(Write(buffer, n, data), bytes, n + Len(data))
  <1> DEFINE f == FlattenSeq(buffer)
             w == Write(buffer, n, data)
             g == FlattenSeq(w)
  <1>1. n <= Len(f) /\ \A x \in 1 .. n : f[x] = bytes[x]
    BY DEF HasBytes
  <1>2. IsSequences(w) /\ Overwritten(f, g, n, data)
    BY <1>1, WriteWrites
  <1>3. PICK m \in Nat : m = Len(data)
    BY DEF IsSequence
  <1>4. PICK lf \in Nat : lf = Len(f)
    <2>1. IsSequence(f)
      BY FlattenElements
    <2> HIDE DEF f
    <2> QED BY <2>1 DEF IsSequence
  <1> HIDE DEF f, g, w
  <1>5. /\ IsSequence(g) /\ Len(g) >= n + m
        /\ \A y \in 1 .. m : g[n + y] = data[y]
        /\ \A x \in 1 .. lf : x <= n \/ n + m < x => g[x] = f[x]
    BY <1>2, <1>3, <1>4 DEF Overwritten
  <1>6. PICK lg \in Nat : lg = Len(g)
    BY <1>5 DEF IsSequence
  <1>7. ASSUME NEW x \in 1 .. n + m
        PROVE  g[x] = bytes[x]
    <2>1. CASE x <= n
      <3>1. x \in 1 .. lf /\ x \in 1 .. n
        BY <1>1, <1>4, <2>1
      <3> QED BY <1>1, <1>5, <2>1, <3>1
    <2>2. CASE n < x
      <3>1. PICK y \in 1 .. m : x = n + y
        <4>1. x - n \in 1 .. m /\ x = n + (x - n)
          BY <2>2
        <4> QED BY <4>1
      <3> QED BY <1>3, <1>5, <3>1
    <2> QED BY <2>1, <2>2
  <1>8. n + m <= Len(g)
    BY <1>5, <1>6
  <1>9. HasBytes(w, bytes, n + m)
    BY <1>7, <1>8 DEF HasBytes, g
  <1> QED BY <1>2, <1>3, <1>9 DEF w

-----------------------------------------------------------------------------
(* The first pass: the state it has reached                                *)

\* The sections S, when the walk is at a and the next byte goes to `off`: those behind
\* the walk have all their bytes and their size, and the one it is in the bytes up to it.
SectionsAt(S, off, p, l, a) ==
    /\ IsSequence(S)
    /\ Len(S) = IF a[2] = 0 THEN a[1] - 1 ELSE a[1]
    /\ \A t \in 1 .. Len(S) :
          /\ S[t] = [start |-> l.start[t], size |-> S[t].size, buffer |-> S[t].buffer]
          /\ IsSequences(S[t].buffer)
          /\ t < a[1] => /\ S[t].size = l.end[t][Len(Enumerated(p, t))]
                         /\ HasBytes(S[t].buffer, FlattenSeq(l.raw[t]), S[t].size)
    /\ a[2] # 0 => /\ off = l.end[a[1]][a[2] - 1]
                   /\ HasBytes(S[a[1]].buffer, FlattenSeq(l.raw[a[1]]), off)

Emitted(S, s, off, bytes) == [S EXCEPT ![s].buffer = Write(@, off, bytes)]

LEMMA EmittedIs ==
    ASSUME NEW S, IsSequence(S), NEW s \in 1 .. Len(S), NEW off, NEW bytes, NEW start, NEW size, NEW buffer,
           S[s] = [start |-> start, size |-> size, buffer |-> buffer]
    PROVE  /\ IsSequence(Emitted(S, s, off, bytes))
           /\ Len(Emitted(S, s, off, bytes)) = Len(S)
           /\ Emitted(S, s, off, bytes)[s] =
                 [start |-> start, size |-> size, buffer |-> Write(buffer, off, bytes)]
           /\ \A t \in 1 .. Len(S) : t # s => Emitted(S, s, off, bytes)[t] = S[t]
  <1> DEFINE w == Write(buffer, off, bytes)
             e == [start |-> start, size |-> size, buffer |-> w]
  <1>1. S[s].buffer = buffer
    OBVIOUS
  <1>2. [S[s] EXCEPT !.buffer = w] = e
    <2> HIDE DEF w
    <2> QED OBVIOUS
  <1>3. Emitted(S, s, off, bytes) = Put(S, s, [S[s] EXCEPT !.buffer = Write(S[s].buffer, off, bytes)])
    BY DEF Emitted, Put
  <1>4. Emitted(S, s, off, bytes) = Put(S, s, e)
    BY <1>1, <1>2, <1>3
  <1> HIDE DEF e, w
  <1>5. /\ IsSequence(Put(S, s, e)) /\ Len(Put(S, s, e)) = Len(S)
        /\ s \in 1 .. Len(S) => Put(S, s, e)[s] = e
        /\ \A j \in 1 .. Len(S) : j # s => Put(S, s, e)[j] = S[j]
    BY PutSequence
  <1> QED BY <1>4, <1>5 DEF e, w

\* The item at the walk is emitted.
LEMMA SectionsEmit ==
    ASSUME NEW p, GoodProgram(p), NEW l, LaidOut(p, l), NEW s \in 1 .. Len(p),
           NEW i \in 1 .. Len(Enumerated(p, s)), NEW S, NEW off, SectionsAt(S, off, p, l, << s, i >>)
    PROVE  LET bytes == l.raw[s][i]
           IN  SectionsAt(Emitted(S, s, off, bytes), off + Len(bytes), p, l, << s, i + 1 >>)
  <1> DEFINE bytes == l.raw[s][i]
             flat  == FlattenSeq(l.raw[s])
             e     == l.end[s]
             a     == << s, i >>
             b     == << s, i + 1 >>
             T     == Emitted(S, s, off, bytes)
  <1>1. PICK n \in Nat : n = Len(Enumerated(p, s)) /\ i \in 1 .. n
    <2>1. IsSequence(Enumerated(p, s))
      BY ItemsGood
    <2> QED BY <2>1 DEF IsSequence
  <1>2. Joined(Enumerated(p, s), l.raw[s], e)
    BY ProgramJoined
  <1>3. /\ IsSequence(bytes) /\ Len(bytes) \in Nat
        /\ e[i] = e[i - 1] + Len(bytes) /\ e[i - 1] \in Nat
        /\ \A y \in 1 .. Len(bytes) : flat[e[i - 1] + y] = bytes[y]
    <2>1. i - 1 \in 0 .. Len(Enumerated(p, s))
      BY <1>1
    <2> HIDE DEF e
    <2> QED BY <1>2, <2>1 DEF Joined
  <1>4. a[1] = s /\ a[2] = i /\ b[1] = s /\ b[2] = i + 1 /\ i # 0 /\ i + 1 # 0 /\ i + 1 - 1 = i
    BY <1>1
  <1>5. /\ IsSequence(S) /\ Len(S) = s
        /\ \A t \in 1 .. s :
              /\ S[t] = [start |-> l.start[t], size |-> S[t].size, buffer |-> S[t].buffer]
              /\ IsSequences(S[t].buffer)
              /\ t < s => /\ S[t].size = l.end[t][Len(Enumerated(p, t))]
                          /\ HasBytes(S[t].buffer, FlattenSeq(l.raw[t]), S[t].size)
        /\ off = e[i - 1] /\ HasBytes(S[s].buffer, flat, off)
    <2>1. SectionsAt(S, off, p, l, a)
      OBVIOUS
    <2> HIDE DEF a, b
    <2> QED BY <1>4, <2>1 DEF SectionsAt
  <1>6. PICK buffer, size : /\ S[s] = [start |-> l.start[s], size |-> size, buffer |-> buffer]
                            /\ IsSequences(buffer) /\ HasBytes(buffer, flat, off)
    <2>1. s \in 1 .. s
      OBVIOUS
    <2>2. IsSequences(S[s].buffer) /\ S[s] = [start |-> l.start[s], size |-> S[s].size, buffer |-> S[s].buffer]
      BY <1>5, <2>1
    <2> QED BY <1>5, <2>2
  <1> DEFINE w == Write(buffer, off, bytes)
  <1>7. IsSequences(w) /\ HasBytes(w, flat, off + Len(bytes))
    <2>1. off \in Nat /\ \A y \in 1 .. Len(bytes) : flat[off + y] = bytes[y]
      BY <1>3, <1>5
    <2> HIDE DEF bytes, flat
    <2> QED BY <1>3, <1>6, <2>1, HasMore
  <1>8. /\ IsSequence(T) /\ Len(T) = s
        /\ T[s] = [start |-> l.start[s], size |-> size, buffer |-> w]
        /\ \A t \in 1 .. s : t # s => T[t] = S[t]
    <2>1. IsSequence(S) /\ s \in 1 .. Len(S)
      BY <1>5
    <2>2. /\ IsSequence(T) /\ Len(T) = Len(S)
          /\ T[s] = [start |-> l.start[s], size |-> size, buffer |-> w]
          /\ \A t \in 1 .. Len(S) : t # s => T[t] = S[t]
      <3> HIDE DEF bytes
      <3> QED BY <1>6, <2>1, EmittedIs
    <2> QED BY <1>5, <2>2
  <1> HIDE DEF T, w, flat, bytes, e, a
  <1>9. off + Len(bytes) = e[i]
    BY <1>3, <1>5
  <1>10. ASSUME NEW t \in 1 .. s
         PROVE  /\ T[t] = [start |-> l.start[t], size |-> T[t].size, buffer |-> T[t].buffer]
                /\ IsSequences(T[t].buffer)
                /\ t < s => /\ T[t].size = l.end[t][Len(Enumerated(p, t))]
                            /\ HasBytes(T[t].buffer, FlattenSeq(l.raw[t]), T[t].size)
    <2>1. CASE t = s
      BY <1>7, <1>8, <2>1
    <2>2. CASE t # s
      BY <1>5, <1>8, <2>2
    <2> QED BY <2>1, <2>2
  <1>11. T[s].buffer = w
    BY <1>8
  <1>12. SectionsAt(T, off + Len(bytes), p, l, b)
    <2> HIDE DEF b
    <2> QED BY <1>4, <1>7, <1>8, <1>9, <1>10, <1>11 DEF SectionsAt, e, flat
  <1> QED BY <1>12 DEF T, bytes

\* A block begins: nothing is emitted.
LEMMA SectionsBegin ==
    ASSUME NEW p, GoodProgram(p), NEW l, LaidOut(p, l), NEW s \in 1 .. Len(p),
           NEW i \in 1 .. Len(Enumerated(p, s)), l.raw[s][i] = << >>,
           NEW S, NEW off, SectionsAt(S, off, p, l, << s, i >>)
    PROVE  SectionsAt(S, off, p, l, << s, i + 1 >>)
  <1> DEFINE a == << s, i >>
             b == << s, i + 1 >>
             e == l.end[s]
  <1>1. PICK n \in Nat : n = Len(Enumerated(p, s)) /\ i \in 1 .. n
    <2>1. IsSequence(Enumerated(p, s))
      BY ItemsGood
    <2> QED BY <2>1 DEF IsSequence
  <1>2. Joined(Enumerated(p, s), l.raw[s], e)
    BY ProgramJoined
  <1>3. e[i] = e[i - 1]
    <2>1. i - 1 \in 0 .. Len(Enumerated(p, s)) /\ Len(<< >>) = 0
      BY <1>1
    <2>2. e[i - 1] \in Nat /\ e[i] = e[i - 1] + Len(l.raw[s][i])
      <3> HIDE DEF e
      <3> QED BY <1>2, <2>1 DEF Joined
    <2> QED BY <2>1, <2>2
  <1>4. a[1] = s /\ a[2] = i /\ b[1] = s /\ b[2] = i + 1 /\ i # 0 /\ i + 1 # 0 /\ i + 1 - 1 = i
    BY <1>1
  <1>5. SectionsAt(S, off, p, l, a)
    OBVIOUS
  <1>6. SectionsAt(S, off, p, l, b)
    <2> HIDE DEF a, b
    <2> QED BY <1>3, <1>4, <1>5 DEF SectionsAt, e
  <1> QED BY <1>6

\* A section starts behind the one before, or where it asks to.
LEMMA SectionsStart ==
    ASSUME NEW p, GoodProgram(p), NEW l, LaidOut(p, l), NEW s \in 1 .. Len(p),
           NEW S, NEW off, SectionsAt(S, off, p, l, << s, 0 >>), NEW start,
           start = CASE p[s].org # NoOrg -> p[s].org
                     [] p[s].org = NoOrg /\ s = 1 -> 0
                     [] OTHER -> S[s - 1].start + S[s - 1].size
    PROVE  SectionsAt(Append(S, [start |-> start, size |-> 0, buffer |-> << >>]), 0, p, l, << s, 1 >>)
  <1> DEFINE a == << s, 0 >>
             b == << s, 1 >>
             e == [start |-> start, size |-> 0, buffer |-> << >>]
             T == Append(S, e)
  <1>1. PICK n \in Nat : n = Len(p) /\ s \in 1 .. n
    BY DEF GoodProgram, IsSequence
  <1>2. a[1] = s /\ a[2] = 0 /\ b[1] = s /\ b[2] = 1
    OBVIOUS
  <1>3. SectionsAt(S, off, p, l, a)
    OBVIOUS
  <1>4. /\ IsSequence(S) /\ Len(S) = s - 1
        /\ \A t \in 1 .. s - 1 :
              /\ S[t] = [start |-> l.start[t], size |-> S[t].size, buffer |-> S[t].buffer]
              /\ IsSequences(S[t].buffer)
              /\ t < s => /\ S[t].size = l.end[t][Len(Enumerated(p, t))]
                          /\ HasBytes(S[t].buffer, FlattenSeq(l.raw[t]), S[t].size)
    <2> HIDE DEF a
    <2> QED BY <1>2, <1>3 DEF SectionsAt
  <1>5. start = l.start[s]
    <2>1. l.start[s] = IF p[s].org # NoOrg THEN p[s].org
                       ELSE IF s = 1 THEN 0
                       ELSE l.start[s - 1] + l.end[s - 1][Len(Enumerated(p, s - 1))]
      BY DEF LaidOut
    <2>2. ASSUME s # 1
          PROVE  S[s - 1].start = l.start[s - 1] /\ S[s - 1].size = l.end[s - 1][Len(Enumerated(p, s - 1))]
      <3>1. PICK t \in 1 .. s - 1 : t = s - 1 /\ t < s
        BY <2>2
      <3> QED BY <1>4, <3>1
    <2>3. CASE p[s].org # NoOrg
      BY <2>1, <2>3
    <2>4. CASE p[s].org = NoOrg /\ s = 1
      BY <2>1, <2>4
    <2>5. CASE p[s].org = NoOrg /\ s # 1
      BY <2>1, <2>2, <2>5
    <2> QED BY <2>3, <2>4, <2>5
  <1> HIDE DEF e
  <1>6. /\ IsSequence(T) /\ Len(T) = s /\ T[s] = e
        /\ \A t \in 1 .. s - 1 : T[t] = S[t]
    <2>1. /\ IsSequence(T) /\ Len(T) = Len(S) + 1 /\ T[Len(S) + 1] = e
          /\ \A t \in 1 .. Len(S) : T[t] = S[t]
      BY <1>4, AppendSequence
    <2>2. s - 1 + 1 = s
      OBVIOUS
    <2> HIDE DEF T
    <2> QED BY <1>4, <2>1, <2>2
  <1>7. IsSequences(<< >>) /\ \A bytes : HasBytes(<< >>, bytes, 0)
    <2>1. IsSequence(<< >>) /\ Len(<< >>) = 0
      BY EmptySequence
    <2>2. IsSequences(<< >>)
      BY <2>1 DEF IsSequences
    <2>3. PICK z \in Nat : z = Len(FlattenSeq(<< >>))
      BY <2>2, FlattenElements DEF IsSequence
    <2> QED BY <2>2, <2>3 DEF HasBytes
  <1>8. l.end[s][0] = 0
    <2>1. Joined(Enumerated(p, s), l.raw[s], l.end[s])
      BY ProgramJoined
    <2> QED BY <2>1 DEF Joined
  <1> HIDE DEF T
  <1>9. ASSUME NEW t \in 1 .. s
         PROVE  /\ T[t] = [start |-> l.start[t], size |-> T[t].size, buffer |-> T[t].buffer]
                /\ IsSequences(T[t].buffer)
                /\ t < s => /\ T[t].size = l.end[t][Len(Enumerated(p, t))]
                            /\ HasBytes(T[t].buffer, FlattenSeq(l.raw[t]), T[t].size)
    <2>1. CASE t = s
      BY <1>5, <1>6, <1>7, <2>1 DEF e
    <2>2. CASE t # s
      <3>1. t \in 1 .. s - 1
        BY <2>2
      <3> QED BY <1>4, <1>6, <3>1
    <2> QED BY <2>1, <2>2
  <1>10. T[s].buffer = << >> /\ 1 - 1 = 0
    BY <1>6 DEF e
  <1>11. SectionsAt(T, 0, p, l, b)
    <2> HIDE DEF b
    <2> QED BY <1>2, <1>6, <1>7, <1>8, <1>9, <1>10 DEF SectionsAt
  <1> QED BY <1>11 DEF T, e

\* A section ends: its size is the offset.
LEMMA SectionsEnd ==
    ASSUME NEW p, GoodProgram(p), NEW l, LaidOut(p, l), NEW s \in 1 .. Len(p),
           NEW S, NEW off, SectionsAt(S, off, p, l, << s, Len(Enumerated(p, s)) + 1 >>)
    PROVE  SectionsAt([S EXCEPT ![s].size = off], off, p, l, << s + 1, 0 >>)
  <1> DEFINE a == << s, Len(Enumerated(p, s)) + 1 >>
             b == << s + 1, 0 >>
             T == [S EXCEPT ![s].size = off]
  <1>1. PICK n \in Nat : n = Len(Enumerated(p, s))
    <2>1. IsSequence(Enumerated(p, s))
      BY ItemsGood
    <2> QED BY <2>1 DEF IsSequence
  <1>0. n + 1 # 0 /\ n + 1 - 1 = n /\ s + 1 - 1 = s
    OBVIOUS
  <1>2. a[1] = s /\ a[2] = n + 1 /\ b[1] = s + 1 /\ b[2] = 0
    BY <1>1
  <1>3. SectionsAt(S, off, p, l, a)
    OBVIOUS
  <1> HIDE DEF a, b
  <1>4. /\ IsSequence(S) /\ Len(S) = s
        /\ \A t \in 1 .. s :
              /\ S[t] = [start |-> l.start[t], size |-> S[t].size, buffer |-> S[t].buffer]
              /\ IsSequences(S[t].buffer)
              /\ t < s => /\ S[t].size = l.end[t][Len(Enumerated(p, t))]
                          /\ HasBytes(S[t].buffer, FlattenSeq(l.raw[t]), S[t].size)
        /\ off = l.end[s][n] /\ HasBytes(S[s].buffer, FlattenSeq(l.raw[s]), off)
    <2>1. a[2] # 0 /\ a[2] - 1 = n /\ IsSequence(S)
      BY <1>0, <1>2, <1>3 DEF SectionsAt
    <2>2. Len(S) = s
      BY <1>2, <1>3, <2>1 DEF SectionsAt
    <2>3. off = l.end[s][n] /\ HasBytes(S[s].buffer, FlattenSeq(l.raw[s]), off)
      <3>1. off = l.end[a[1]][a[2] - 1] /\ HasBytes(S[a[1]].buffer, FlattenSeq(l.raw[a[1]]), off)
        BY <1>3, <2>1 DEF SectionsAt
      <3> QED BY <1>2, <2>1, <3>1
    <2> QED BY <1>2, <1>3, <2>1, <2>2, <2>3 DEF SectionsAt
  <1>5. PICK buffer, size : /\ S[s] = [start |-> l.start[s], size |-> size, buffer |-> buffer]
                            /\ IsSequences(buffer) /\ HasBytes(buffer, FlattenSeq(l.raw[s]), off)
    <2>1. s \in 1 .. s
      OBVIOUS
    <2>2. IsSequences(S[s].buffer) /\ S[s] = [start |-> l.start[s], size |-> S[s].size, buffer |-> S[s].buffer]
      BY <1>4, <2>1
    <2> QED BY <1>4, <2>2
  <1> DEFINE e == [start |-> l.start[s], size |-> off, buffer |-> buffer]
  <1>6. T = Put(S, s, e)
    <2>1. [S[s] EXCEPT !.size = off] = e
      BY <1>5
    <2>2. T = Put(S, s, [S[s] EXCEPT !.size = off])
      BY DEF Put
    <2> QED BY <2>1, <2>2
  <1> HIDE DEF T
  <1>7. /\ IsSequence(T) /\ Len(T) = s /\ T[s] = e
        /\ \A t \in 1 .. s : t # s => T[t] = S[t]
    <2> HIDE DEF e
    <2>1. /\ IsSequence(Put(S, s, e)) /\ Len(Put(S, s, e)) = Len(S)
          /\ s \in 1 .. Len(S) => Put(S, s, e)[s] = e
          /\ \A j \in 1 .. Len(S) : j # s => Put(S, s, e)[j] = S[j]
      BY <1>4, PutSequence
    <2> QED BY <1>4, <1>6, <2>1
  <1>8. ASSUME NEW t \in 1 .. s
        PROVE  /\ T[t] = [start |-> l.start[t], size |-> T[t].size, buffer |-> T[t].buffer]
               /\ IsSequences(T[t].buffer)
               /\ T[t].size = l.end[t][Len(Enumerated(p, t))]
               /\ HasBytes(T[t].buffer, FlattenSeq(l.raw[t]), T[t].size)
    <2>1. CASE t = s
      BY <1>1, <1>4, <1>5, <1>7, <2>1
    <2>2. CASE t # s
      <3>1. t < s
        BY <2>2
      <3> QED BY <1>4, <1>7, <2>2, <3>1
    <2> QED BY <2>1, <2>2
  <1>9. SectionsAt(T, off, p, l, b)
    BY <1>0, <1>2, <1>7, <1>8 DEF SectionsAt
  <1> QED BY <1>9 DEF T, b

\* The offsets B of the blocks, when the walk is at a: one for each block that began,
\* which are the first of the list of all.
BlocksAt(B, p, l, a) ==
    /\ IsSequence(B) /\ Len(B) <= Len(AllBlocks(p))
    /\ \A m \in 1 .. Len(AllBlocks(p)) : Passed(a, l.begin[m][1], l.begin[m][2]) <=> m <= Len(B)
    /\ \A m \in 1 .. Len(B) : B[m] = l.end[l.begin[m][1]][l.begin[m][2] - 1]

LEMMA BlocksBegin ==
    ASSUME NEW p, GoodProgram(p), NEW l, LaidOut(p, l), NEW s \in 1 .. Len(p),
           NEW i \in 1 .. Len(Enumerated(p, s)), Enumerated(p, s)[i].kind = "begin",
           NEW B, BlocksAt(B, p, l, << s, i >>), NEW off, off = l.end[s][i - 1]
    PROVE  BlocksAt(Append(B, off), p, l, << s, i + 1 >>)
  <1> DEFINE a == << s, i >>
             b == << s, i + 1 >>
             begin == l.begin
             T == Append(B, off)
  <1>1. PICK M \in Nat : M = Len(AllBlocks(p))
    BY SectionsOfBlocks DEF IsSequence
  <1>2. /\ \A m \in 1 .. M : begin[m] = << begin[m][1], begin[m][2] >> /\ begin[m][1] \in Nat /\ begin[m][2] \in Nat
        /\ \A k, m \in 1 .. M : k < m => Precedes(begin[k], begin[m])
        /\ \E m \in 1 .. M : begin[m] = << s, i >>
    <2>1. Begins(p, begin)
      BY DEF LaidOut
    <2>2. ASSUME NEW m \in 1 .. M
          PROVE  begin[m][1] \in Nat /\ begin[m][2] \in Nat
      <3>1. begin[m][1] \in 1 .. Len(p) /\ begin[m][2] \in 1 .. Len(Enumerated(p, begin[m][1]))
        BY <1>1, <2>1 DEF Begins
      <3> HIDE DEF begin
      <3> QED BY <3>1
    <2> HIDE DEF begin
    <2> QED BY <1>1, <2>1, <2>2 DEF Begins
  <1>3. PICK m \in 1 .. M : begin[m] = << s, i >>
    BY <1>2
  <1>4. BlocksAt(B, p, l, a)
    OBVIOUS
  <1> HIDE DEF a
  <1>5. /\ IsSequence(B) /\ Len(B) <= M
        /\ \A k \in 1 .. M : Passed(a, begin[k][1], begin[k][2]) <=> k <= Len(B)
        /\ \A k \in 1 .. Len(B) : B[k] = l.end[begin[k][1]][begin[k][2] - 1]
    BY <1>1, <1>4 DEF BlocksAt
  <1>6. PICK z \in Nat : z = Len(B)
    BY <1>5 DEF IsSequence
  <1>7. begin[m][1] = s /\ begin[m][2] = i /\ s \in Nat /\ i \in Nat
    BY <1>3
  <1> HIDE DEF begin, b
  <1>8. m = z + 1
    <2>1. ~Passed(a, s, i)
      BY <1>7 DEF Passed, a
    <2>2. z < m
      BY SMTT(60), <1>5, <1>6, <1>7, <2>1
    <2>3. ASSUME z + 1 < m
          PROVE  FALSE
      <3>1. z + 1 \in 1 .. M
        BY <2>3
      <3>2. Precedes(begin[z + 1], begin[m])
        BY <1>2, <2>3, <3>1
      <3>3. Passed(a, begin[z + 1][1], begin[z + 1][2])
        BY <1>7, <3>2 DEF Precedes, Passed, a
      <3>4. z + 1 <= z
        BY <1>5, <1>6, <3>1, <3>3
      <3> QED BY <3>4
    <2> QED BY <2>2, <2>3
  <1>9. /\ IsSequence(T) /\ Len(T) = z + 1 /\ T[z + 1] = off
        /\ \A k \in 1 .. z : T[k] = B[k]
    <2>1. /\ IsSequence(Append(B, off)) /\ Len(Append(B, off)) = Len(B) + 1 /\ Append(B, off)[Len(B) + 1] = off
          /\ \A k \in 1 .. Len(B) : Append(B, off)[k] = B[k]
      BY <1>5, AppendSequence
    <2> QED BY <1>6, <2>1
  <1> HIDE DEF T
  <1>10. ASSUME NEW k \in 1 .. M
         PROVE  Passed(b, begin[k][1], begin[k][2]) <=> k <= z + 1
    <2>1. PICK x \in Nat, y \in Nat : x = begin[k][1] /\ y = begin[k][2]
      BY <1>2
    <2>2. Passed(b, x, y) <=> Passed(a, x, y) \/ (x = s /\ y = i)
      BY SMTT(60), <1>7, PassedNext DEF a, b
    <2>3. Passed(a, x, y) <=> k <= z
      BY <1>5, <1>6, <2>1
    <2>4. (x = s /\ y = i) <=> k = m
      <3>1. ASSUME x = s, y = i, k # m
            PROVE  FALSE
        <4>1. Precedes(begin[k], begin[m]) \/ Precedes(begin[m], begin[k])
          <5>1. k < m \/ m < k
            BY <3>1
          <5> QED BY <1>2, <5>1
        <4> QED BY <1>7, <2>1, <3>1, <4>1 DEF Precedes
      <3> QED BY <1>7, <2>1, <3>1
    <2> QED BY <1>8, <2>1, <2>2, <2>3, <2>4
  <1>11. ASSUME NEW k \in 1 .. z + 1
         PROVE  T[k] = l.end[begin[k][1]][begin[k][2] - 1]
    <2>1. CASE k = z + 1
      BY <1>7, <1>8, <1>9, <2>1
    <2>2. CASE k # z + 1
      <3>1. k \in 1 .. z
        BY <2>2
      <3> QED BY <1>5, <1>6, <1>9, <3>1
    <2> QED BY <2>1, <2>2
  <1>12. z + 1 <= M
    BY <1>8
  <1>13. BlocksAt(T, p, l, b)
    BY <1>1, <1>9, <1>10, <1>11, <1>12 DEF BlocksAt, begin
  <1> QED BY <1>13 DEF T, b

\* The walk goes on, and no block has begun.
LEMMA BlocksStay ==
    ASSUME NEW p, GoodProgram(p), NEW l, LaidOut(p, l), NEW a, NEW b, NEW B, BlocksAt(B, p, l, a),
           \A s \in 1 .. Len(p) : \A i \in 1 .. Len(Enumerated(p, s)) :
              Enumerated(p, s)[i].kind = "begin" => (Passed(a, s, i) <=> Passed(b, s, i))
    PROVE  BlocksAt(B, p, l, b)
  <1>1. ASSUME NEW m \in 1 .. Len(AllBlocks(p))
        PROVE  Passed(a, l.begin[m][1], l.begin[m][2]) <=> Passed(b, l.begin[m][1], l.begin[m][2])
    <2>1. Begins(p, l.begin)
      BY DEF LaidOut
    <2>2. PICK s, i : s = l.begin[m][1] /\ i = l.begin[m][2]
      OBVIOUS
    <2>3. /\ s \in 1 .. Len(p) /\ i \in 1 .. Len(Enumerated(p, s))
          /\ Enumerated(p, s)[i] = BeginOf(AllBlocks(p)[m])
      BY <2>1, <2>2 DEF Begins
    <2>4. BeginOf(AllBlocks(p)[m]).kind = "begin"
      BY DEF BeginOf
    <2> QED BY <2>2, <2>3, <2>4
  <1> QED BY <1>1 DEF BlocksAt

-----------------------------------------------------------------------------

\* A sequence of the elements of a set, in some order.
Lists(seq, S) ==
    /\ IsSequence(seq)
    /\ \A k \in 1 .. Len(seq) : seq[k] \in S
    /\ \A e \in S : \E k \in 1 .. Len(seq) : seq[k] = e

LEMMA SetToSeqLists ==
    ASSUME NEW S, IsFiniteSet(S)
    PROVE  Lists(SetToSeq(S), S)
  BY SetToSeqElements DEF Lists

LEMMA ListsConcat ==
    ASSUME NEW s, NEW S, NEW t, NEW T, Lists(s, S), Lists(t, T)
    PROVE  Lists(s \o t, S \cup T)
  <1>1. IsSequence(s) /\ IsSequence(t)
    BY DEF Lists
  <1>2. PICK m \in Nat, n \in Nat : m = Len(s) /\ n = Len(t)
    BY <1>1 DEF IsSequence
  <1>3. PICK u : u = s \o t
    OBVIOUS
  <1>4. /\ IsSequence(u) /\ Len(u) = m + n
        /\ \A i \in 1 .. m : u[i] = s[i]
        /\ \A i \in 1 .. n : u[m + i] = t[i]
    <2>1. /\ IsSequence(s \o t)
          /\ Len(s \o t) = Len(s) + Len(t)
          /\ \A i \in 1 .. Len(s) : (s \o t)[i] = s[i]
          /\ \A i \in 1 .. Len(t) : (s \o t)[Len(s) + i] = t[i]
      BY <1>1, ConcatSequence
    <2> QED BY <1>2, <1>3, <2>1
  <1>5. ASSUME NEW k \in 1 .. m + n
        PROVE  u[k] \in S \cup T
    <2>1. CASE k <= m
      <3>1. k \in 1 .. m
        BY <2>1
      <3> QED BY <1>2, <1>4, <3>1 DEF Lists
    <2>2. CASE m < k
      <3>1. PICK i \in 1 .. n : k = m + i
        <4>1. k - m \in 1 .. n /\ k = m + (k - m)
          BY <2>2
        <4> QED BY <4>1
      <3> QED BY <1>2, <1>4, <3>1 DEF Lists
    <2> QED BY <2>1, <2>2
  <1>6. ASSUME NEW e \in S \cup T
        PROVE  \E k \in 1 .. m + n : u[k] = e
    <2>1. CASE e \in S
      <3>1. PICK k \in 1 .. m : s[k] = e
        BY <1>2, <2>1 DEF Lists
      <3>2. k \in 1 .. m + n
        OBVIOUS
      <3> QED BY <1>4, <3>1, <3>2
    <2>2. CASE e \in T
      <3>1. PICK i \in 1 .. n : t[i] = e
        BY <1>2, <2>2 DEF Lists
      <3>2. m + i \in 1 .. m + n
        OBVIOUS
      <3> QED BY <1>4, <3>1, <3>2
    <2> QED BY <2>1, <2>2
  <1> QED BY <1>3, <1>4, <1>5, <1>6 DEF Lists

\* The places behind the walk that want the address of a block.
Wanted(p, l, a, id) ==
    {e \in [section : Nat, at : Nat] :
        \E t \in 1 .. Len(p) : \E i \in 1 .. Len(Enumerated(p, t)) : \E j \in Jumps(Enumerated(p, t)[i]) :
           Passed(a, t, i) /\ j.block = id /\ e = [section |-> t, at |-> l.end[t][i - 1] + j.at]}

\* The list of places of every block, when the walk is at a.
JumpsAt(J, p, l, a) ==
    /\ J = [id \in ToSet(AllBlocks(p)) |-> J[id]]
    /\ \A id \in ToSet(AllBlocks(p)) : Lists(J[id], Wanted(p, l, a, id))

NewlyWanted(jumps, s, off, id) == {[section |-> s, at |-> off + j.at] : j \in {k \in jumps : k.block = id}}

LEMMA NewlyFinite ==
    ASSUME NEW jumps, IsFiniteSet(jumps), NEW s, NEW off, NEW id
    PROVE  IsFiniteSet(NewlyWanted(jumps, s, off, id))
  <1> DEFINE here == {k \in jumps : k.block = id}
             f    == [j \in here |-> [section |-> s, at |-> off + j.at]]
  <1>1. IsFiniteSet(here)
    <2>1. here \subseteq jumps
      OBVIOUS
    <2> HIDE DEF here
    <2> QED BY <2>1, FS_Subset
  <1>2. NewlyWanted(jumps, s, off, id) = {f[j] : j \in here}
    BY DEF NewlyWanted
  <1> HIDE DEF f, here
  <1> QED BY <1>1, <1>2, FiniteImage

LEMMA WantedNext ==
    ASSUME NEW p, GoodProgram(p), NEW l, LaidOut(p, l), NEW s \in 1 .. Len(p),
           NEW i \in 1 .. Len(Enumerated(p, s)), NEW id
    PROVE  Wanted(p, l, << s, i + 1 >>, id) =
              Wanted(p, l, << s, i >>, id)
                 \cup NewlyWanted(Jumps(Enumerated(p, s)[i]), s, l.end[s][i - 1], id)
  <1> DEFINE a   == << s, i >>
             b   == << s, i + 1 >>
             new == NewlyWanted(Jumps(Enumerated(p, s)[i]), s, l.end[s][i - 1], id)
             old == Wanted(p, l, a, id)
             all == Wanted(p, l, b, id)
             Place(t, k, j) == [section |-> t, at |-> l.end[t][k - 1] + j.at]
  <1>1. \A t \in 1 .. Len(p) : \A k \in 1 .. Len(Enumerated(p, t)) :
           Passed(b, t, k) <=> Passed(a, t, k) \/ (t = s /\ k = i)
    <2>1. s \in Nat /\ i \in Nat /\ \A t \in 1 .. Len(p) : \A k \in 1 .. Len(Enumerated(p, t)) : t \in Nat /\ k \in Nat
      OBVIOUS
    <2> QED BY <2>1, PassedNext
  <1>2. \A j \in Jumps(Enumerated(p, s)[i]) : Place(s, i, j) \in [section : Nat, at : Nat]
    <2>1. Joined(Enumerated(p, s), l.raw[s], l.end[s]) /\ Enumerable(Enumerated(p, s)[i], ToSet(AllBlocks(p)))
      BY ProgramJoined
    <2>2. PICK o \in Nat : o = l.end[s][i - 1]
      <3>1. i - 1 \in 0 .. Len(Enumerated(p, s))
        BY <2>1 DEF Joined
      <3> QED BY <2>1, <3>1 DEF Joined
    <2>3. \A j \in Jumps(Enumerated(p, s)[i]) : j.at \in Nat
      <3>1. 0 \in Int
        OBVIOUS
      <3> QED BY <2>1, <3>1, JumpsGood
    <2> QED BY <2>2, <2>3
  <1>3. \A e : e \in all <=> /\ e \in [section : Nat, at : Nat]
                             /\ \E t \in 1 .. Len(p) : \E k \in 1 .. Len(Enumerated(p, t)) :
                                \E j \in Jumps(Enumerated(p, t)[k]) :
                                   Passed(b, t, k) /\ j.block = id /\ e = Place(t, k, j)
    BY DEF Wanted
  <1>4. \A e : e \in old <=> /\ e \in [section : Nat, at : Nat]
                             /\ \E t \in 1 .. Len(p) : \E k \in 1 .. Len(Enumerated(p, t)) :
                                \E j \in Jumps(Enumerated(p, t)[k]) :
                                   Passed(a, t, k) /\ j.block = id /\ e = Place(t, k, j)
    BY DEF Wanted
  <1>5. \A e : e \in new <=> \E j \in Jumps(Enumerated(p, s)[i]) : j.block = id /\ e = Place(s, i, j)
    BY DEF NewlyWanted
  <1> HIDE DEF a, b, new, old, all, Place
  <1>6. \A e : e \in all => e \in old \/ e \in new
    <2> TAKE e
    <2> HAVE e \in all
    <2>1. PICK t \in 1 .. Len(p) : \E k \in 1 .. Len(Enumerated(p, t)) :
                                \E j \in Jumps(Enumerated(p, t)[k]) :
                                   Passed(b, t, k) /\ j.block = id /\ e = Place(t, k, j)
      BY <1>3
    <2>2. PICK k \in 1 .. Len(Enumerated(p, t)) : \E j \in Jumps(Enumerated(p, t)[k]) :
                                   Passed(b, t, k) /\ j.block = id /\ e = Place(t, k, j)
      BY <2>1
    <2>3. CASE Passed(a, t, k)
      BY <1>3, <1>4, <2>2, <2>3
    <2>4. CASE t = s /\ k = i
      BY <1>5, <2>2, <2>4
    <2> QED BY <1>1, <2>2, <2>3, <2>4
  <1>7. \A e : e \in old => e \in all
    BY <1>1, <1>3, <1>4
  <1>8. \A e : e \in new => e \in all
    <2> TAKE e
    <2> HAVE e \in new
    <2>1. PICK j \in Jumps(Enumerated(p, s)[i]) : j.block = id /\ e = Place(s, i, j)
      BY <1>5
    <2>2. Passed(b, s, i)
      BY <1>1
    <2> QED BY <1>2, <1>3, <2>1, <2>2
  <1>9. all = old \cup new
    BY <1>6, <1>7, <1>8
  <1> QED BY <1>9 DEF all, old, new, a, b

AwaitingFrom(J, jumps, s, off) == [id \in DOMAIN J |-> J[id] \o SetToSeq(NewlyWanted(jumps, s, off, id))]

\* An item is emitted, and the places in it that want an address are noted.
LEMMA JumpsEmit ==
    ASSUME NEW p, GoodProgram(p), NEW l, LaidOut(p, l), NEW s \in 1 .. Len(p),
           NEW i \in 1 .. Len(Enumerated(p, s)), NEW J, JumpsAt(J, p, l, << s, i >>),
           NEW off, off = l.end[s][i - 1]
    PROVE  JumpsAt(AwaitingFrom(J, Jumps(Enumerated(p, s)[i]), s, off), p, l, << s, i + 1 >>)
  <1> DEFINE a     == << s, i >>
             b     == << s, i + 1 >>
             ids   == ToSet(AllBlocks(p))
             jumps == Jumps(Enumerated(p, s)[i])
             T     == AwaitingFrom(J, jumps, s, off)
  <1>1. IsFiniteSet(jumps)
    <2>1. Enumerable(Enumerated(p, s)[i], ids) /\ 0 \in Int
      BY ProgramJoined
    <2> QED BY <2>1, JumpsGood
  <1>2. JumpsAt(J, p, l, a)
    OBVIOUS
  <1>3. ASSUME NEW id \in ids
        PROVE  Wanted(p, l, b, id) = Wanted(p, l, a, id) \cup NewlyWanted(jumps, s, off, id)
    BY WantedNext
  <1> HIDE DEF a, b, ids, jumps
  <1>4. DOMAIN J = ids /\ \A id \in ids : Lists(J[id], Wanted(p, l, a, id))
    BY <1>2 DEF JumpsAt, ids
  <1>5. T = [id \in ids |-> J[id] \o SetToSeq(NewlyWanted(jumps, s, off, id))]
    BY <1>4 DEF AwaitingFrom
  <1>6. \A id \in ids : T[id] = J[id] \o SetToSeq(NewlyWanted(jumps, s, off, id))
    BY <1>5
  <1>7. T = [id \in ids |-> T[id]]
    BY <1>5
  <1> HIDE DEF T
  <1>8. ASSUME NEW id \in ids
        PROVE  Lists(T[id], Wanted(p, l, b, id))
    <2>1. PICK new : new = NewlyWanted(jumps, s, off, id) /\ IsFiniteSet(new)
      BY <1>1, NewlyFinite
    <2>2. Lists(SetToSeq(new), new)
      BY <2>1, SetToSeqLists
    <2>3. Lists(J[id], Wanted(p, l, a, id))
      BY <1>4
    <2>4. Lists(J[id] \o SetToSeq(new), Wanted(p, l, a, id) \cup new)
      BY <2>2, <2>3, ListsConcat
    <2> QED BY <1>3, <1>6, <2>1, <2>4
  <1>9. JumpsAt(T, p, l, b)
    BY <1>7, <1>8 DEF JumpsAt, ids
  <1> QED BY <1>9 DEF T, b, jumps

\* The walk goes on, and nothing more is wanted.
LEMMA JumpsStay ==
    ASSUME NEW p, GoodProgram(p), NEW l, NEW a, NEW b, NEW J, JumpsAt(J, p, l, a),
           \A s \in 1 .. Len(p) : \A i \in 1 .. Len(Enumerated(p, s)) :
              Jumps(Enumerated(p, s)[i]) # {} => (Passed(a, s, i) <=> Passed(b, s, i))
    PROVE  JumpsAt(J, p, l, b)
  <1>1. ASSUME NEW id
        PROVE  Wanted(p, l, a, id) = Wanted(p, l, b, id)
    <2>1. \A s \in 1 .. Len(p) : \A i \in 1 .. Len(Enumerated(p, s)) : \A j \in Jumps(Enumerated(p, s)[i]) :
              Passed(a, s, i) <=> Passed(b, s, i)
      OBVIOUS
    <2> QED BY <2>1 DEF Wanted
  <1> QED BY <1>1 DEF JumpsAt

-----------------------------------------------------------------------------
(* The first pass: its steps                                               *)

\* The state of the first pass, when the walk is at a.
LaidState(l, a) ==
    /\ Walking(program, a)
    /\ SectionsAt(sections, currentOffset, program, l, a)
    /\ BlocksAt(dataBlocks, program, l, a)
    /\ JumpsAt(jumpsToHere, program, l, a)
    /\ \A s \in 1 .. Len(program) : \A i \in 1 .. Len(Enumerated(program, s)) :
          Passed(a, s, i) => Linker!Accepted(Enumerated(program, s)[i])

\* Everything is before the walk.
LEMMA LaidInit ==
    ASSUME NEW p, GoodProgram(p), NEW l, LaidOut(p, l), NEW J, J = [id \in ToSet(AllBlocks(p)) |-> << >>]
    PROVE  /\ Walking(p, << 1, 0 >>)
           /\ SectionsAt(<< >>, 0, p, l, << 1, 0 >>)
           /\ BlocksAt(<< >>, p, l, << 1, 0 >>)
           /\ JumpsAt(J, p, l, << 1, 0 >>)
           /\ \A s \in 1 .. Len(p) : \A i \in 1 .. Len(Enumerated(p, s)) : ~Passed(<< 1, 0 >>, s, i)
  <1> DEFINE a == << 1, 0 >>
  <1>1. a[1] = 1 /\ a[2] = 0 /\ a = << a[1], a[2] >>
    OBVIOUS
  <1> HIDE DEF a
  <1>2. PICK n \in Nat : n = Len(p)
    BY DEF GoodProgram, IsSequence
  <1>3. \A s \in 1 .. Len(p) : IsSequence(Enumerated(p, s)) /\ Len(Enumerated(p, s)) \in Nat
    BY ItemsGood DEF IsSequence
  <1>4. Walking(p, a)
    BY <1>1, <1>2, <1>3 DEF Walking
  <1>5. IsSequence(<< >>) /\ Len(<< >>) = 0
    BY EmptySequence
  <1>6. SectionsAt(<< >>, 0, p, l, a)
    BY <1>1, <1>5 DEF SectionsAt
  <1>7. \A s \in 1 .. Len(p) : \A i \in 1 .. Len(Enumerated(p, s)) : ~Passed(a, s, i)
    BY <1>1, <1>2, <1>3 DEF Passed
  <1>8. BlocksAt(<< >>, p, l, a)
    <2>1. Begins(p, l.begin)
      BY DEF LaidOut
    <2>2. PICK m \in Nat : m = Len(AllBlocks(p))
      BY SectionsOfBlocks DEF IsSequence
    <2>3. \A k \in 1 .. m : /\ l.begin[k][1] \in 1 .. Len(p)
                            /\ l.begin[k][2] \in 1 .. Len(Enumerated(p, l.begin[k][1]))
      BY <2>1, <2>2 DEF Begins
    <2>4. \A k \in 1 .. m : ~Passed(a, l.begin[k][1], l.begin[k][2])
      BY <1>7, <2>3
    <2>5. \A k \in 1 .. m : ~(k <= 0)
      OBVIOUS
    <2> QED BY <1>5, <2>2, <2>4, <2>5 DEF BlocksAt
  <1>9. JumpsAt(J, p, l, a)
    <2>1. \A id : Wanted(p, l, a, id) = {}
      BY <1>7 DEF Wanted
    <2>2. Lists(<< >>, {})
      BY <1>5 DEF Lists
    <2> QED BY <2>1, <2>2 DEF JumpsAt
  <1> QED BY <1>4, <1>6, <1>7, <1>8, <1>9 DEF a

\* The item that the walk stands at.
LEMMA ItemHere ==
    ASSUME GoodProgram(program), NEW l, LaidOut(program, l), NEW s, NEW i, LaidState(l, << s, i >>),
           s <= Len(program), i \in 1 .. Len(Enumerated(program, s))
    PROVE  /\ s \in 1 .. Len(program)
           /\ currentOffset = l.end[s][i - 1]
           /\ l.raw[s][i] = Raw(Enumerated(program, s)[i], l.start[s] + currentOffset)
           /\ sections[s].start = l.start[s]
           /\ l.start[s] \in Nat /\ currentOffset \in Nat
           /\ Enumerable(Enumerated(program, s)[i], ToSet(AllBlocks(program)))
  <1> DEFINE a == << s, i >>
  <1>1. PICK n \in Nat : n = Len(program)
    BY DEF GoodProgram, IsSequence
  <1>2. s \in 1 .. n
    <2>1. Walking(program, a)
      BY DEF LaidState
    <2>2. s \in 1 .. n + 1
      BY <1>1, <2>1 DEF Walking
    <2> QED BY <1>1, <2>2
  <1>3. /\ Joined(Enumerated(program, s), l.raw[s], l.end[s])
        /\ l.start[s] \in Nat
        /\ Enumerable(Enumerated(program, s)[i], ToSet(AllBlocks(program)))
        /\ l.raw[s][i] = Raw(Enumerated(program, s)[i], l.start[s] + l.end[s][i - 1])
    BY <1>1, <1>2, ProgramJoined
  <1>4. i # 0 /\ i - 1 \in 0 .. Len(Enumerated(program, s)) /\ i \in Nat
    BY <1>3 DEF Joined
  <1>5. l.end[s][i - 1] \in Nat
    BY <1>3, <1>4 DEF Joined
  <1>6. SectionsAt(sections, currentOffset, program, l, a)
    BY DEF LaidState
  <1>7. a[1] = s /\ a[2] = i
    OBVIOUS
  <1> HIDE DEF a
  <1>8. currentOffset = l.end[s][i - 1]
    BY <1>4, <1>6, <1>7 DEF SectionsAt
  <1>9. Len(sections) = s
    BY <1>4, <1>6, <1>7 DEF SectionsAt
  <1>10. s \in 1 .. Len(sections)
    BY <1>2, <1>9
  <1>11. sections[s] = [start |-> l.start[s], size |-> sections[s].size, buffer |-> sections[s].buffer]
    BY <1>6, <1>10 DEF SectionsAt
  <1>12. sections[s].start = l.start[s]
    BY <1>11
  <1> QED BY <1>1, <1>2, <1>3, <1>5, <1>8, <1>12

\* The walk takes one item that is no block.
LEMMA LaidItem ==
    ASSUME GoodProgram(program), NEW l, LaidOut(program, l), NEW s, NEW i, LaidState(l, << s, i >>),
           s <= Len(program), i \in 1 .. Len(Enumerated(program, s)),
           Enumerated(program, s)[i].kind # "begin", Linker!Accepted(Enumerated(program, s)[i]),
           NEW bytes, bytes = l.raw[s][i],
           sections' = Emitted(sections, s, currentOffset, bytes),
           currentOffset' = currentOffset + Len(bytes),
           UNCHANGED << program, dataBlocks >>,
           JumpsAt(jumpsToHere', program, l, << s, i + 1 >>)
    PROVE  LaidState(l, << s, i + 1 >>)'
  <1> DEFINE a == << s, i >>
             b == << s, i + 1 >>
  <1>1. s \in 1 .. Len(program)
    BY ItemHere
  <1>2. PICK n \in Nat : n = Len(Enumerated(program, s)) /\ i \in 1 .. n
    <2>1. IsSequence(Enumerated(program, s))
      BY <1>1, ItemsGood
    <2> QED BY <2>1 DEF IsSequence
  <1>3. \A t \in 1 .. Len(program) : \A k \in 1 .. Len(Enumerated(program, t)) :
           Passed(b, t, k) <=> Passed(a, t, k) \/ (t = s /\ k = i)
    <2>1. s \in Nat /\ i \in Nat
      BY <1>1, <1>2
    <2>2. \A t \in 1 .. Len(program) : \A k \in 1 .. Len(Enumerated(program, t)) : t \in Nat /\ k \in Nat
      OBVIOUS
    <2> QED BY <2>1, <2>2, PassedNext
  <1>4. /\ SectionsAt(sections, currentOffset, program, l, a)
        /\ BlocksAt(dataBlocks, program, l, a)
        /\ \A t \in 1 .. Len(program) : \A k \in 1 .. Len(Enumerated(program, t)) :
              Passed(a, t, k) => Linker!Accepted(Enumerated(program, t)[k])
    BY DEF LaidState
  <1>5. Walking(program, b)
    <2>1. s # Len(program) + 1
      <3>1. PICK m \in Nat : m = Len(program)
        BY DEF GoodProgram, IsSequence
      <3> QED BY <3>1
    <2>2. s \in 1 .. Len(program) + 1
      <3>1. PICK m \in Nat : m = Len(program)
        BY DEF GoodProgram, IsSequence
      <3> QED BY <1>1, <3>1
    <2>3. b[1] = s /\ b[2] = i + 1 /\ b = << b[1], b[2] >> /\ i + 1 \in Nat /\ i + 1 <= Len(Enumerated(program, s)) + 1
      BY <1>2
    <2> HIDE DEF b
    <2> QED BY <2>1, <2>2, <2>3 DEF Walking
  <1>6. SectionsAt(sections', currentOffset', program, l, b)
    <2>1. SectionsAt(Emitted(sections, s, currentOffset, l.raw[s][i]), currentOffset + Len(l.raw[s][i]), program, l, b)
      BY <1>1, <1>4, SectionsEmit
    <2> HIDE DEF b
    <2> QED BY <2>1
  <1>7. BlocksAt(dataBlocks, program, l, b)
    <2>1. \A t \in 1 .. Len(program) : \A k \in 1 .. Len(Enumerated(program, t)) :
             Enumerated(program, t)[k].kind = "begin" => (Passed(a, t, k) <=> Passed(b, t, k))
      BY <1>3
    <2> HIDE DEF a, b
    <2> QED BY <1>4, <2>1, BlocksStay
  <1>8. \A t \in 1 .. Len(program) : \A k \in 1 .. Len(Enumerated(program, t)) :
           Passed(b, t, k) => Linker!Accepted(Enumerated(program, t)[k])
    BY <1>3, <1>4
  <1> HIDE DEF b
  <1>9. LaidState(l, b)'
    BY <1>5, <1>6, <1>7, <1>8 DEF LaidState, b
  <1> QED BY <1>9 DEF b

LEMMA AtItem ==
    ASSUME NEW l, LaidState(l, at), NEW kinds, InLayout(kinds)
    PROVE  \E s, i : /\ at = << s, i >> /\ at[1] = s /\ at[2] = i
                     /\ s <= Len(program) /\ i \in 1 .. Len(Enumerated(program, s))
                     /\ Item = Enumerated(program, s)[i] /\ Item.kind \in kinds
  BY DEF LaidState, Walking, InLayout, Item

LEMMA LaidData ==
    ASSUME GoodProgram(program), NEW l, LaidOut(program, l), LaidState(l, at), EmitData \/ EmitSkip \/ EmitAlignment
    PROVE  LaidState(l, at)'
  <1>1. /\ InLayout({"raw"}) \/ InLayout({"skip"}) \/ InLayout({"align"})
        /\ UNCHANGED << program, dataBlocks, jumpsToHere >>
    BY DEF EmitData, EmitSkip, EmitAlignment
  <1>2. PICK s, i : /\ at = << s, i >> /\ at[1] = s /\ at[2] = i
                    /\ s <= Len(program) /\ i \in 1 .. Len(Enumerated(program, s))
                    /\ Item = Enumerated(program, s)[i] /\ Item.kind \in {"raw", "skip", "align"}
    BY <1>1, AtItem
  <1>3. LaidState(l, << s, i >>)
    BY <1>2
  <1>4. /\ s \in 1 .. Len(program)
        /\ currentOffset = l.end[s][i - 1]
        /\ l.raw[s][i] = Raw(Item, l.start[s] + currentOffset)
        /\ sections[s].start = l.start[s]
    BY <1>2, <1>3, ItemHere
  <1>5. \E bytes : Emit(bytes) /\ bytes = l.raw[s][i] /\ Linker!Accepted(Item)
    <2>1. CASE EmitData
      <3>1. Item.kind = "raw" /\ Emit(Item.bytes)
        BY <2>1 DEF EmitData, InLayout
      <3>2. Raw(Item, l.start[s] + currentOffset) = Item.bytes /\ Linker!Accepted(Item)
        BY <3>1 DEF Raw, Linker!Accepted
      <3> QED BY <1>4, <3>1, <3>2
    <2>2. CASE EmitSkip
      <3>1. Item.kind = "skip" /\ Emit(Nops(Item.by))
        BY <2>2 DEF EmitSkip, InLayout
      <3>2. Raw(Item, l.start[s] + currentOffset) = Nops(Item.by) /\ Linker!Accepted(Item)
        BY <3>1 DEF Raw, Linker!Accepted
      <3> QED BY <1>4, <3>1, <3>2
    <2>3. CASE EmitAlignment
      <3>1. /\ Item.kind = "align" /\ PowerOfTwo(Item.to)
            /\ Emit(Nops((-(sections[s].start + currentOffset)) % Item.to))
        BY <1>2, <2>3 DEF EmitAlignment, InLayout
      <3>2. Raw(Item, l.start[s] + currentOffset) = Nops((-(l.start[s] + currentOffset)) % Item.to)
        BY <3>1 DEF Raw
      <3>3. Linker!Accepted(Item)
        BY <3>1 DEF Linker!Accepted, Linker!PowerOfTwo, PowerOfTwo
      <3> QED BY <1>4, <3>1, <3>2, <3>3
    <2> QED BY <2>1, <2>2, <2>3
  <1>6. PICK bytes : Emit(bytes) /\ bytes = l.raw[s][i] /\ Linker!Accepted(Item)
    BY <1>5
  <1>7. /\ sections' = Emitted(sections, s, currentOffset, bytes)
        /\ currentOffset' = currentOffset + Len(bytes)
        /\ at' = << s, i + 1 >>
    BY <1>2, <1>6 DEF Emit, Emitted
  <1>8. JumpsAt(jumpsToHere, program, l, << s, i + 1 >>)
    <2>1. Jumps(Item) = {}
      BY <1>2 DEF Jumps
    <2>2. \A t \in 1 .. Len(program) : \A k \in 1 .. Len(Enumerated(program, t)) :
             Passed(<< s, i + 1 >>, t, k) <=> Passed(<< s, i >>, t, k) \/ (t = s /\ k = i)
      <3>1. s \in Nat
        BY <1>4
      <3>2. i \in Nat
        BY <1>2
      <3>3. \A t \in 1 .. Len(program) : \A k \in 1 .. Len(Enumerated(program, t)) : t \in Nat /\ k \in Nat
        OBVIOUS
      <3> QED BY <3>1, <3>2, <3>3, PassedNext
    <2>3. \A t \in 1 .. Len(program) : \A k \in 1 .. Len(Enumerated(program, t)) :
             Jumps(Enumerated(program, t)[k]) # {} => (Passed(<< s, i >>, t, k) <=> Passed(<< s, i + 1 >>, t, k))
      BY <1>2, <2>1, <2>2
    <2>4. JumpsAt(jumpsToHere, program, l, << s, i >>)
      BY <1>3 DEF LaidState
    <2> QED BY <2>3, <2>4, JumpsStay
  <1>9. LaidState(l, << s, i + 1 >>)'
    <2>1. Enumerated(program, s)[i].kind # "begin" /\ Linker!Accepted(Enumerated(program, s)[i])
      BY <1>2, <1>6
    <2>2. JumpsAt(jumpsToHere', program, l, << s, i + 1 >>)
      BY <1>1, <1>8
    <2> QED BY <1>1, <1>2, <1>3, <1>6, <1>7, <2>1, <2>2, LaidItem
  <1> QED BY <1>7, <1>9

LEMMA LaidWaiting ==
    ASSUME GoodProgram(program), NEW l, LaidOut(program, l), LaidState(l, at), EmitInstruction \/ EmitReference
    PROVE  LaidState(l, at)'
  <1>1. /\ InLayout({"ins"}) \/ InLayout({"block"})
        /\ UNCHANGED << program, dataBlocks >>
    BY DEF EmitInstruction, EmitReference
  <1>2. PICK s, i : /\ at = << s, i >> /\ at[1] = s /\ at[2] = i
                    /\ s <= Len(program) /\ i \in 1 .. Len(Enumerated(program, s))
                    /\ Item = Enumerated(program, s)[i] /\ Item.kind \in {"ins", "block"}
    BY <1>1, AtItem
  <1>3. LaidState(l, << s, i >>)
    BY <1>2
  <1>4. /\ s \in 1 .. Len(program)
        /\ currentOffset = l.end[s][i - 1]
        /\ l.raw[s][i] = Raw(Item, l.start[s] + currentOffset)
    BY <1>2, <1>3, ItemHere
  <1>5. \E bytes : /\ Emit(bytes) /\ bytes = l.raw[s][i] /\ Linker!Accepted(Item)
                   /\ jumpsToHere' = Awaiting(Jumps(Item), s, currentOffset)
    <2>1. CASE EmitInstruction
      <3> DEFINE enc == EncodeInstruction(Item.ins, Stale)
      <3>1. /\ Item.kind = "ins" /\ Encodable(Item.ins) /\ Emit(enc.bytes)
            /\ jumpsToHere' = Awaiting(enc.jumps, s, currentOffset)
        BY <1>2, <2>1 DEF EmitInstruction, InLayout
      <3>2. Raw(Item, l.start[s] + currentOffset) = enc.bytes /\ Jumps(Item) = enc.jumps
        BY <3>1 DEF Raw, Jumps
      <3>3. Linker!Accepted(Item)
        BY <3>1, SameEncodable DEF Linker!Accepted
      <3> QED BY <1>4, <3>1, <3>2, <3>3
    <2>2. CASE EmitReference
      <3>1. /\ Item.kind = "block" /\ Emit(Placeholder)
            /\ jumpsToHere' = Awaiting({[at |-> 0, block |-> Item.block]}, s, currentOffset)
        BY <1>2, <2>2 DEF EmitReference, InLayout
      <3>2. Raw(Item, l.start[s] + currentOffset) = Placeholder /\ Linker!Accepted(Item)
        BY <3>1 DEF Raw, Linker!Accepted
      <3>3. Jumps(Item) = {[at |-> 0, block |-> Item.block]}
        BY <3>1 DEF Jumps
      <3> QED BY <1>4, <3>1, <3>2, <3>3
    <2> QED BY <2>1, <2>2
  <1>6. PICK bytes : /\ Emit(bytes) /\ bytes = l.raw[s][i] /\ Linker!Accepted(Item)
                     /\ jumpsToHere' = Awaiting(Jumps(Item), s, currentOffset)
    BY <1>5
  <1>7. /\ sections' = Emitted(sections, s, currentOffset, bytes)
        /\ currentOffset' = currentOffset + Len(bytes)
        /\ at' = << s, i + 1 >>
    BY <1>2, <1>6 DEF Emit, Emitted
  <1>8. JumpsAt(jumpsToHere', program, l, << s, i + 1 >>)
    <2>1. jumpsToHere' = AwaitingFrom(jumpsToHere, Jumps(Enumerated(program, s)[i]), s, currentOffset)
      BY <1>2, <1>6 DEF Awaiting, AwaitingFrom, NewlyWanted
    <2>2. JumpsAt(jumpsToHere, program, l, << s, i >>)
      BY <1>3 DEF LaidState
    <2>3. JumpsAt(AwaitingFrom(jumpsToHere, Jumps(Enumerated(program, s)[i]), s, currentOffset),
                  program, l, << s, i + 1 >>)
      BY <1>2, <1>4, <2>2, JumpsEmit
    <2> QED BY <2>1, <2>3
  <1>9. LaidState(l, << s, i + 1 >>)'
    <2>1. Enumerated(program, s)[i].kind # "begin" /\ Linker!Accepted(Enumerated(program, s)[i])
      BY <1>2, <1>6
    <2> QED BY <1>1, <1>2, <1>3, <1>6, <1>7, <1>8, <2>1, LaidItem
  <1> QED BY <1>7, <1>9

LEMMA LaidBegin ==
    ASSUME GoodProgram(program), NEW l, LaidOut(program, l), LaidState(l, at), StartBlock
    PROVE  LaidState(l, at)'
  <1>1. /\ InLayout({"begin"}) /\ UNCHANGED << program, currentOffset, sections, jumpsToHere >>
        /\ dataBlocks' = Append(dataBlocks, currentOffset)
    BY DEF StartBlock
  <1>2. PICK s, i : /\ at = << s, i >> /\ at[1] = s /\ at[2] = i
                    /\ s <= Len(program) /\ i \in 1 .. Len(Enumerated(program, s))
                    /\ Item = Enumerated(program, s)[i] /\ Item.kind = "begin"
    BY <1>1, AtItem
  <1>3. LaidState(l, << s, i >>)
    BY <1>2
  <1>4. /\ s \in 1 .. Len(program)
        /\ currentOffset = l.end[s][i - 1]
        /\ l.raw[s][i] = Raw(Item, l.start[s] + currentOffset)
    BY SMTT(60), <1>2, <1>3, ItemHere
  <1>5. l.raw[s][i] = << >> /\ Linker!Accepted(Item) /\ Jumps(Item) = {}
    BY <1>2, <1>4 DEF Raw, Linker!Accepted, Jumps
  <1>6. at' = << s, i + 1 >>
    BY <1>2 DEF StartBlock
  <1> DEFINE b == << s, i + 1 >>
             a == << s, i >>
  <1>7. \A t \in 1 .. Len(program) : \A k \in 1 .. Len(Enumerated(program, t)) :
           Passed(b, t, k) <=> Passed(a, t, k) \/ (t = s /\ k = i)
    <2>1. s \in Nat
      BY <1>4
    <2>2. i \in Nat
      BY <1>2
    <2>3. \A t \in 1 .. Len(program) : \A k \in 1 .. Len(Enumerated(program, t)) : t \in Nat /\ k \in Nat
      OBVIOUS
    <2> QED BY <2>1, <2>2, <2>3, PassedNext
  <1>8. /\ SectionsAt(sections, currentOffset, program, l, a)
        /\ BlocksAt(dataBlocks, program, l, a)
        /\ JumpsAt(jumpsToHere, program, l, a)
        /\ Walking(program, a)
        /\ \A t \in 1 .. Len(program) : \A k \in 1 .. Len(Enumerated(program, t)) :
              Passed(a, t, k) => Linker!Accepted(Enumerated(program, t)[k])
    BY <1>3 DEF LaidState
  <1>9. JumpsAt(jumpsToHere, program, l, b)
    <2>1. \A t \in 1 .. Len(program) : \A k \in 1 .. Len(Enumerated(program, t)) :
             Jumps(Enumerated(program, t)[k]) # {} => (Passed(a, t, k) <=> Passed(b, t, k))
      BY <1>2, <1>5, <1>7
    <2> HIDE DEF a, b
    <2> QED BY <1>8, <2>1, JumpsStay
  <1>10. BlocksAt(Append(dataBlocks, currentOffset), program, l, b)
    BY <1>2, <1>4, <1>8, BlocksBegin
  <1>11. SectionsAt(sections, currentOffset, program, l, b)
    BY <1>2, <1>4, <1>5, <1>8, SectionsBegin
  <1>12. \A t \in 1 .. Len(program) : \A k \in 1 .. Len(Enumerated(program, t)) :
            Passed(b, t, k) => Linker!Accepted(Enumerated(program, t)[k])
    BY <1>2, <1>5, <1>7, <1>8
  <1>13. Walking(program, b)
    <2>1. PICK n \in Nat : n = Len(Enumerated(program, s)) /\ i \in 1 .. n
      <3>1. IsSequence(Enumerated(program, s))
        BY <1>4, ItemsGood
      <3> QED BY <1>2, <3>1 DEF IsSequence
    <2>2. PICK m \in Nat : m = Len(program)
      BY DEF GoodProgram, IsSequence
    <2>3. s # m + 1 /\ s \in 1 .. m + 1
      BY <1>4, <2>2
    <2>4. b[1] = s /\ b[2] = i + 1 /\ b = << b[1], b[2] >> /\ i + 1 \in Nat /\ i + 1 <= n + 1
      BY <2>1
    <2> HIDE DEF b
    <2> QED BY <2>1, <2>2, <2>3, <2>4 DEF Walking
  <1> HIDE DEF a, b
  <1>14. LaidState(l, b)'
    BY <1>1, <1>9, <1>10, <1>11, <1>12, <1>13 DEF LaidState, b
  <1> QED BY <1>6, <1>14 DEF b

\* The walk from before the items of a section to the first, and from behind the last
\* of a section to before the next: nothing is passed.
LEMMA PassedAtEdges ==
    ASSUME NEW p, GoodProgram(p), NEW s \in 1 .. Len(p), NEW t \in 1 .. Len(p),
           NEW k \in 1 .. Len(Enumerated(p, t))
    PROVE  /\ Passed(<< s, 0 >>, t, k) <=> Passed(<< s, 1 >>, t, k)
           /\ Passed(<< s, Len(Enumerated(p, s)) + 1 >>, t, k) <=> Passed(<< s + 1, 0 >>, t, k)
  <1>1. PICK n \in Nat : n = Len(Enumerated(p, s))
    BY ItemsGood DEF IsSequence
  <1>2. PICK m \in Nat : m = Len(p)
    BY DEF GoodProgram, IsSequence
  <1>3. PICK o \in Nat : o = Len(Enumerated(p, t))
    BY ItemsGood DEF IsSequence
  <1>4. s \in 1 .. m /\ t \in 1 .. m /\ k \in 1 .. o /\ (t = s => o = n)
    BY <1>1, <1>2, <1>3
  <1>5. \A x, y : Passed(<< x, y >>, t, k) <=> t < x \/ (t = x /\ k < y)
    BY DEF Passed
  <1>6. /\ (t < s \/ (t = s /\ k < 0)) <=> (t < s \/ (t = s /\ k < 1))
        /\ (t < s \/ (t = s /\ k < n + 1)) <=> (t < s + 1 \/ (t = s + 1 /\ k < 0))
    BY <1>4
  <1> QED BY <1>1, <1>5, <1>6

LEMMA LaidStart ==
    ASSUME GoodProgram(program), NEW l, LaidOut(program, l), LaidState(l, at), StartSection
    PROVE  LaidState(l, at)'
  <1>1. at = << at[1], at[2] >> /\ at[1] \in 1 .. Len(program) + 1
    BY DEF LaidState, Walking
  <1>2. PICK s : s = at[1]
    OBVIOUS
  <1>3. /\ at = << s, 0 >> /\ s \in 1 .. Len(program) /\ s # Len(program) + 1 /\ s \in 1 .. Len(program) + 1
    <2>1. PICK m \in Nat : m = Len(program)
      BY DEF GoodProgram, IsSequence
    <2> QED BY <1>1, <1>2, <2>1 DEF StartSection
  <1> DEFINE a == << s, 0 >>
             b == << s, 1 >>
  <1>4. /\ SectionsAt(sections, currentOffset, program, l, a)
        /\ BlocksAt(dataBlocks, program, l, a)
        /\ JumpsAt(jumpsToHere, program, l, a)
        /\ \A t \in 1 .. Len(program) : \A k \in 1 .. Len(Enumerated(program, t)) :
              Passed(a, t, k) => Linker!Accepted(Enumerated(program, t)[k])
    BY <1>3 DEF LaidState
  <1>5. \E start : /\ start = CASE program[s].org # NoOrg -> program[s].org
                                [] program[s].org = NoOrg /\ s = 1 -> 0
                                [] OTHER -> sections[s - 1].start + sections[s - 1].size
                   /\ sections' = Append(sections, [start |-> start, size |-> 0, buffer |-> << >>])
    BY <1>2 DEF StartSection
  <1>6. /\ at' = b /\ currentOffset' = 0 /\ UNCHANGED << program, dataBlocks, jumpsToHere >>
    BY <1>2 DEF StartSection
  <1>7. SectionsAt(sections', 0, program, l, b)
    <2>1. PICK start : /\ start = CASE program[s].org # NoOrg -> program[s].org
                                    [] program[s].org = NoOrg /\ s = 1 -> 0
                                    [] OTHER -> sections[s - 1].start + sections[s - 1].size
                       /\ sections' = Append(sections, [start |-> start, size |-> 0, buffer |-> << >>])
      BY <1>5
    <2>2. SectionsAt(Append(sections, [start |-> start, size |-> 0, buffer |-> << >>]), 0, program, l, << s, 1 >>)
      BY <1>3, <1>4, <2>1, SectionsStart
    <2> QED BY <2>1, <2>2
  <1>8. \A t \in 1 .. Len(program) : \A k \in 1 .. Len(Enumerated(program, t)) :
           Passed(a, t, k) <=> Passed(b, t, k)
    BY <1>3, PassedAtEdges
  <1>9. Walking(program, b)
    <2>1. b[1] = s /\ b[2] = 1 /\ b = << b[1], b[2] >>
      OBVIOUS
    <2>2. PICK n \in Nat : n = Len(Enumerated(program, s))
      BY <1>3, ItemsGood DEF IsSequence
    <2>3. 1 <= n + 1 /\ 1 \in Nat
      OBVIOUS
    <2> HIDE DEF b
    <2> QED BY <1>3, <2>1, <2>2, <2>3 DEF Walking
  <1> HIDE DEF a, b
  <1>10. BlocksAt(dataBlocks, program, l, b)
    <2>1. \A t \in 1 .. Len(program) : \A k \in 1 .. Len(Enumerated(program, t)) :
             Enumerated(program, t)[k].kind = "begin" => (Passed(a, t, k) <=> Passed(b, t, k))
      BY <1>8
    <2> QED BY <1>4, <2>1, BlocksStay
  <1>11. JumpsAt(jumpsToHere, program, l, b)
    <2>1. \A t \in 1 .. Len(program) : \A k \in 1 .. Len(Enumerated(program, t)) :
             Jumps(Enumerated(program, t)[k]) # {} => (Passed(a, t, k) <=> Passed(b, t, k))
      BY <1>8
    <2> QED BY <1>4, <2>1, JumpsStay
  <1>12. LaidState(l, b)'
    BY <1>4, <1>6, <1>7, <1>8, <1>9, <1>10, <1>11 DEF LaidState, b
  <1> QED BY <1>6, <1>12 DEF b

\* Behind the last section the walk stands before one that is not there.
LEMMA LaidEnd ==
    ASSUME GoodProgram(program), NEW l, LaidOut(program, l), NEW s, s = at[1], LaidState(l, at), EndSection
    PROVE  s \in 1 .. Len(program) /\ LaidState(l, << s + 1, 0 >>)'
  <1>1. PICK m \in Nat : m = Len(program)
    BY DEF GoodProgram, IsSequence
  <1>2. /\ at = << s, Len(Enumerated(program, s)) + 1 >> /\ s \in 1 .. m
    BY <1>1 DEF LaidState, Walking, EndSection
  <1> DEFINE a == << s, Len(Enumerated(program, s)) + 1 >>
             b == << s + 1, 0 >>
  <1>3. /\ SectionsAt(sections, currentOffset, program, l, a)
        /\ BlocksAt(dataBlocks, program, l, a)
        /\ JumpsAt(jumpsToHere, program, l, a)
        /\ \A t \in 1 .. Len(program) : \A k \in 1 .. Len(Enumerated(program, t)) :
              Passed(a, t, k) => Linker!Accepted(Enumerated(program, t)[k])
    BY <1>2 DEF LaidState
  <1>4. /\ sections' = [sections EXCEPT ![s].size = currentOffset]
        /\ UNCHANGED << program, currentOffset, dataBlocks, jumpsToHere >>
    BY DEF EndSection
  <1>5. SectionsAt(sections', currentOffset, program, l, b)
    <2>1. SectionsAt([sections EXCEPT ![s].size = currentOffset], currentOffset, program, l, << s + 1, 0 >>)
      BY <1>1, <1>2, <1>3, SectionsEnd
    <2> QED BY <1>4, <2>1
  <1>6. \A t \in 1 .. Len(program) : \A k \in 1 .. Len(Enumerated(program, t)) :
           Passed(a, t, k) <=> Passed(b, t, k)
    BY <1>1, <1>2, PassedAtEdges
  <1>7. Walking(program, b)
    <2>1. b[1] = s + 1 /\ b[2] = 0 /\ b = << b[1], b[2] >> /\ 0 \in Nat
      OBVIOUS
    <2>2. s + 1 \in 1 .. m + 1
      BY <1>2
    <2>3. ASSUME s + 1 <= m
          PROVE  0 <= Len(Enumerated(program, s + 1)) + 1
      <3>1. s + 1 \in 1 .. Len(program)
        BY <1>1, <2>2, <2>3
      <3>2. PICK n \in Nat : n = Len(Enumerated(program, s + 1))
        BY <3>1, ItemsGood DEF IsSequence
      <3> QED BY <3>2
    <2> HIDE DEF b
    <2> QED BY <1>1, <2>1, <2>2, <2>3 DEF Walking
  <1> HIDE DEF a, b
  <1>8. BlocksAt(dataBlocks, program, l, b)
    <2>1. \A t \in 1 .. Len(program) : \A k \in 1 .. Len(Enumerated(program, t)) :
             Enumerated(program, t)[k].kind = "begin" => (Passed(a, t, k) <=> Passed(b, t, k))
      BY <1>6
    <2> QED BY <1>3, <2>1, BlocksStay
  <1>9. JumpsAt(jumpsToHere, program, l, b)
    <2>1. \A t \in 1 .. Len(program) : \A k \in 1 .. Len(Enumerated(program, t)) :
             Jumps(Enumerated(program, t)[k]) # {} => (Passed(a, t, k) <=> Passed(b, t, k))
      BY <1>6
    <2> QED BY <1>3, <2>1, JumpsStay
  <1>10. LaidState(l, b)'
    BY <1>3, <1>4, <1>5, <1>6, <1>7, <1>8, <1>9 DEF LaidState, b
  <1> QED BY <1>1, <1>2, <1>10 DEF b

\* A program that is refused has something that cannot be assembled.
LEMMA RefusedRightly ==
    ASSUME GoodProgram(program), NEW l, LaidOut(program, l), LaidState(l, at), Refuse
    PROVE  ~Linker!Acceptable(program)
  <1>1. InLayout({"ins", "align"})
    BY DEF Refuse
  <1>2. PICK s, i : /\ at = << s, i >> /\ at[1] = s /\ at[2] = i
                    /\ s <= Len(program) /\ i \in 1 .. Len(Enumerated(program, s))
                    /\ Item = Enumerated(program, s)[i] /\ Item.kind \in {"ins", "align"}
    BY <1>1, AtItem
  <1>3. LaidState(l, << s, i >>)
    BY <1>2
  <1>4. s \in 1 .. Len(program)
    BY <1>2, <1>3, ItemHere
  <1>5. ~Linker!Accepted(Item)
    <2>1. CASE Item.kind = "ins"
      <3>1. ~Encodable(Item.ins)
        BY <2>1 DEF Refuse
      <3> QED BY <2>1, <3>1, SameEncodable DEF Linker!Accepted
    <2>2. CASE Item.kind = "align"
      <3>1. ~PowerOfTwo(Item.to)
        BY <2>2 DEF Refuse
      <3> QED BY <2>2, <3>1 DEF Linker!Accepted, Linker!PowerOfTwo, PowerOfTwo
    <2> QED BY <1>2, <2>1, <2>2
  <1>6. Linker!Enumerated(program, s) = Enumerated(program, s)
    BY SameProgram
  <1> QED BY <1>2, <1>4, <1>5, <1>6 DEF Linker!Acceptable

-----------------------------------------------------------------------------
(* The second pass: the places that wait for an address                    *)

\* The place of item i of section t that wants the address of a block.
SlotOf(l, t, i, j) == [section |-> t, at |-> l.end[t][i - 1] + j.at, block |-> j.block]

IsSlot(e, p, l) ==
    \E t \in 1 .. Len(p) : \E i \in 1 .. Len(Enumerated(p, t)) : \E j \in Jumps(Enumerated(p, t)[i]) :
       e = SlotOf(l, t, i, j)

SizeOf(p, l, t) == l.end[t][Len(Enumerated(p, t))]

\* Place j of item i is in it: byte x of the section is byte x - o of the item.
LEMMA SlotInItem ==
    ASSUME NEW p, GoodProgram(p), NEW l, LaidOut(p, l), NEW t \in 1 .. Len(p),
           NEW i \in 1 .. Len(Enumerated(p, t)), NEW j \in Jumps(Enumerated(p, t)[i])
    PROVE  /\ l.end[t][i - 1] \in Nat /\ j.at \in Nat
           /\ l.end[t][i - 1] + j.at + 8 <= SizeOf(p, l, t)
           /\ SizeOf(p, l, t) \in Nat
           /\ j.block \in ToSet(AllBlocks(p))
           /\ \A x \in Nat : x - (l.end[t][i - 1] + j.at) \in 1 .. 8 =>
                 x - l.end[t][i - 1] \in 1 .. Len(l.raw[t][i])
  <1>1. /\ Joined(Enumerated(p, t), l.raw[t], l.end[t])
        /\ Enumerable(Enumerated(p, t)[i], ToSet(AllBlocks(p)))
        /\ l.start[t] \in Nat
        /\ l.raw[t][i] = Raw(Enumerated(p, t)[i], l.start[t] + l.end[t][i - 1])
    BY ProgramJoined
  <1>2. PICK n \in Nat : n = Len(Enumerated(p, t)) /\ i \in 1 .. n
    BY <1>1 DEF Joined
  <1>3. i - 1 \in 0 .. n /\ i \in 0 .. n /\ n \in 0 .. n
    BY <1>2
  <1>4. PICK o \in Nat, o2 \in Nat, z \in Nat, w \in Nat :
           /\ o = l.end[t][i - 1] /\ o2 = l.end[t][i] /\ z = l.end[t][n] /\ w = Len(l.raw[t][i])
           /\ o2 = o + w /\ o2 <= z
    <2>1. PICK k : k = i - 1
      OBVIOUS
    <2>2. k \in 0 .. n
      BY <1>3, <2>1
    <2>3. l.end[t][k] \in Nat /\ l.end[t][i] \in Nat /\ l.end[t][n] \in Nat /\ l.end[t][i] <= l.end[t][n]
      BY <1>1, <1>2, <1>3, <2>2 DEF Joined
    <2>4. Len(l.raw[t][i]) \in Nat /\ l.end[t][i] = l.end[t][k] + Len(l.raw[t][i])
      BY <1>1, <2>1 DEF Joined
    <2> QED BY <2>1, <2>3, <2>4
  <1>5. /\ j.at \in Nat /\ j.at + 8 <= Len(l.raw[t][i])
        /\ j.block \in ToSet(AllBlocks(p))
    <2>1. PICK b \in Nat : b = l.start[t]
      BY <1>1
    <2>2. PICK a \in Int : a = b + o
      OBVIOUS
    <2>3. l.raw[t][i] = Raw(Enumerated(p, t)[i], a)
      BY <1>1, <1>4, <2>1, <2>2
    <2>4. Enumerable(Enumerated(p, t)[i], ToSet(AllBlocks(p)))
      BY <1>1
    <2>5. /\ j.at \in Nat /\ j.at + 8 <= Len(Raw(Enumerated(p, t)[i], a))
          /\ j.block \in ToSet(AllBlocks(p))
      BY <2>4, JumpsGood
    <2> QED BY <2>3, <2>5
  <1>6. PICK q \in Nat : q = j.at /\ q + 8 <= w
    BY <1>4, <1>5
  <1>7. o + q + 8 <= z /\ \A x \in Nat : x - (o + q) \in 1 .. 8 => x - o \in 1 .. w
    <2>1. o2 = o + w /\ o2 <= z /\ q + 8 <= w
      BY <1>4, <1>6
    <2> QED BY <2>1
  <1> QED BY <1>2, <1>4, <1>5, <1>6, <1>7 DEF SizeOf

\* No two places overlap.
LEMMA SlotsApart ==
    ASSUME NEW p, GoodProgram(p), NEW l, LaidOut(p, l), NEW e, NEW f, IsSlot(e, p, l), IsSlot(f, p, l),
           e.section = f.section, NEW x \in Nat, x - e.at \in 1 .. 8, x - f.at \in 1 .. 8
    PROVE  e = f
  <1>1. PICK t \in 1 .. Len(p) : \E i \in 1 .. Len(Enumerated(p, t)) : \E j \in Jumps(Enumerated(p, t)[i]) :
           e = SlotOf(l, t, i, j)
    BY DEF IsSlot
  <1>2. PICK i \in 1 .. Len(Enumerated(p, t)) : \E j \in Jumps(Enumerated(p, t)[i]) : e = SlotOf(l, t, i, j)
    BY <1>1
  <1>3. PICK j \in Jumps(Enumerated(p, t)[i]) : e = SlotOf(l, t, i, j)
    BY <1>2
  <1>4. PICK u \in 1 .. Len(p) : \E k \in 1 .. Len(Enumerated(p, u)) : \E h \in Jumps(Enumerated(p, u)[k]) :
           f = SlotOf(l, u, k, h)
    BY DEF IsSlot
  <1>5. t = u
    BY <1>3, <1>4 DEF SlotOf
  <1>6. PICK k \in 1 .. Len(Enumerated(p, t)) : \E h \in Jumps(Enumerated(p, t)[k]) : f = SlotOf(l, t, k, h)
    BY <1>4, <1>5
  <1>7. PICK h \in Jumps(Enumerated(p, t)[k]) : f = SlotOf(l, t, k, h)
    BY <1>6
  <1>8. e.at = l.end[t][i - 1] + j.at /\ f.at = l.end[t][k - 1] + h.at
    BY <1>3, <1>7 DEF SlotOf
  <1>9. /\ x - l.end[t][i - 1] \in 1 .. Len(l.raw[t][i]) /\ l.end[t][i - 1] \in Nat /\ j.at \in Nat
        /\ x - l.end[t][k - 1] \in 1 .. Len(l.raw[t][k]) /\ l.end[t][k - 1] \in Nat /\ h.at \in Nat
    <2>1. x - (l.end[t][i - 1] + j.at) \in 1 .. 8 /\ x - (l.end[t][k - 1] + h.at) \in 1 .. 8
      BY <1>8
    <2>2. /\ l.end[t][i - 1] \in Nat /\ j.at \in Nat
          /\ \A y \in Nat : y - (l.end[t][i - 1] + j.at) \in 1 .. 8 =>
                 y - l.end[t][i - 1] \in 1 .. Len(l.raw[t][i])
      BY SlotInItem
    <2>3. /\ l.end[t][k - 1] \in Nat /\ h.at \in Nat
          /\ \A y \in Nat : y - (l.end[t][k - 1] + h.at) \in 1 .. 8 =>
                 y - l.end[t][k - 1] \in 1 .. Len(l.raw[t][k])
      BY SlotInItem
    <2> QED BY <2>1, <2>2, <2>3
  <1>10. i = k
    <2>1. /\ IsSequences(l.raw[t]) /\ Ends(l.raw[t], l.end[t]) /\ Len(l.raw[t]) = Len(Enumerated(p, t))
      <3>1. SectionLaid(Enumerated(p, t), l.start[t], l.raw[t], l.end[t])
        BY DEF LaidOut
      <3> QED BY <3>1 DEF SectionLaid
    <2>2. PICK u1 \in Nat, u2 \in Nat : u1 = l.end[t][i - 1] /\ u2 = l.end[t][k - 1]
      BY <1>9
    <2>3. PICK a, b : a = x - u1 /\ b = x - u2
      OBVIOUS
    <2>4. u1 + a = u2 + b
      BY <2>3
    <2>5. i \in 1 .. Len(l.raw[t]) /\ k \in 1 .. Len(l.raw[t])
      BY <2>1
    <2>6. a \in 1 .. Len(l.raw[t][i]) /\ b \in 1 .. Len(l.raw[t][k])
      BY <1>9, <2>2, <2>3
    <2>7. PICK seqs, end : seqs = l.raw[t] /\ end = l.end[t]
      OBVIOUS
    <2>8. /\ IsSequences(seqs) /\ Ends(seqs, end)
          /\ i \in 1 .. Len(seqs) /\ k \in 1 .. Len(seqs) /\ a \in 1 .. Len(seqs[i]) /\ b \in 1 .. Len(seqs[k])
          /\ end[i - 1] + a = end[k - 1] + b
      BY <2>1, <2>2, <2>4, <2>5, <2>6, <2>7
    <2>9. end[i - 1] + a = end[k - 1] + b => i = k /\ a = b
      <3>1. IsSequences(seqs) /\ Ends(seqs, end)
        BY <2>8
      <3>2. i \in 1 .. Len(seqs) /\ k \in 1 .. Len(seqs)
        BY <2>8
      <3>3. a \in 1 .. Len(seqs[i]) /\ b \in 1 .. Len(seqs[k])
        BY <2>8
      <3> QED BY ONLY SMTT(60), <3>1, <3>2, <3>3, EndsOrder
    <2> QED BY <2>8, <2>9
  <1>11. j = h
    <2>1. PICK o \in Nat : o = l.end[t][i - 1]
      BY <1>9
    <2>0. PICK y : y = x - o
      OBVIOUS
    <2>2. y \in Nat /\ y - j.at \in 1 .. 8 /\ y - h.at \in 1 .. 8
      <3>1. PICK q \in Nat, r \in Nat : q = j.at /\ r = h.at
        BY <1>9
      <3>2. e.at = o + q /\ f.at = o + r
        BY <1>8, <1>10, <2>1, <3>1
      <3>3. x - (o + q) \in 1 .. 8 /\ x - (o + r) \in 1 .. 8
        BY <3>2
      <3>4. y \in Nat /\ y - q \in 1 .. 8 /\ y - r \in 1 .. 8
        BY <2>0, <3>3
      <3> QED BY <3>1, <3>4
    <2>3. Enumerable(Enumerated(p, t)[i], ToSet(AllBlocks(p))) /\ 0 \in Int
      BY ProgramJoined
    <2>4. \A a, b \in Jumps(Enumerated(p, t)[i]) : \A z \in Nat : z - a.at \in 1 .. 8 /\ z - b.at \in 1 .. 8 => a = b
      BY <2>3, JumpsGood
    <2>5. h \in Jumps(Enumerated(p, t)[i])
      BY <1>10
    <2> QED BY <2>2, <2>4, <2>5
  <1> QED BY <1>3, <1>7, <1>10, <1>11

\* The bytes f of section t when the addresses at the places D are in.
FilledBytes(f, raw, size, t, D, where) ==
    /\ size <= Len(f)
    /\ \A x \in 1 .. size : (\A e \in D : e.section = t => ~(x - e.at \in 1 .. 8)) => f[x] = raw[x]
    /\ \A x \in 1 .. size : \A e \in D :
          e.section = t /\ x - e.at \in 1 .. 8 => f[x] = AddressBytes(where[e.block])[x - e.at]

\* One more address.
LEMMA FilledMore ==
    ASSUME NEW f, IsSequence(f), NEW raw, NEW size \in Nat, NEW t, NEW D, NEW where,
           FilledBytes(f, raw, size, t, D, where), NEW e, e.section = t, e.at \in Nat, NEW g,
           Overwritten(f, g, e.at, AddressBytes(where[e.block])),
           \A d \in D : \A x \in Nat : d.section = t /\ x - d.at \in 1 .. 8 /\ x - e.at \in 1 .. 8 => d = e
    PROVE  FilledBytes(g, raw, size, t, D \cup {e}, where)
  <1> DEFINE data == AddressBytes(where[e.block])
  <1>1. IsSequence(data) /\ Len(data) = 8
    BY AddressSequence
  <1>2. PICK m \in Nat, o \in Nat : m = Len(f) /\ o = e.at
    BY DEF IsSequence
  <1> HIDE DEF data
  <1>3. /\ IsSequence(g) /\ Len(g) >= m
        /\ \A i \in 1 .. 8 : g[o + i] = data[i]
        /\ \A i \in 1 .. m : i <= o \/ o + 8 < i => g[i] = f[i]
    BY <1>1, <1>2 DEF Overwritten, data
  <1>4. PICK n \in Nat : n = Len(g)
    BY <1>3 DEF IsSequence
  <1>5. /\ size <= m
        /\ \A x \in 1 .. size : (\A d \in D : d.section = t => ~(x - d.at \in 1 .. 8)) => f[x] = raw[x]
        /\ \A x \in 1 .. size : \A d \in D :
              d.section = t /\ x - d.at \in 1 .. 8 => f[x] = AddressBytes(where[d.block])[x - d.at]
    BY <1>2 DEF FilledBytes
  <1>6. ASSUME NEW x \in 1 .. size, x - o \in 1 .. 8
        PROVE  g[x] = data[x - o]
    <2>1. PICK i \in 1 .. 8 : i = x - o
      BY <1>6
    <2>2. x = o + i
      BY <2>1
    <2> QED BY <1>3, <2>1, <2>2
  <1>7. ASSUME NEW x \in 1 .. size, ~(x - o \in 1 .. 8)
        PROVE  g[x] = f[x]
    <2>1. x \in 1 .. m /\ (x <= o \/ o + 8 < x)
      BY <1>5, <1>7
    <2> QED BY <1>3, <2>1
  <1>8. ASSUME NEW x \in 1 .. size, \A d \in D \cup {e} : d.section = t => ~(x - d.at \in 1 .. 8)
        PROVE  g[x] = raw[x]
    <2>1. ~(x - o \in 1 .. 8)
      BY <1>2, <1>8
    <2> QED BY <1>5, <1>7, <1>8, <2>1
  <1>9. ASSUME NEW x \in 1 .. size, NEW d \in D \cup {e}, d.section = t, x - d.at \in 1 .. 8
        PROVE  g[x] = AddressBytes(where[d.block])[x - d.at]
    <2>1. CASE d = e
      BY <1>2, <1>6, <1>9, <2>1 DEF data
    <2>2. CASE d # e /\ d \in D
      <3>1. ~(x - o \in 1 .. 8)
        <4>1. x \in Nat
          OBVIOUS
        <4> QED BY <1>2, <1>9, <2>2, <4>1
      <3> QED BY <1>5, <1>7, <1>9, <2>2, <3>1
    <2> QED BY <2>1, <2>2
  <1>10. size <= n
    BY <1>3, <1>4, <1>5
  <1> QED BY <1>4, <1>8, <1>9, <1>10 DEF FilledBytes

\* The sections S when they have all their bytes, and the addresses at the places D.
SectionsFilled(S, p, l, D, where) ==
    /\ IsSequence(S) /\ Len(S) = Len(p)
    /\ \A e \in D : IsSlot(e, p, l)
    /\ \A t \in 1 .. Len(p) :
          /\ S[t] = [start |-> l.start[t], size |-> SizeOf(p, l, t), buffer |-> S[t].buffer]
          /\ IsSequences(S[t].buffer)
          /\ FilledBytes(FlattenSeq(S[t].buffer), FlattenSeq(l.raw[t]), SizeOf(p, l, t), t, D, where)

\* One more address.
LEMMA FillOne ==
    ASSUME NEW p, GoodProgram(p), NEW l, LaidOut(p, l), NEW S, NEW D, NEW where,
           SectionsFilled(S, p, l, D, where), NEW e, IsSlot(e, p, l),
           NEW data, data = AddressBytes(where[e.block])
    PROVE  SectionsFilled(Emitted(S, e.section, e.at, data), p, l, D \cup {e}, where)
  <1>1. PICK t \in 1 .. Len(p) : \E i \in 1 .. Len(Enumerated(p, t)) : \E j \in Jumps(Enumerated(p, t)[i]) :
           e = SlotOf(l, t, i, j)
    BY DEF IsSlot
  <1>2. PICK i \in 1 .. Len(Enumerated(p, t)) : \E j \in Jumps(Enumerated(p, t)[i]) : e = SlotOf(l, t, i, j)
    BY <1>1
  <1>3. PICK j \in Jumps(Enumerated(p, t)[i]) : e = SlotOf(l, t, i, j)
    BY <1>2
  <1>4. e.section = t /\ e.at = l.end[t][i - 1] + j.at
    BY <1>3 DEF SlotOf
  <1>5. PICK o \in Nat, z \in Nat : o = e.at /\ z = SizeOf(p, l, t) /\ o + 8 <= z
    <2>1. /\ l.end[t][i - 1] \in Nat /\ j.at \in Nat
          /\ l.end[t][i - 1] + j.at + 8 <= SizeOf(p, l, t)
          /\ SizeOf(p, l, t) \in Nat
      BY SlotInItem
    <2>2. PICK a \in Nat, b \in Nat : a = l.end[t][i - 1] /\ b = j.at
      BY <2>1
    <2>3. e.at = a + b /\ a + b \in Nat
      BY <1>4, <2>2
    <2> QED BY <2>1, <2>2, <2>3
  <1>6. IsSequence(data) /\ Len(data) = 8
    BY AddressSequence
  <1>7. PICK buffer : /\ S[t] = [start |-> l.start[t], size |-> z, buffer |-> buffer]
                      /\ IsSequences(buffer)
                      /\ FilledBytes(FlattenSeq(buffer), FlattenSeq(l.raw[t]), z, t, D, where)
    BY <1>5 DEF SectionsFilled
  <1> DEFINE T == Emitted(S, t, o, data)
             f == FlattenSeq(buffer)
             w == Write(buffer, o, data)
             g == FlattenSeq(w)
  <1>8. IsSequence(S) /\ Len(S) = Len(p)
    BY DEF SectionsFilled
  <1>9. /\ IsSequence(T) /\ Len(T) = Len(S)
        /\ T[t] = [start |-> l.start[t], size |-> z, buffer |-> w]
        /\ \A u \in 1 .. Len(S) : u # t => T[u] = S[u]
    <2>1. t \in 1 .. Len(S)
      BY <1>8
    <2> QED BY <1>7, <1>8, <2>1, EmittedIs
  <1>10. IsSequences(w) /\ Overwritten(f, g, o, data)
    <2>1. o <= Len(f)
      <3>1. z <= Len(f)
        BY <1>7 DEF FilledBytes
      <3>2. IsSequence(f)
        BY <1>7, FlattenElements
      <3>3. PICK m \in Nat : m = Len(f)
        BY <3>2 DEF IsSequence
      <3> HIDE DEF f
      <3> QED BY <1>5, <3>1, <3>3
    <2> QED BY <1>5, <1>6, <1>7, <2>1, WriteWrites
  <1>11. IsSequence(f)
    BY <1>7, FlattenElements
  <1> HIDE DEF T, f, w, g
  <1>12. \A d \in D \cup {e} : IsSlot(d, p, l)
    BY DEF SectionsFilled
  <1>13. FilledBytes(g, FlattenSeq(l.raw[t]), z, t, D \cup {e}, where)
    <2>1. \A d \in D : \A x \in Nat : d.section = t /\ x - d.at \in 1 .. 8 /\ x - e.at \in 1 .. 8 => d = e
      <3> TAKE d \in D
      <3> TAKE x \in Nat
      <3> HAVE d.section = t /\ x - d.at \in 1 .. 8 /\ x - e.at \in 1 .. 8
      <3>1. IsSlot(d, p, l) /\ IsSlot(e, p, l) /\ d.section = e.section
        BY <1>4, <1>12
      <3>2. x - d.at \in 1 .. 8 /\ x - e.at \in 1 .. 8
        OBVIOUS
      <3> QED BY <3>1, <3>2, SlotsApart
    <2>2. Overwritten(f, g, e.at, AddressBytes(where[e.block])) /\ e.at \in Nat
      BY <1>5, <1>10
    <2>3. FilledBytes(f, FlattenSeq(l.raw[t]), z, t, D, where)
      BY <1>7 DEF f
    <2> QED BY <1>4, <1>5, <1>11, <2>1, <2>2, <2>3, FilledMore
  <1>14. ASSUME NEW u \in 1 .. Len(p)
         PROVE  /\ T[u] = [start |-> l.start[u], size |-> SizeOf(p, l, u), buffer |-> T[u].buffer]
                /\ IsSequences(T[u].buffer)
                /\ FilledBytes(FlattenSeq(T[u].buffer), FlattenSeq(l.raw[u]), SizeOf(p, l, u), u, D \cup {e}, where)
    <2>1. CASE u = t
      <3>1. T[u].buffer = w
        BY <1>9, <2>1
      <3>2. FilledBytes(FlattenSeq(w), FlattenSeq(l.raw[t]), z, t, D \cup {e}, where)
        BY <1>13 DEF g
      <3>3. T[u] = [start |-> l.start[u], size |-> SizeOf(p, l, u), buffer |-> w]
        BY <1>5, <1>9, <2>1
      <3> QED BY <1>5, <1>10, <2>1, <3>1, <3>2, <3>3
    <2>2. CASE u # t
      <3>1. T[u] = S[u]
        BY <1>8, <1>9, <2>2
      <3>2. /\ S[u] = [start |-> l.start[u], size |-> SizeOf(p, l, u), buffer |-> S[u].buffer]
            /\ IsSequences(S[u].buffer)
            /\ FilledBytes(FlattenSeq(S[u].buffer), FlattenSeq(l.raw[u]), SizeOf(p, l, u), u, D, where)
        BY DEF SectionsFilled
      <3>3. FilledBytes(FlattenSeq(S[u].buffer), FlattenSeq(l.raw[u]), SizeOf(p, l, u), u, D \cup {e}, where)
        <4>1. \A d \in D \cup {e} : d.section = u => d \in D
          BY <1>4, <2>2
        <4> QED BY <3>2, <4>1 DEF FilledBytes
      <3> QED BY <3>1, <3>2, <3>3
    <2> QED BY <2>1, <2>2
  <1>15. SectionsFilled(T, p, l, D \cup {e}, where)
    BY <1>8, <1>9, <1>12, <1>14 DEF SectionsFilled
  <1> QED BY <1>4, <1>5, <1>15 DEF T

-----------------------------------------------------------------------------

FillOf(S, jumps, address, f) ==
    [k \in 0 .. Len(jumps) |-> IF k = 0 THEN S ELSE FillJump(f[k - 1], jumps[k], address)]

FillFunction(S, jumps, address) == CHOOSE f : f = FillOf(S, jumps, address, f)

LEMMA FillExists ==
    ASSUME NEW S, NEW jumps, NEW address, NEW n \in Nat, n = Len(jumps),
           NEW fill, fill = FillFunction(S, jumps, address)
    PROVE  /\ fill[0] = S
           /\ \A k \in 1 .. n : fill[k] = FillJump(fill[k - 1], jumps[k], address)
  <1> DEFINE Step(x, k) == FillJump(x, jumps[k], address)
             Upto(f, m) == f = [k \in 0 .. m |-> IF k = 0 THEN S ELSE Step(f[k - 1], k)]
             T == {m \in 0 .. n : \E f : Upto(f, m)}
  <1>0. \A m \in Nat : \A f : Upto(f, m) <=> f = [k \in 0 .. m |-> f[k]]
                                /\ \A k \in 0 .. m : f[k] = IF k = 0 THEN S ELSE Step(f[k - 1], k)
    <2> HIDE DEF Step
    <2> TAKE m \in Nat
    <2> TAKE f
    <2>1. ASSUME Upto(f, m)
          PROVE  f = [k \in 0 .. m |-> f[k]] /\ \A k \in 0 .. m : f[k] = IF k = 0 THEN S ELSE Step(f[k - 1], k)
      BY <2>1
    <2>2. ASSUME f = [k \in 0 .. m |-> f[k]], \A k \in 0 .. m : f[k] = IF k = 0 THEN S ELSE Step(f[k - 1], k)
          PROVE  Upto(f, m)
      <3>1. [k \in 0 .. m |-> f[k]] = [k \in 0 .. m |-> IF k = 0 THEN S ELSE Step(f[k - 1], k)]
        BY <2>2
      <3> QED BY <2>2, <3>1
    <2> QED BY <2>1, <2>2
  <1>1. 0 \in T
    <2> DEFINE g == [k \in 0 .. 0 |-> S]
    <2>1. g = [k \in 0 .. 0 |-> g[k]] /\ \A k \in 0 .. 0 : g[k] = S /\ k = 0
      OBVIOUS
    <2> HIDE DEF g, Step
    <2>2. \A k \in 0 .. 0 : g[k] = IF k = 0 THEN S ELSE Step(g[k - 1], k)
      BY <2>1
    <2> HIDE DEF Upto
    <2>3. Upto(g, 0)
      BY <1>0, <2>1, <2>2
    <2>4. 0 \in 0 .. n
      OBVIOUS
    <2> QED BY <2>3, <2>4
  <1>2. ASSUME NEW m \in 0 .. (n - 1), m \in T
        PROVE  m + 1 \in T
    <2> HIDE DEF Step, Upto
    <2>1. PICK f : Upto(f, m)
      BY <1>2
    <2>2. \A k \in 0 .. m : f[k] = IF k = 0 THEN S ELSE Step(f[k - 1], k)
      BY <1>0, <2>1
    <2> DEFINE g == [k \in 0 .. (m + 1) |-> IF k = m + 1 THEN Step(f[m], m + 1) ELSE f[k]]
    <2>3. g = [k \in 0 .. (m + 1) |-> g[k]] /\ g[m + 1] = Step(f[m], m + 1)
      OBVIOUS
    <2>4. \A k \in 0 .. m : g[k] = f[k]
      <3>1. \A k \in 0 .. m : k \in 0 .. (m + 1) /\ k # m + 1
        OBVIOUS
      <3> QED BY <3>1
    <2> HIDE DEF g
    <2>5. ASSUME NEW k \in 0 .. (m + 1)
          PROVE  g[k] = IF k = 0 THEN S ELSE Step(g[k - 1], k)
      <3>1. CASE k = m + 1
        <4>1. k - 1 = m /\ m \in 0 .. m /\ k # 0
          BY <3>1
        <4> QED BY <2>3, <2>4, <3>1, <4>1
      <3>2. CASE k # m + 1
        <4>1. k \in 0 .. m /\ (k # 0 => k - 1 \in 0 .. m)
          BY <3>2
        <4> QED BY <2>2, <2>4, <4>1
      <3> QED BY <3>1, <3>2
    <2>6. m + 1 \in Nat /\ m + 1 \in 0 .. n
      OBVIOUS
    <2>7. Upto(g, m + 1)
      BY <1>0, <2>3, <2>5, <2>6
    <2> QED BY <2>6, <2>7
  <1>3. n \in T
    <2>1. 0 .. n \subseteq T
      <3> HIDE DEF T
      <3> QED BY <1>1, <1>2, Induction
    <2> QED BY <2>1
  <1>4. \E f : f = FillOf(S, jumps, address, f)
    BY <1>3 DEF FillOf
  <1>5. fill = FillOf(S, jumps, address, fill)
    BY <1>4 DEF FillFunction
  <1>6. Upto(fill, n)
    BY <1>5 DEF FillOf
  <1> HIDE DEF Upto, Step
  <1>7. \A k \in 0 .. n : fill[k] = IF k = 0 THEN S ELSE Step(fill[k - 1], k)
    BY <1>0, <1>6
  <1>8. 0 \in 0 .. n /\ \A k \in 1 .. n : k \in 0 .. n /\ k # 0
    OBVIOUS
  <1> QED BY <1>7, <1>8 DEF Step

\* Behind the last section, everything is passed.
AtEnd(p) == << Len(p) + 1, 0 >>

LEMMA AllPassed ==
    ASSUME NEW p, GoodProgram(p), NEW s \in 1 .. Len(p), NEW i
    PROVE  Passed(AtEnd(p), s, i)
  <1>1. PICK n \in Nat : n = Len(p)
    BY DEF GoodProgram, IsSequence
  <1>2. s < n + 1
    BY <1>1
  <1> QED BY <1>1, <1>2 DEF Passed, AtEnd

LEMMA SlotRecord ==
    ASSUME NEW p, NEW l, NEW e, IsSlot(e, p, l)
    PROVE  e = [section |-> e.section, at |-> e.at, block |-> e.block]
  <1>1. PICK t \in 1 .. Len(p) : \E i \in 1 .. Len(Enumerated(p, t)) : \E j \in Jumps(Enumerated(p, t)[i]) :
           e = SlotOf(l, t, i, j)
    BY DEF IsSlot
  <1>2. PICK i \in 1 .. Len(Enumerated(p, t)) : \E j \in Jumps(Enumerated(p, t)[i]) : e = SlotOf(l, t, i, j)
    BY <1>1
  <1>3. PICK j \in Jumps(Enumerated(p, t)[i]) : e = SlotOf(l, t, i, j)
    BY <1>2
  <1> QED BY <1>3 DEF SlotOf

\* The second pass at one block puts its address at every place that wants it.
LEMMA BlockFills ==
    ASSUME NEW p, GoodProgram(p), NEW l, LaidOut(p, l), NEW S, NEW D, NEW where,
           SectionsFilled(S, p, l, D, where), NEW id, NEW jumps, Lists(jumps, Wanted(p, l, AtEnd(p), id)),
           NEW fill, fill = FillFunction(S, jumps, where[id])
    PROVE  \E E : /\ D \subseteq E
                  /\ SectionsFilled(fill[Len(jumps)], p, l, E, where)
                  /\ \A e : IsSlot(e, p, l) /\ e.block = id => e \in E
  <1> DEFINE Done(k, E) == \A h \in 1 .. k : \A e :
                              IsSlot(e, p, l) /\ e.block = id /\ jumps[h] = [section |-> e.section, at |-> e.at] => e \in E
             T == {k \in 0 .. Len(jumps) : \E E : /\ D \subseteq E
                                                  /\ SectionsFilled(fill[k], p, l, E, where) /\ Done(k, E)}
  <1>1. PICK n \in Nat : n = Len(jumps)
    BY DEF Lists, IsSequence
  <1>2. /\ fill[0] = S
        /\ \A k \in 1 .. n : fill[k] = FillJump(fill[k - 1], jumps[k], where[id])
    BY <1>1, FillExists
  <1>3. 0 \in T
    <2>1. Done(0, D)
      OBVIOUS
    <2>2. 0 \in 0 .. Len(jumps)
      BY <1>1
    <2> HIDE DEF Done
    <2> QED BY <1>2, <2>1, <2>2
  <1>4. ASSUME NEW k \in 0 .. (n - 1), k \in T
        PROVE  k + 1 \in T
    <2>1. PICK E : D \subseteq E /\ SectionsFilled(fill[k], p, l, E, where) /\ Done(k, E)
      BY <1>4
    <2>2. PICK h \in 1 .. n : h = k + 1 /\ h - 1 = k
      <3>1. k + 1 \in 1 .. n /\ k + 1 - 1 = k
        OBVIOUS
      <3> QED BY <3>1
    <2>3. jumps[h] \in Wanted(p, l, AtEnd(p), id)
      BY <1>1 DEF Lists
    <2>4. PICK t \in 1 .. Len(p) : \E i \in 1 .. Len(Enumerated(p, t)) : \E j \in Jumps(Enumerated(p, t)[i]) :
             j.block = id /\ jumps[h] = [section |-> t, at |-> l.end[t][i - 1] + j.at]
      BY <2>3 DEF Wanted
    <2>5. PICK i \in 1 .. Len(Enumerated(p, t)) : \E j \in Jumps(Enumerated(p, t)[i]) :
             j.block = id /\ jumps[h] = [section |-> t, at |-> l.end[t][i - 1] + j.at]
      BY <2>4
    <2>6. PICK j \in Jumps(Enumerated(p, t)[i]) :
             j.block = id /\ jumps[h] = [section |-> t, at |-> l.end[t][i - 1] + j.at]
      BY <2>5
    <2>7. PICK e : e = SlotOf(l, t, i, j)
      OBVIOUS
    <2>8. /\ IsSlot(e, p, l) /\ e.block = id
          /\ jumps[h] = [section |-> e.section, at |-> e.at]
          /\ e = [section |-> e.section, at |-> e.at, block |-> id]
      BY <2>6, <2>7 DEF IsSlot, SlotOf
    <2>9. fill[h] = Emitted(fill[k], e.section, e.at, AddressBytes(where[e.block]))
      <3>1. fill[h] = FillJump(fill[k], jumps[h], where[id])
        BY <1>2, <2>2
      <3>2. jumps[h].section = e.section /\ jumps[h].at = e.at
        BY <2>8
      <3> QED BY <2>8, <3>1, <3>2 DEF FillJump, Emitted
    <2>10. SectionsFilled(fill[h], p, l, E \cup {e}, where)
      <3>0. PICK x, data : x = fill[k] /\ data = AddressBytes(where[e.block])
        OBVIOUS
      <3>1. SectionsFilled(x, p, l, E, where) /\ IsSlot(e, p, l) /\ data = AddressBytes(where[e.block])
        BY <2>1, <2>8, <3>0
      <3>2. SectionsFilled(Emitted(x, e.section, e.at, data), p, l, E \cup {e}, where)
        BY <3>1, FillOne
      <3>3. fill[h] = Emitted(x, e.section, e.at, data)
        BY <2>9, <3>0
      <3> QED BY <3>2, <3>3
    <2>11. Done(h, E \cup {e})
      <3> SUFFICES ASSUME NEW g \in 1 .. h, NEW f, IsSlot(f, p, l), f.block = id,
                          jumps[g] = [section |-> f.section, at |-> f.at]
                   PROVE  f \in E \cup {e}
        OBVIOUS
      <3>1. CASE g = h
        <4>0. f = [section |-> f.section, at |-> f.at, block |-> f.block]
          BY SlotRecord
        <4>1. \E u, v : f = [section |-> u, at |-> v, block |-> id]
          BY <4>0
        <4>2. f.section = e.section /\ f.at = e.at
          BY <2>8, <3>1
        <4>3. f = e
          BY <2>8, <4>1, <4>2
        <4> QED BY <4>3
      <3>2. CASE g # h
        <4>1. g \in 1 .. k
          BY <2>2, <3>2
        <4> QED BY <2>1, <4>1
      <3> QED BY <3>1, <3>2
    <2>12. D \subseteq E \cup {e} /\ k + 1 \in 0 .. Len(jumps)
      BY <1>1, <2>1
    <2> HIDE DEF Done
    <2> QED BY <2>2, <2>10, <2>11, <2>12
  <1>5. n \in T
    <2>1. 0 .. n \subseteq T
      <3> HIDE DEF T
      <3> QED BY <1>3, <1>4, Induction
    <2> QED BY <2>1
  <1>6. PICK E : D \subseteq E /\ SectionsFilled(fill[n], p, l, E, where) /\ Done(n, E)
    BY <1>5
  <1>7. ASSUME NEW e, IsSlot(e, p, l), e.block = id
        PROVE  e \in E
    <2>1. PICK t \in 1 .. Len(p) : \E i \in 1 .. Len(Enumerated(p, t)) : \E j \in Jumps(Enumerated(p, t)[i]) :
             e = SlotOf(l, t, i, j)
      BY <1>7 DEF IsSlot
    <2>2. PICK i \in 1 .. Len(Enumerated(p, t)) : \E j \in Jumps(Enumerated(p, t)[i]) : e = SlotOf(l, t, i, j)
      BY <2>1
    <2>3. PICK j \in Jumps(Enumerated(p, t)[i]) : e = SlotOf(l, t, i, j)
      BY <2>2
    <2>4. PICK w : w = [section |-> t, at |-> l.end[t][i - 1] + j.at]
      OBVIOUS
    <2>5. e.section = t /\ e.at = l.end[t][i - 1] + j.at /\ j.block = id
      BY <1>7, <2>3 DEF SlotOf
    <2>6. w \in [section : Nat, at : Nat]
      <3>1. l.end[t][i - 1] \in Nat /\ j.at \in Nat
        BY SlotInItem
      <3>0. PICK a \in Nat, b \in Nat : a = l.end[t][i - 1] /\ b = j.at
        BY <3>1
      <3>2. l.end[t][i - 1] + j.at \in Nat
        <4>1. a + b \in Nat
          OBVIOUS
        <4> QED BY <3>0, <4>1
      <3> QED BY <2>4, <3>2
    <2>7. Passed(AtEnd(p), t, i)
      BY AllPassed
    <2>8. w \in Wanted(p, l, AtEnd(p), id)
      <3>1. \E k \in Jumps(Enumerated(p, t)[i]) :
               Passed(AtEnd(p), t, i) /\ k.block = id /\ w = [section |-> t, at |-> l.end[t][i - 1] + k.at]
        BY <2>4, <2>5, <2>7
      <3>2. \E k \in 1 .. Len(Enumerated(p, t)) : \E h \in Jumps(Enumerated(p, t)[k]) :
               Passed(AtEnd(p), t, k) /\ h.block = id /\ w = [section |-> t, at |-> l.end[t][k - 1] + h.at]
        BY <3>1
      <3>3. \E u \in 1 .. Len(p) : \E k \in 1 .. Len(Enumerated(p, u)) : \E h \in Jumps(Enumerated(p, u)[k]) :
               Passed(AtEnd(p), u, k) /\ h.block = id /\ w = [section |-> u, at |-> l.end[u][k - 1] + h.at]
        BY <3>2
      <3> QED BY <2>6, <3>3 DEF Wanted
    <2>9. PICK h \in 1 .. n : jumps[h] = w
      BY <1>1, <2>8 DEF Lists
    <2>10. jumps[h] = [section |-> e.section, at |-> e.at]
      BY <2>4, <2>5, <2>9
    <2> QED BY <1>6, <1>7, <2>10
  <1> QED BY <1>1, <1>6, <1>7

LinkedItems(p, l, t, where) ==
    [i \in 1 .. Len(Enumerated(p, t)) |->
        Linker!ItemBytes(Enumerated(p, t)[i], l.start[t] + l.end[t][i - 1], where)]

\* The items of a section with their addresses stand where they stood without.
LEMMA LinkedJoined ==
    ASSUME NEW p, GoodProgram(p), NEW l, LaidOut(p, l), NEW t \in 1 .. Len(p), NEW where,
           \A i \in 1 .. Len(Enumerated(p, t)) : Linker!Accepted(Enumerated(p, t)[i])
    PROVE  /\ \A i \in 1 .. Len(Enumerated(p, t)) :
                 FilledItem(LinkedItems(p, l, t, where)[i], Enumerated(p, t)[i], l.start[t] + l.end[t][i - 1], where)
           /\ IsSequences(LinkedItems(p, l, t, where))
           /\ Len(LinkedItems(p, l, t, where)) = Len(Enumerated(p, t))
           /\ Ends(LinkedItems(p, l, t, where), l.end[t])
  <1> DEFINE items == Enumerated(p, t)
             B     == LinkedItems(p, l, t, where)
             e     == l.end[t]
             raw   == l.raw[t]
  <1>0. /\ Joined(Enumerated(p, t), l.raw[t], l.end[t]) /\ l.start[t] \in Nat
        /\ \A i \in 1 .. Len(Enumerated(p, t)) :
              /\ Enumerable(Enumerated(p, t)[i], ToSet(AllBlocks(p)))
              /\ l.raw[t][i] = Raw(Enumerated(p, t)[i], l.start[t] + l.end[t][i - 1])
    <2> HIDE DEF items, B, e, raw
    <2> QED BY SMTT(60), ProgramJoined
  <1>1. /\ Joined(items, raw, e) /\ l.start[t] \in Nat
        /\ \A i \in 1 .. Len(items) : Enumerable(items[i], ToSet(AllBlocks(p)))
        /\ \A i \in 1 .. Len(items) : raw[i] = Raw(items[i], l.start[t] + e[i - 1])
    BY <1>0
  <1>2. \A i \in 1 .. Len(items) : B[i] = Linker!ItemBytes(items[i], l.start[t] + e[i - 1], where)
    BY DEF LinkedItems
  <1>3. SectionLaid(items, l.start[t], raw, e)
    BY DEF LaidOut
  <1>4. PICK n \in Nat, a \in Nat : n = Len(items) /\ a = l.start[t]
    BY <1>1 DEF Joined
  <1>5. IsSequence(B) /\ Len(B) = n
    <2>1. B = [i \in 1 .. n |-> B[i]]
      BY <1>4 DEF LinkedItems
    <2> HIDE DEF B
    <2> QED BY <2>1, FunctionSequence
  <1>6. \A i \in 1 .. n : Linker!Accepted(items[i])
    BY <1>4
  <1> HIDE DEF items, B, e, raw
  <1>7. ASSUME NEW i \in 1 .. n
        PROVE  FilledItem(B[i], items[i], a + e[i - 1], where) /\ raw[i] = Raw(items[i], a + e[i - 1])
    <2>1. PICK k \in 0 .. n : k = i - 1
      OBVIOUS
    <2>2. PICK o \in Nat : o = e[k]
      BY <1>1, <1>4 DEF Joined
    <2>3. Enumerable(items[i], ToSet(AllBlocks(p))) /\ a + o \in Int /\ Linker!Accepted(items[i])
      BY <1>1, <1>4, <1>6
    <2>4. FilledItem(Linker!ItemBytes(items[i], a + o, where), items[i], a + o, where)
      BY <2>3, ItemBytesFilled
    <2>5. B[i] = Linker!ItemBytes(items[i], a + o, where) /\ e[i - 1] = o
      BY <1>2, <1>4, <2>1, <2>2
    <2>6. raw[i] = Raw(items[i], a + e[i - 1])
      BY <1>1, <1>4
    <2> QED BY <2>4, <2>5, <2>6
  <1>8. \A i \in 1 .. n : IsSequence(B[i]) /\ Len(B[i]) = Len(raw[i])
    BY <1>7 DEF FilledItem
  <1>9. Ends(B, e)
    <2>1. Len(raw) = n /\ Ends(raw, e)
      BY <1>3, <1>4 DEF SectionLaid
    <2>2. /\ e \in [0 .. n -> Nat] /\ e[0] = 0
          /\ \A k \in 1 .. n : e[k] = e[k - 1] + Len(raw[k])
      BY <2>1 DEF Ends
    <2> QED BY <1>5, <1>8, <2>2 DEF Ends
  <1> QED BY <1>4, <1>5, <1>7, <1>8, <1>9 DEF IsSequences, B, items, e

\* A section in which every address is in its place holds its items as Linking has them.
LEMMA SectionLinked ==
    ASSUME NEW p, GoodProgram(p), NEW l, LaidOut(p, l), NEW S, NEW D, NEW where,
           SectionsFilled(S, p, l, D, where), \A e : IsSlot(e, p, l) => e \in D,
           NEW t \in 1 .. Len(p),
           \A i \in 1 .. Len(Enumerated(p, t)) : Linker!Accepted(Enumerated(p, t)[i])
    PROVE  /\ Read(S[t].buffer, 0, S[t].size) = FlattenSeq(LinkedItems(p, l, t, where))
           /\ IsSequence(Read(S[t].buffer, 0, S[t].size))
           /\ Len(Read(S[t].buffer, 0, S[t].size)) = S[t].size
           /\ S[t].start = l.start[t] /\ S[t].size = SizeOf(p, l, t)
  <1> DEFINE items == Enumerated(p, t)
             B     == LinkedItems(p, l, t, where)
             end   == l.end[t]
             raw   == l.raw[t]
             flat  == FlattenSeq(raw)
             size  == SizeOf(p, l, t)
             f     == FlattenSeq(S[t].buffer)
             R     == Read(S[t].buffer, 0, S[t].size)
  <1>1. /\ Joined(items, raw, end) /\ l.start[t] \in Nat
        /\ \A i \in 1 .. Len(items) : raw[i] = Raw(items[i], l.start[t] + end[i - 1])
    BY SMTT(60), ProgramJoined
  <1>2. /\ \A i \in 1 .. Len(items) : FilledItem(B[i], items[i], l.start[t] + end[i - 1], where)
        /\ IsSequences(B) /\ Len(B) = Len(items) /\ Ends(B, end)
    BY LinkedJoined
  <1>3. /\ S[t] = [start |-> l.start[t], size |-> size, buffer |-> S[t].buffer]
        /\ IsSequences(S[t].buffer)
        /\ FilledBytes(f, flat, size, t, D, where)
    BY DEF SectionsFilled
  <1>4. S[t].start = l.start[t] /\ S[t].size = size
    BY <1>3
  <1>5. R = SubSeq(f, 0 + 1, 0 + S[t].size)
    BY DEF Read
  <1>6. IsSequence(f)
    BY <1>3, FlattenElements
  <1>7. PICK n \in Nat : n = Len(items)
    BY <1>1 DEF Joined
  <1>8. size = end[n] /\ size \in Nat
    <2>1. n \in 0 .. n
      OBVIOUS
    <2>2. size = end[n]
      BY <1>7 DEF SizeOf
    <2> HIDE DEF size
    <2> QED BY <1>1, <1>7, <2>1, <2>2 DEF Joined
  <1>10. \A i \in 1 .. Len(items) : \A j \in Jumps(items[i]) :
            /\ end[i - 1] \in Nat /\ j.at \in Nat
            /\ \A x \in Nat : x - (end[i - 1] + j.at) \in 1 .. 8 => x - end[i - 1] \in 1 .. Len(raw[i])
    BY SlotInItem
  <1>11. \A i \in 1 .. Len(items) : \A j \in Jumps(items[i]) : SlotOf(l, t, i, j) \in D
    BY DEF IsSlot
  <1>12. \A e \in D : e.section = t =>
            \E i \in 1 .. Len(items) : \E j \in Jumps(items[i]) : e = SlotOf(l, t, i, j)
    <2> TAKE e \in D
    <2> HAVE e.section = t
    <2>1. IsSlot(e, p, l)
      BY DEF SectionsFilled
    <2>2. PICK u \in 1 .. Len(p) : \E i \in 1 .. Len(Enumerated(p, u)) : \E j \in Jumps(Enumerated(p, u)[i]) :
             e = SlotOf(l, u, i, j)
      BY <2>1 DEF IsSlot
    <2>3. u = t
      BY <2>2 DEF SlotOf
    <2> QED BY <2>2, <2>3
  <1>13. /\ \A i \in 1 .. Len(items) : \A j : SlotOf(l, t, i, j) =
               [section |-> t, at |-> end[i - 1] + j.at, block |-> j.block]
    BY DEF SlotOf
  <1> HIDE DEF items, B, end, raw, flat, size, f, R
  <1>14. size <= Len(f)
    BY <1>3 DEF FilledBytes
  <1>15. IsSequence(R) /\ Len(R) = size /\ \A x \in 1 .. size : R[x] = f[x]
    <2>1. R = SubSeq(f, 1, size)
      BY <1>4, <1>5, <1>8
    <2>2. /\ IsSequence(SubSeq(f, 1, size))
          /\ Len(SubSeq(f, 1, size)) = IF 1 <= size THEN size - 1 + 1 ELSE 0
          /\ \A i \in 1 .. size - 1 + 1 : SubSeq(f, 1, size)[i] = f[1 + i - 1]
      BY <1>6, <1>8, <1>14, SubSequence
    <2>3. size - 1 + 1 = size /\ \A i \in 1 .. size : 1 + i - 1 = i
      BY <1>8
    <2>4. (IF 1 <= size THEN size - 1 + 1 ELSE 0) = size
      BY <1>8
    <2> QED BY <2>1, <2>2, <2>3, <2>4
  <1>16. /\ IsSequence(FlattenSeq(B)) /\ Len(FlattenSeq(B)) = size
         /\ \A i \in 1 .. n : \A y \in 1 .. Len(B[i]) : FlattenSeq(B)[end[i - 1] + y] = B[i][y]
    <2>1. IsSequences(B) /\ Ends(B, end)
      BY <1>2
    <2>2. /\ IsSequence(FlattenSeq(B)) /\ Len(FlattenSeq(B)) = end[Len(B)]
          /\ \A i \in 1 .. Len(B) : \A y \in 1 .. Len(B[i]) : FlattenSeq(B)[end[i - 1] + y] = B[i][y]
      BY <2>1, FlattenPlaces
    <2> QED BY <1>2, <1>7, <1>8, <2>2
  <1>17. ASSUME NEW x \in 1 .. size
         PROVE  f[x] = FlattenSeq(B)[x]
    <2>1. PICK i \in 1 .. n : \E y \in 1 .. Len(raw[i]) : x = end[i - 1] + y
      BY <1>1, <1>7, <1>8 DEF Joined
    <2>2. PICK y \in 1 .. Len(raw[i]) : x = end[i - 1] + y
      BY <2>1
    <2>3. PICK b : b = B[i]
      OBVIOUS
    <2>4. /\ IsSequence(b) /\ Len(b) = Len(raw[i]) /\ Len(raw[i]) \in Nat
          /\ \A z \in 1 .. Len(b) : (\A j \in Jumps(items[i]) : ~(z - j.at \in 1 .. 8)) => b[z] = raw[i][z]
          /\ \A z \in 1 .. Len(b) : \A j \in Jumps(items[i]) :
                z - j.at \in 1 .. 8 => b[z] = AddressBytes(where[j.block])[z - j.at]
      <3>1. FilledItem(b, items[i], l.start[t] + end[i - 1], where)
        BY <1>2, <1>7, <2>3
      <3>2. raw[i] = Raw(items[i], l.start[t] + end[i - 1])
        BY <1>1, <1>7
      <3>3. Len(raw[i]) \in Nat
        BY <1>1, <1>7 DEF Joined
      <3> QED BY <3>1, <3>2, <3>3 DEF FilledItem
    <2>5. FlattenSeq(B)[x] = b[y] /\ y \in 1 .. Len(b)
      BY <1>16, <2>2, <2>3, <2>4
    <2>6. flat[x] = raw[i][y]
      BY <1>1, <1>7, <2>2 DEF Joined, flat
    <2>7. PICK o \in Nat : o = end[i - 1] /\ x = o + y
      <3>1. PICK k \in 0 .. n : k = i - 1
        OBVIOUS
      <3>2. end[k] \in Nat
        BY <1>1, <1>7 DEF Joined
      <3> QED BY <2>2, <3>1, <3>2
    <2>8. y \in Nat /\ x \in Nat
      BY <2>4
    <2>9. CASE \E j \in Jumps(items[i]) : y - j.at \in 1 .. 8
      <3>1. PICK j \in Jumps(items[i]) : y - j.at \in 1 .. 8
        BY <2>9
      <3>2. b[y] = AddressBytes(where[j.block])[y - j.at]
        BY <2>4, <2>5, <3>1
      <3>3. PICK q \in Nat : q = j.at
        BY <1>7, <1>10
      <3>4. PICK e \in D : e = [section |-> t, at |-> o + q, block |-> j.block]
        BY <1>7, <1>11, <1>13, <2>7, <3>3
      <3>5. x - (o + q) = y - q
        BY <2>7, <2>8
      <3>6. e.section = t /\ e.at = o + q /\ e.block = j.block
        BY <3>4
      <3>7. x - e.at = y - j.at /\ x - e.at \in 1 .. 8
        BY <3>1, <3>3, <3>5, <3>6
      <3>8. f[x] = AddressBytes(where[e.block])[x - e.at]
        BY <1>3, <3>6, <3>7 DEF FilledBytes
      <3> QED BY <2>5, <3>2, <3>6, <3>7, <3>8
    <2>10. CASE \A j \in Jumps(items[i]) : ~(y - j.at \in 1 .. 8)
      <3>1. b[y] = raw[i][y]
        BY <2>4, <2>5, <2>10
      <3>2. ASSUME NEW e \in D, e.section = t, x - e.at \in 1 .. 8
            PROVE  FALSE
        <4>1. PICK k \in 1 .. Len(items) : \E h \in Jumps(items[k]) : e = SlotOf(l, t, k, h)
          BY <1>12, <3>2
        <4>2. PICK h \in Jumps(items[k]) : e = SlotOf(l, t, k, h)
          BY <4>1
        <4>3. e.at = end[k - 1] + h.at
          BY <1>13, <4>2
        <4>4. PICK u \in Nat, q \in Nat : u = end[k - 1] /\ q = h.at
          BY <1>10
        <4>5. x - (u + q) \in 1 .. 8 /\ x - u \in 1 .. Len(raw[k])
          BY <1>10, <2>8, <3>2, <4>3, <4>4
        <4>6. PICK v : v = x - u
          OBVIOUS
        <4>7. v \in 1 .. Len(raw[k]) /\ u + v = x /\ v - q \in 1 .. 8
          BY <2>8, <4>5, <4>6
        <4>8. IsSequences(raw) /\ Ends(raw, end) /\ Len(raw) = Len(items)
          <5>1. SectionLaid(items, l.start[t], raw, end)
            BY DEF LaidOut, items, raw, end
          <5> QED BY <5>1 DEF SectionLaid
        <4>9. i \in 1 .. Len(raw) /\ k \in 1 .. Len(raw)
          BY <1>7, <4>8
        <4>10. end[i - 1] + y = end[k - 1] + v => i = k /\ y = v
          <5>1. IsSequences(raw) /\ Ends(raw, end)
            BY <4>8
          <5>2. y \in 1 .. Len(raw[i]) /\ v \in 1 .. Len(raw[k])
            BY <4>7
          <5> QED BY ONLY SMTT(60), <4>9, <5>1, <5>2, EndsOrder
        <4>11. end[i - 1] + y = end[k - 1] + v
          BY <2>7, <4>4, <4>7
        <4>12. i = k /\ y = v
          BY <4>10, <4>11
        <4> QED BY <2>10, <4>4, <4>7, <4>12
      <3>3. f[x] = flat[x]
        BY <1>3, <3>2 DEF FilledBytes
      <3> QED BY <2>5, <2>6, <3>1, <3>3
    <2> QED BY <2>9, <2>10
  <1>18. R = FlattenSeq(B)
    <2>1. \A x \in 1 .. Len(R) : R[x] = FlattenSeq(B)[x]
      BY <1>15, <1>17
    <2>2. IsSequence(R) /\ IsSequence(FlattenSeq(B)) /\ Len(R) = Len(FlattenSeq(B))
      BY <1>15, <1>16
    <2> HIDE DEF R
    <2> QED BY <2>1, <2>2, SameSequence
  <1> QED BY <1>4, <1>15, <1>18 DEF R, B, size

-----------------------------------------------------------------------------
(* Where the blocks stand                                                  *)

BlockPlace(l, m) == l.start[l.begin[m][1]] + l.end[l.begin[m][1]][l.begin[m][2] - 1]

\* The addresses of the blocks in a layout.
Stands(p, l) ==
    [id \in ToSet(AllBlocks(p)) |->
        BlockPlace(l, CHOOSE m \in 1 .. Len(AllBlocks(p)) : AllBlocks(p)[m] = id)]

LEMMA BlockNumber ==
    ASSUME NEW p, NEW l, LaidOut(p, l), NEW m \in 1 .. Len(AllBlocks(p))
    PROVE  (CHOOSE k \in 1 .. Len(AllBlocks(p)) : AllBlocks(p)[k] = AllBlocks(p)[m]) = m
  <1>1. \A k \in 1 .. Len(AllBlocks(p)) : AllBlocks(p)[k] = AllBlocks(p)[m] => k = m
    <2>1. Begins(p, l.begin)
      BY DEF LaidOut
    <2> QED BY <2>1 DEF Begins
  <1> QED BY <1>1

LEMMA StandsAt ==
    ASSUME NEW p, GoodProgram(p), NEW l, LaidOut(p, l), NEW m \in 1 .. Len(AllBlocks(p))
    PROVE  /\ AllBlocks(p)[m] \in ToSet(AllBlocks(p))
           /\ Stands(p, l)[AllBlocks(p)[m]] = BlockPlace(l, m)
  <1>1. IsSequence(AllBlocks(p))
    BY SectionsOfBlocks
  <1>2. DOMAIN AllBlocks(p) = 1 .. Len(AllBlocks(p))
    BY <1>1, SequenceDomain
  <1>3. AllBlocks(p)[m] \in ToSet(AllBlocks(p))
    BY <1>2 DEF ToSet
  <1> QED BY <1>3, BlockNumber DEF Stands

-----------------------------------------------------------------------------

\* Placed without its recursive function.
PlaceOf(items, section, where, f) ==
    [i \in 1 .. Len(items) + 1 |->
        IF i = 1 THEN section.start
        ELSE f[i - 1] + Len(Linker!ItemBytes(items[i - 1], f[i - 1], where))]

PlaceFunction(items, section, where) == CHOOSE f : f = PlaceOf(items, section, where, f)

PlacedBy(items, section, where, place) ==
    /\ section.bytes = FlattenSeq([i \in 1 .. Len(items) |-> Linker!ItemBytes(items[i], place[i], where)])
    /\ \A i \in 1 .. Len(items) : items[i].kind = "begin" => where[items[i].block] = place[i]

LEMMA PlacedIs ==
    ASSUME NEW items, NEW section, NEW where
    PROVE  Linker!Placed(items, section, where)
              <=> PlacedBy(items, section, where, PlaceFunction(items, section, where))
  <1>1. Linker!Placed(items, section, where) <=>
           LET place == PlaceFunction(items, section, where)
           IN  /\ section.bytes = Linker!FlattenSeq([i \in 1 .. Len(items) |->
                                                       Linker!ItemBytes(items[i], place[i], where)])
               /\ \A i \in 1 .. Len(items) : items[i].kind = "begin" => where[items[i].block] = place[i]
    BY DEF Linker!Placed, PlaceFunction, PlaceOf
  <1> QED BY <1>1, SameSequences DEF PlacedBy

\* A section of a layout, with the addresses of the layout in it, is placed.
LEMMA SectionPlaced ==
    ASSUME NEW p, GoodProgram(p), NEW l, LaidOut(p, l), NEW t \in 1 .. Len(p),
           \A i \in 1 .. Len(Enumerated(p, t)) : Linker!Accepted(Enumerated(p, t)[i]),
           NEW where, where = Stands(p, l), NEW section,
           section = [start |-> l.start[t], bytes |-> FlattenSeq(LinkedItems(p, l, t, where))]
    PROVE  Linker!Placed(Enumerated(p, t), section, where)
  <1> DEFINE items == Enumerated(p, t)
             B     == LinkedItems(p, l, t, where)
             e     == l.end[t]
  <1>1. Len(B) = Len(items) /\ Ends(B, e)
    BY LinkedJoined
  <1>2. Joined(items, l.raw[t], e) /\ l.start[t] \in Nat
    BY ProgramJoined
  <1>3. PICK n \in Nat, a \in Nat : n = Len(items) /\ a = l.start[t]
    BY <1>2 DEF Joined
  <1>4. \A i \in 1 .. n : B[i] = Linker!ItemBytes(items[i], a + e[i - 1], where)
    BY <1>3 DEF LinkedItems
  <1>5. section.start = a /\ section.bytes = FlattenSeq(B)
    BY <1>3
  <1>6. B = [i \in 1 .. n |-> Linker!ItemBytes(items[i], a + e[i - 1], where)]
    BY <1>3 DEF LinkedItems
  <1> HIDE DEF B, e
  <1>7. /\ \A k \in 0 .. n : e[k] \in Nat
        /\ e[0] = 0 /\ \A k \in 1 .. n : e[k] = e[k - 1] + Len(B[k])
    BY <1>1, <1>2, <1>3 DEF Joined, Ends
  <1> DEFINE g == [i \in 1 .. n + 1 |-> a + e[i - 1]]
             Next1(x, i) == x + Len(Linker!ItemBytes(items[i], x, where))
  <1>8. ASSUME NEW k \in 1 .. n
        PROVE  a + e[k] = Next1(a + e[k - 1], k)
    <2>1. B[k] = Linker!ItemBytes(items[k], a + e[k - 1], where) /\ e[k] = e[k - 1] + Len(B[k])
      BY <1>4, <1>7
    <2>2. PICK h \in 0 .. n : h = k - 1
      OBVIOUS
    <2>3. PICK x \in Nat, y \in Nat : x = e[k - 1] /\ y = e[k]
      BY <1>7, <2>2
    <2>4. PICK z : z = Len(B[k])
      OBVIOUS
    <2>5. y = x + z /\ Next1(a + x, k) = (a + x) + z
      BY <2>1, <2>3, <2>4
    <2>6. IsSequences(B)
      BY LinkedJoined DEF B
    <2>7. z \in Nat
      BY <1>1, <1>3, <2>4, <2>6 DEF IsSequences, IsSequence
    <2>8. a + y = (a + x) + z
      BY <2>5, <2>7
    <2> HIDE DEF Next1
    <2> QED BY <2>3, <2>5, <2>8
  <1> HIDE DEF Next1, items
  <1>9. g = [i \in 1 .. n + 1 |-> IF i = 1 THEN a ELSE Next1(g[i - 1], i - 1)]
    <2>1. ASSUME NEW i \in 1 .. n + 1
          PROVE  a + e[i - 1] = IF i = 1 THEN a ELSE Next1(g[i - 1], i - 1)
      <3>1. CASE i = 1
        BY <1>7, <3>1
      <3>2. CASE i # 1
        <4>1. PICK k \in 1 .. n : k = i - 1 /\ k \in 1 .. n + 1
          <5>1. i - 1 \in 1 .. n /\ i - 1 \in 1 .. n + 1
            BY <3>2
          <5> QED BY <5>1
        <4>2. g[k] = a + e[k - 1]
          BY <4>1
        <4> HIDE DEF g
        <4> QED BY <1>8, <3>2, <4>1, <4>2
      <3> QED BY <3>1, <3>2
    <2> QED BY <2>1
  <1> DEFINE place == PlaceFunction(items, section, where)
             R(f)  == [i \in 1 .. n + 1 |-> IF i = 1 THEN a ELSE Next1(f[i - 1], i - 1)]
  <1>10. \A f : PlaceOf(items, section, where, f) = R(f)
    BY <1>3, <1>5 DEF PlaceOf, Next1
  <1> HIDE DEF g
  <1>11. place = R(place)
    <2>1. g = R(g)
      BY <1>9
    <2>2. g = PlaceOf(items, section, where, g)
      BY <1>10, <2>1
    <2>3. place = PlaceOf(items, section, where, place)
      BY <2>2 DEF PlaceFunction
    <2> HIDE DEF place, R
    <2> QED BY <1>10, <2>3
  <1> HIDE DEF place
  <1>12. \A i \in 1 .. n + 1 : place[i] = IF i = 1 THEN a ELSE Next1(place[i - 1], i - 1)
    BY <1>11
  <1> DEFINE T == {k \in 0 .. n : place[k + 1] = a + e[k]}
  <1>13. \A k \in 0 .. n : place[k + 1] = a + e[k]
    <2>1. 0 \in T
      <3>1. 0 \in 0 .. n /\ 0 + 1 = 1 /\ 1 \in 1 .. n + 1
        OBVIOUS
      <3>2. place[1] = a
        BY <1>12, <3>1
      <3>3. a + e[0] = a
        BY <1>7
      <3> QED BY <3>1, <3>2, <3>3
    <2>2. ASSUME NEW k \in 0 .. (n - 1), k \in T
          PROVE  k + 1 \in T
      <3>1. PICK h \in 1 .. n : h = k + 1 /\ h - 1 = k /\ h + 1 \in 1 .. n + 1 /\ h + 1 # 1 /\ h + 1 - 1 = h
        <4>1. k + 1 \in 1 .. n /\ k + 1 - 1 = k /\ k + 1 + 1 \in 1 .. n + 1 /\ k + 1 + 1 # 1 /\ k + 1 + 1 - 1 = k + 1
          OBVIOUS
        <4> QED BY <4>1
      <3>2. place[h] = a + e[h - 1]
        BY <2>2, <3>1
      <3>3. place[h + 1] = Next1(place[h], h)
        BY <1>12, <3>1
      <3>4. place[h + 1] = a + e[h]
        BY <1>8, <3>2, <3>3
      <3>5. h \in 0 .. n
        BY <3>1
      <3>6. h \in T
        BY <3>4, <3>5
      <3> HIDE DEF T
      <3> QED BY <3>1, <3>6
    <2>3. 0 .. n \subseteq T
      <3> HIDE DEF T
      <3> QED BY <2>1, <2>2, Induction
    <2> QED BY <2>3
  <1>14. \A i \in 1 .. n : place[i] = a + e[i - 1]
    <2> TAKE i \in 1 .. n
    <2>1. PICK k \in 0 .. n : k = i - 1 /\ k + 1 = i
      <3>1. i - 1 \in 0 .. n /\ i - 1 + 1 = i
        OBVIOUS
      <3> QED BY <3>1
    <2> QED BY <1>13, <2>1
  <1>15. section.bytes = FlattenSeq([i \in 1 .. Len(items) |-> Linker!ItemBytes(items[i], place[i], where)])
    <2>1. [i \in 1 .. n |-> Linker!ItemBytes(items[i], place[i], where)] = B
      BY <1>6, <1>14
    <2> QED BY <1>3, <1>5, <2>1
  <1>16. ASSUME NEW i \in 1 .. n, items[i].kind = "begin"
         PROVE  where[items[i].block] = place[i]
    <2>1. Begins(p, l.begin)
      BY DEF LaidOut
    <2>2. PICK m \in 1 .. Len(AllBlocks(p)) : l.begin[m] = << t, i >>
      BY <1>3, <1>16, <2>1 DEF Begins, items
    <2>3. Enumerated(p, l.begin[m][1])[l.begin[m][2]] = BeginOf(AllBlocks(p)[m])
      BY <2>1 DEF Begins
    <2>4. l.begin[m][1] = t /\ l.begin[m][2] = i
      BY <2>2
    <2>5. items[i].block = AllBlocks(p)[m]
      BY <2>3, <2>4 DEF BeginOf, items
    <2>6. where[AllBlocks(p)[m]] = l.start[t] + l.end[t][i - 1]
      BY <2>4, StandsAt DEF BlockPlace
    <2> QED BY <1>3, <1>14, <2>5, <2>6 DEF e
  <1>17. PlacedBy(items, section, where, place)
    BY <1>3, <1>15, <1>16 DEF PlacedBy
  <1> QED BY <1>17, PlacedIs DEF place, items

\* The layout of an acceptable program, with its addresses, is the linked program.
LEMMA LayoutLinked ==
    ASSUME NEW p, GoodProgram(p), NEW l, LaidOut(p, l), NEW where, where = Stands(p, l),
           \A s \in 1 .. Len(p) : \A i \in 1 .. Len(Enumerated(p, s)) : Linker!Accepted(Enumerated(p, s)[i]),
           NEW image,
           image = [s \in 1 .. Len(p) |-> [start |-> l.start[s],
                                           bytes |-> FlattenSeq(LinkedItems(p, l, s, where))]]
    PROVE  Linker!Linked(p, where, image) /\ Linker!Acceptable(p)
  <1>1. PICK n \in Nat : n = Len(p)
    BY DEF GoodProgram, IsSequence
  <1> DEFINE F(s) == FlattenSeq(LinkedItems(p, l, s, where))
  <1>2. \A s \in 1 .. n : image[s] = [start |-> l.start[s], bytes |-> F(s)]
    BY <1>1
  <1> HIDE DEF F
  <1>10. \A s \in 1 .. n : image[s].start = l.start[s] /\ image[s].bytes = F(s)
    <2> TAKE s \in 1 .. n
    <2>1. PICK x : x = image[s]
      OBVIOUS
    <2>2. x = [start |-> l.start[s], bytes |-> F(s)]
      BY <1>2, <2>1
    <2> QED BY <2>1, <2>2
  <1>3. DOMAIN image = 1 .. Len(p)
    OBVIOUS
  <1>4. DOMAIN where = Linker!ToSet(Linker!AllBlocks(p))
    BY SameProgram, SameSequences DEF Stands
  <1>5. ASSUME NEW s \in 1 .. n
        PROVE  Len(image[s].bytes) = l.end[s][Len(Enumerated(p, s))]
    <2> DEFINE B == LinkedItems(p, l, s, where)
               e == l.end[s]
    <2>1. IsSequences(B) /\ Len(B) = Len(Enumerated(p, s)) /\ Ends(B, e)
      BY <1>1, LinkedJoined
    <2>2. image[s].bytes = FlattenSeq(B)
      BY <1>10 DEF F
    <2> HIDE DEF B, e
    <2>3. Len(FlattenSeq(B)) = e[Len(B)]
      BY <2>1, FlattenPlaces
    <2> QED BY <2>1, <2>2, <2>3 DEF e
  <1>6. ASSUME NEW s \in 1 .. n
        PROVE  image[s].start = CASE p[s].org # Linker!NoOrg -> p[s].org
                                   [] p[s].org = Linker!NoOrg /\ s = 1 -> 0
                                   [] OTHER -> image[s - 1].start + Len(image[s - 1].bytes)
    <2>1. l.start[s] = IF p[s].org # NoOrg THEN p[s].org
                       ELSE IF s = 1 THEN 0
                       ELSE l.start[s - 1] + l.end[s - 1][Len(Enumerated(p, s - 1))]
      BY <1>1 DEF LaidOut
    <2>2. image[s].start = l.start[s] /\ Linker!NoOrg = NoOrg
      BY <1>10 DEF NoOrg, Linker!NoOrg
    <2>3. CASE p[s].org # NoOrg \/ s = 1
      BY <2>1, <2>2, <2>3
    <2>4. CASE p[s].org = NoOrg /\ s # 1
      <3>1. PICK t \in 1 .. n : t = s - 1
        <4>1. s - 1 \in 1 .. n
          BY <2>4
        <4> QED BY <4>1
      <3>2. image[t].start = l.start[t] /\ Len(image[t].bytes) = l.end[t][Len(Enumerated(p, t))]
        BY <1>5, <1>10
      <3>3. l.start[s] = l.start[t] + l.end[t][Len(Enumerated(p, t))]
        BY <2>1, <2>4, <3>1
      <3>4. image[s].start = image[t].start + Len(image[t].bytes)
        BY <2>2, <3>2, <3>3
      <3> QED BY <2>2, <2>4, <3>1, <3>4
    <2> QED BY <2>3, <2>4
  <1>7. ASSUME NEW s \in 1 .. n
        PROVE  Linker!Placed(Linker!Enumerated(p, s), image[s], where)
    <2>1. Linker!Placed(Enumerated(p, s), image[s], where)
      BY <1>1, <1>2, SectionPlaced DEF F
    <2> QED BY <2>1, SameProgram
  <1>8. Linker!Linked(p, where, image)
    BY <1>1, <1>3, <1>4, <1>6, <1>7 DEF Linker!Linked
  <1>9. Linker!Acceptable(p)
    BY SameProgram DEF Linker!Acceptable
  <1> QED BY <1>8, <1>9

-----------------------------------------------------------------------------
(* The second pass: its steps                                              *)

AllAccepted(p) ==
    \A s \in 1 .. Len(p) : \A i \in 1 .. Len(Enumerated(p, s)) : Linker!Accepted(Enumerated(p, s)[i])

\* Before block b is filled in: the addresses of the blocks before it are in their places.
FillState(l, b) ==
    /\ Len(program) >= 1 /\ AllAccepted(program)
    /\ b \in 1 .. Len(AllBlocks(program)) + 1
    /\ BlocksAt(dataBlocks, program, l, AtEnd(program))
    /\ JumpsAt(jumpsToHere, program, l, AtEnd(program))
    /\ \E D : /\ SectionsFilled(sections, program, l, D, Stands(program, l))
              /\ \A k \in 1 .. Len(AllBlocks(program)) : \A e :
                    k < b /\ IsSlot(e, program, l) /\ e.block = AllBlocks(program)[k] => e \in D

\* Every address is in its place.
FilledState(l) ==
    /\ Len(program) >= 1 /\ AllAccepted(program)
    /\ BlocksAt(dataBlocks, program, l, AtEnd(program))
    /\ \E D : /\ SectionsFilled(sections, program, l, D, Stands(program, l))
              /\ \A e : IsSlot(e, program, l) => e \in D

\* The whole first pass is a second pass of which nothing is done.
LEMMA LaidFilled ==
    ASSUME GoodProgram(program), NEW l, LaidOut(program, l), LaidState(l, AtEnd(program)),
           Len(program) >= 1
    PROVE  FillState(l, 1)
  <1> DEFINE a == AtEnd(program)
             where == Stands(program, l)
  <1>1. PICK m \in Nat : m = Len(program)
    BY DEF GoodProgram, IsSequence
  <1>2. a[1] = m + 1 /\ a[2] = 0
    BY <1>1 DEF AtEnd
  <1> HIDE DEF a, where
  <1>3. SectionsAt(sections, currentOffset, program, l, a)
    BY DEF LaidState, a
  <1>4. IsSequence(sections) /\ Len(sections) = m
    BY <1>2, <1>3 DEF SectionsAt
  <1>5. ASSUME NEW t \in 1 .. m
        PROVE  /\ sections[t] = [start |-> l.start[t], size |-> SizeOf(program, l, t), buffer |-> sections[t].buffer]
               /\ IsSequences(sections[t].buffer)
               /\ FilledBytes(FlattenSeq(sections[t].buffer), FlattenSeq(l.raw[t]), SizeOf(program, l, t), t, {}, where)
    <2>1. t < a[1]
      BY <1>2
    <2>2. /\ sections[t] = [start |-> l.start[t], size |-> sections[t].size, buffer |-> sections[t].buffer]
          /\ IsSequences(sections[t].buffer)
          /\ sections[t].size = SizeOf(program, l, t)
          /\ HasBytes(sections[t].buffer, FlattenSeq(l.raw[t]), sections[t].size)
      BY <1>3, <1>4, <2>1 DEF SectionsAt, SizeOf
    <2> QED BY <2>2 DEF HasBytes, FilledBytes
  <1>6. SectionsFilled(sections, program, l, {}, where)
    BY <1>1, <1>4, <1>5 DEF SectionsFilled
  <1>7. AllAccepted(program)
    BY AllPassed DEF LaidState, AllAccepted
  <1>8. PICK n \in Nat : n = Len(AllBlocks(program))
    BY SectionsOfBlocks DEF IsSequence
  <1>9. 1 \in 1 .. n + 1 /\ \A k \in 1 .. n : ~(k < 1)
    OBVIOUS
  <1>10. BlocksAt(dataBlocks, program, l, a) /\ JumpsAt(jumpsToHere, program, l, a)
    BY DEF LaidState, a
  <1> QED BY <1>6, <1>7, <1>8, <1>9, <1>10 DEF FillState, a, where

\* What the list of blocks and the start of its section make the address of a block.
LEMMA RealOffset ==
    ASSUME NEW p, GoodProgram(p), NEW l, LaidOut(p, l), NEW B, BlocksAt(B, p, l, AtEnd(p)),
           NEW S, NEW D, NEW where, where = Stands(p, l), SectionsFilled(S, p, l, D, where),
           NEW m \in 1 .. Len(AllBlocks(p)), NEW id, id = AllBlocks(p)[m]
    PROVE  /\ B[m] + S[id[1]].start = where[id]
           /\ S[id[1]].start + B[m] = where[id]
  <1>1. PICK n \in Nat : n = Len(AllBlocks(p))
    BY SectionsOfBlocks DEF IsSequence
  <1>2. Begins(p, l.begin)
    BY DEF LaidOut
  <1>3. PICK s, i : s = l.begin[m][1] /\ i = l.begin[m][2]
    OBVIOUS
  <1>4. s \in 1 .. Len(p) /\ i \in 1 .. Len(Enumerated(p, s)) /\ id[1] = s
    BY <1>2, <1>3 DEF Begins
  <1>5. PICK c \in Nat : c = Len(B) /\ c <= n
    BY <1>1 DEF BlocksAt, IsSequence
  <1>6. m <= c
    BY <1>3, <1>4, <1>5, AllPassed DEF BlocksAt
  <1>7. m \in 1 .. Len(B)
    BY <1>1, <1>5, <1>6
  <1>8. B[m] = l.end[s][i - 1]
    BY <1>3, <1>7 DEF BlocksAt
  <1>9. S[s] = [start |-> l.start[s], size |-> SizeOf(p, l, s), buffer |-> S[s].buffer]
    BY <1>4 DEF SectionsFilled
  <1>10. S[s].start = l.start[s]
    BY <1>9
  <1>11. where[id] = l.start[s] + l.end[s][i - 1]
    BY <1>3, StandsAt DEF BlockPlace
  <1>12. PICK x \in Nat : x = l.start[s]
    BY <1>4 DEF LaidOut
  <1>13. Joined(Enumerated(p, s), l.raw[s], l.end[s])
    BY <1>4, ProgramJoined
  <1>14. PICK h \in 0 .. Len(Enumerated(p, s)) : h = i - 1
    <2>1. PICK o \in Nat : o = Len(Enumerated(p, s))
      BY <1>13 DEF Joined
    <2>2. i - 1 \in 0 .. o
      BY <1>4, <2>1
    <2> QED BY <2>1, <2>2
  <1>15. PICK y \in Nat : y = l.end[s][i - 1]
    BY <1>13, <1>14 DEF Joined
  <1>16. y + x = x + y
    OBVIOUS
  <1> QED BY <1>4, <1>8, <1>10, <1>11, <1>12, <1>15, <1>16

FilledFrom(S, id, realOffset) ==
    FillFunction(S, jumpsToHere[id], realOffset)[Len(jumpsToHere[id])]

LEMMA FillBlockIs ==
    ASSUME FillBlock
    PROVE  LET id == AllBlocks(program)[at[1]]
           IN  sections' = FilledFrom(sections, id, dataBlocks[at[1]] + sections[id[1]].start)
  BY DEF FillBlock, FilledFrom, FillFunction, FillOf

LEMMA FilledBlock ==
    ASSUME GoodProgram(program), NEW l, LaidOut(program, l), NEW b, b = at[1], FillState(l, b), FillBlock
    PROVE  FillState(l, b + 1)' /\ at' = << b + 1, 1 >> /\ UNCHANGED << pc, program, format, file >>
  <1> DEFINE where == Stands(program, l)
             id    == AllBlocks(program)[b]
             M     == Len(AllBlocks(program))
  <1>1. PICK n \in Nat : n = M
    BY SectionsOfBlocks DEF IsSequence
  <1>2. b \in 1 .. n
    <2>1. b \in 1 .. n + 1
      BY <1>1 DEF FillState
    <2>2. b <= n
      BY <1>1 DEF FillBlock
    <2> QED BY <2>1, <2>2
  <1>3. /\ at' = << b + 1, 1 >>
        /\ UNCHANGED << pc, program, format, file, dataBlocks, jumpsToHere >>
    BY DEF FillBlock
  <1>4. PICK D : /\ SectionsFilled(sections, program, l, D, where)
                 /\ \A k \in 1 .. M : \A e : k < b /\ IsSlot(e, program, l) /\ e.block = AllBlocks(program)[k] => e \in D
    BY DEF FillState
  <1>5. id \in ToSet(AllBlocks(program))
    BY <1>1, <1>2, StandsAt
  <1>6. BlocksAt(dataBlocks, program, l, AtEnd(program)) /\ JumpsAt(jumpsToHere, program, l, AtEnd(program))
    BY DEF FillState
  <1>7. sections' = FilledFrom(sections, id, dataBlocks[b] + sections[id[1]].start)
    BY FillBlockIs
  <1> HIDE DEF where, id
  <1>8. dataBlocks[b] + sections[id[1]].start = where[id]
    BY <1>1, <1>2, <1>4, <1>6, RealOffset DEF where, id
  <1>9. Lists(jumpsToHere[id], Wanted(program, l, AtEnd(program), id))
    BY <1>5, <1>6 DEF JumpsAt
  <1> DEFINE fill == FillFunction(sections, jumpsToHere[id], where[id])
  <1>10. sections' = fill[Len(jumpsToHere[id])]
    BY <1>7, <1>8 DEF FilledFrom
  <1>11. \E E : /\ D \subseteq E
                /\ SectionsFilled(fill[Len(jumpsToHere[id])], program, l, E, where)
                /\ \A e : IsSlot(e, program, l) /\ e.block = id => e \in E
    <2> HIDE DEF fill
    <2>1. fill = FillFunction(sections, jumpsToHere[id], where[id])
      BY DEF fill
    <2> QED BY <1>4, <1>9, <2>1, BlockFills
  <1>12. PICK E : /\ D \subseteq E
                  /\ SectionsFilled(sections', program, l, E, where)
                  /\ \A e : IsSlot(e, program, l) /\ e.block = id => e \in E
    BY <1>10, <1>11
  <1>13. \A k \in 1 .. n : \A e : k < b + 1 /\ IsSlot(e, program, l) /\ e.block = AllBlocks(program)[k] => e \in E
    <2> TAKE k \in 1 .. n
    <2>1. k < b + 1 => k < b \/ k = b
      BY <1>2
    <2> QED BY <1>1, <1>4, <1>12, <2>1 DEF id
  <1>14. b + 1 \in 1 .. n + 1
    BY <1>2
  <1>15. Len(program) >= 1 /\ AllAccepted(program)
    BY DEF FillState
  <1> HIDE DEF fill
  <1>16. FillState(l, b + 1)'
    BY <1>1, <1>3, <1>6, <1>12, <1>13, <1>14, <1>15 DEF FillState, where, AllAccepted, JumpsAt
  <1> QED BY <1>3, <1>16

\* When every block has been filled in, no place is left.
LEMMA AllFilled ==
    ASSUME GoodProgram(program), NEW l, LaidOut(program, l), FillState(l, Len(AllBlocks(program)) + 1)
    PROVE  FilledState(l)
  <1>1. PICK n \in Nat : n = Len(AllBlocks(program))
    BY SectionsOfBlocks DEF IsSequence
  <1>2. PICK D : /\ SectionsFilled(sections, program, l, D, Stands(program, l))
                 /\ \A k \in 1 .. n : \A e : k < n + 1 /\ IsSlot(e, program, l) /\ e.block = AllBlocks(program)[k] => e \in D
    BY <1>1 DEF FillState
  <1>3. ASSUME NEW e, IsSlot(e, program, l)
        PROVE  e \in D
    <2>1. PICK t \in 1 .. Len(program) : \E i \in 1 .. Len(Enumerated(program, t)) :
             \E j \in Jumps(Enumerated(program, t)[i]) : e = SlotOf(l, t, i, j)
      BY <1>3 DEF IsSlot
    <2>2. PICK i \in 1 .. Len(Enumerated(program, t)) :
             \E j \in Jumps(Enumerated(program, t)[i]) : e = SlotOf(l, t, i, j)
      BY <2>1
    <2>3. PICK j \in Jumps(Enumerated(program, t)[i]) : e = SlotOf(l, t, i, j)
      BY <2>2
    <2>4. j.block \in ToSet(AllBlocks(program))
      BY SlotInItem
    <2>5. e.block = j.block
      BY <2>3 DEF SlotOf
    <2>6. DOMAIN AllBlocks(program) = 1 .. n
      BY <1>1, SectionsOfBlocks, SequenceDomain
    <2>7. PICK k \in 1 .. n : AllBlocks(program)[k] = e.block
      BY <2>4, <2>5, <2>6 DEF ToSet
    <2>8. k < n + 1
      OBVIOUS
    <2> QED BY <1>2, <1>3, <2>7, <2>8
  <1> QED BY <1>2, <1>3 DEF FilledState, FillState

-----------------------------------------------------------------------------
(* Both passes are through                                                 *)

\* What the second pass leaves, in terms of the sections and the list of blocks.
FilledWith(p, l, S, B) ==
    /\ Len(p) >= 1 /\ AllAccepted(p)
    /\ BlocksAt(B, p, l, AtEnd(p))
    /\ \E D : /\ SectionsFilled(S, p, l, D, Stands(p, l))
              /\ \A e : IsSlot(e, p, l) => e \in D

WhereOf(p, S, B) ==
    [id \in ToSet(AllBlocks(p)) |->
        S[id[1]].start + B[CHOOSE k \in 1 .. Len(AllBlocks(p)) : AllBlocks(p)[k] = id]]

DataOf(S, s) == Read(S[s].buffer, 0, S[s].size)

ImageOf(p, S) == [s \in 1 .. Len(p) |-> [start |-> S[s].start, bytes |-> DataOf(S, s)]]

\* The sections hold what they say they do.
SectionsHold(p, S) ==
    \A s \in 1 .. Len(p) : /\ S[s].start \in Nat
                           /\ IsSequence(DataOf(S, s)) /\ Len(DataOf(S, s)) = S[s].size

\* What stands in the buffers is what the items of the sections are, linked.
LEMMA FilledImage ==
    ASSUME NEW p, GoodProgram(p), NEW l, LaidOut(p, l), NEW S, NEW B, FilledWith(p, l, S, B)
    PROVE  /\ WhereOf(p, S, B) = Stands(p, l)
           /\ \A s \in 1 .. Len(p) :
                 /\ DataOf(S, s) = FlattenSeq(LinkedItems(p, l, s, Stands(p, l)))
                 /\ IsSequence(DataOf(S, s)) /\ Len(DataOf(S, s)) = S[s].size
                 /\ S[s].start = l.start[s] /\ S[s].start \in Nat
  <1> DEFINE where == Stands(p, l)
             F(s)  == FlattenSeq(LinkedItems(p, l, s, where))
  <1>1. PICK n \in Nat : n = Len(p) /\ n >= 1
    BY DEF GoodProgram, IsSequence, FilledWith
  <1>2. PICK D : SectionsFilled(S, p, l, D, where) /\ \A e : IsSlot(e, p, l) => e \in D
    BY DEF FilledWith
  <1>3. BlocksAt(B, p, l, AtEnd(p)) /\ AllAccepted(p)
    BY DEF FilledWith
  <1>4. WhereOf(p, S, B) = where
    <2>1. ASSUME NEW id \in ToSet(AllBlocks(p))
          PROVE  S[id[1]].start + B[CHOOSE k \in 1 .. Len(AllBlocks(p)) : AllBlocks(p)[k] = id] = where[id]
      <3>1. DOMAIN AllBlocks(p) = 1 .. Len(AllBlocks(p))
        BY SectionsOfBlocks, SequenceDomain
      <3>2. PICK m \in 1 .. Len(AllBlocks(p)) : id = AllBlocks(p)[m]
        BY <3>1 DEF ToSet
      <3>3. (CHOOSE k \in 1 .. Len(AllBlocks(p)) : AllBlocks(p)[k] = id) = m
        BY <3>2, BlockNumber
      <3> HIDE DEF where
      <3>4. S[id[1]].start + B[m] = where[id]
        BY <1>2, <1>3, <3>2, RealOffset DEF where
      <3> QED BY <3>3, <3>4
    <2>2. where = [id \in ToSet(AllBlocks(p)) |-> where[id]]
      BY DEF Stands
    <2> HIDE DEF where
    <2> QED BY <2>1, <2>2 DEF WhereOf
  <1> HIDE DEF where
  <1>5. \A s \in 1 .. n : \A i \in 1 .. Len(Enumerated(p, s)) : Linker!Accepted(Enumerated(p, s)[i])
    BY <1>1, <1>3 DEF AllAccepted
  <1>6. ASSUME NEW s \in 1 .. n
        PROVE  /\ DataOf(S, s) = F(s) /\ IsSequence(DataOf(S, s)) /\ Len(DataOf(S, s)) = S[s].size
               /\ S[s].start = l.start[s] /\ S[s].start \in Nat
    <2>1. s \in 1 .. Len(p) /\ l.start[s] \in Nat
      BY <1>1, ProgramJoined
    <2>2. /\ Read(S[s].buffer, 0, S[s].size) = FlattenSeq(LinkedItems(p, l, s, where))
          /\ IsSequence(Read(S[s].buffer, 0, S[s].size))
          /\ Len(Read(S[s].buffer, 0, S[s].size)) = S[s].size
          /\ S[s].start = l.start[s]
      BY <1>2, <1>5, <2>1, SectionLinked
    <2> QED BY <2>1, <2>2 DEF DataOf
  <1> QED BY <1>1, <1>4, <1>6 DEF where

LEMMA FilledLinked ==
    ASSUME NEW p, GoodProgram(p), NEW l, LaidOut(p, l), NEW S, NEW B, FilledWith(p, l, S, B)
    PROVE  /\ Linker!Linked(p, WhereOf(p, S, B), ImageOf(p, S))
           /\ Linker!Acceptable(p)
           /\ SectionsHold(p, S)
           /\ ImageOf(p, S) # << >>
  <1> DEFINE where == Stands(p, l)
             F(s)  == FlattenSeq(LinkedItems(p, l, s, where))
  <1>1. PICK n \in Nat : n = Len(p) /\ n >= 1
    BY DEF GoodProgram, IsSequence, FilledWith
  <1>3. AllAccepted(p)
    BY DEF FilledWith
  <1>4. WhereOf(p, S, B) = where
    BY FilledImage
  <1> HIDE DEF where
  <1>5. \A s \in 1 .. n : \A i \in 1 .. Len(Enumerated(p, s)) : Linker!Accepted(Enumerated(p, s)[i])
    BY <1>1, <1>3 DEF AllAccepted
  <1>6. ASSUME NEW s \in 1 .. n
        PROVE  /\ DataOf(S, s) = F(s) /\ IsSequence(DataOf(S, s)) /\ Len(DataOf(S, s)) = S[s].size
               /\ S[s].start = l.start[s] /\ S[s].start \in Nat
    BY <1>1, FilledImage DEF where
  <1>7. ImageOf(p, S) = [s \in 1 .. Len(p) |-> [start |-> l.start[s], bytes |-> F(s)]]
    <2> HIDE DEF F
    <2>1. \A s \in 1 .. n : [start |-> S[s].start, bytes |-> DataOf(S, s)] = [start |-> l.start[s], bytes |-> F(s)]
      BY <1>6
    <2> QED BY <1>1, <2>1 DEF ImageOf
  <1>8. Linker!Linked(p, where, ImageOf(p, S)) /\ Linker!Acceptable(p)
    BY <1>1, <1>5, <1>7, LayoutLinked DEF where
  <1>9. ImageOf(p, S) # << >>
    <2>1. DOMAIN ImageOf(p, S) = 1 .. n
      BY <1>1 DEF ImageOf
    <2>2. 1 \in 1 .. n /\ 1 \notin DOMAIN << >>
      BY <1>1
    <2> QED BY <2>1, <2>2
  <1>10. SectionsHold(p, S)
    BY <1>1, <1>6 DEF SectionsHold
  <1> QED BY <1>4, <1>8, <1>9, <1>10

-----------------------------------------------------------------------------

\* A flat file, when the sections before s are written.
Upto(p, S, s) == FlattenSeq([t \in 1 .. s |-> DataOf(S, t)])

LEMMA UptoNext ==
    ASSUME NEW p, NEW n \in Nat, n = Len(p), NEW S, SectionsHold(p, S), NEW s \in 1 .. n
    PROVE  Upto(p, S, s - 1) \o DataOf(S, s) = Upto(p, S, s)
  <1> DEFINE d(t) == DataOf(S, t)
             u    == [t \in 1 .. s - 1 |-> d(t)]
             v    == [t \in 1 .. s |-> d(t)]
  <1>1. \A t \in 1 .. n : IsSequence(d(t))
    BY DEF SectionsHold
  <1> HIDE DEF d
  <1>2. PICK k \in Nat : k = s - 1 /\ k + 1 = s
    <2>1. s - 1 \in Nat /\ s - 1 + 1 = s
      OBVIOUS
    <2> QED BY <2>1
  <1>3. IsSequence(u) /\ Len(u) = k /\ \A t \in 1 .. k : u[t] = d(t)
    <2>1. u = [t \in 1 .. k |-> u[t]] /\ \A t \in 1 .. k : u[t] = d(t)
      BY <1>2
    <2> HIDE DEF u
    <2> QED BY <2>1, FunctionSequence
  <1>4. IsSequence(v) /\ Len(v) = s /\ \A t \in 1 .. s : v[t] = d(t)
    <2>1. v = [t \in 1 .. s |-> v[t]] /\ \A t \in 1 .. s : v[t] = d(t)
      OBVIOUS
    <2> HIDE DEF v
    <2> QED BY <2>1, FunctionSequence
  <1> HIDE DEF u, v
  <1>5. IsSequences(u)
    <2>1. \A t \in 1 .. k : t \in 1 .. n
      BY <1>2
    <2> QED BY <1>1, <1>3, <2>1 DEF IsSequences
  <1>6. Append(u, d(s)) = v
    <2> DEFINE w == Append(u, d(s))
    <2>1. IsSequence(w) /\ Len(w) = k + 1 /\ w[k + 1] = d(s) /\ \A t \in 1 .. k : w[t] = u[t]
      BY <1>3, AppendSequence
    <2> HIDE DEF w
    <2>2. \A t \in 1 .. s : w[t] = v[t]
      <3> TAKE t \in 1 .. s
      <3>1. CASE t = s
        BY <1>2, <1>4, <2>1, <3>1
      <3>2. CASE t # s
        <4>1. t \in 1 .. k
          BY <1>2, <3>2
        <4> QED BY <1>3, <1>4, <2>1, <4>1
      <3> QED BY <3>1, <3>2
    <2>3. Len(w) = Len(v) /\ Len(w) = s
      BY <1>2, <1>4, <2>1
    <2> QED BY <1>4, <2>1, <2>2, <2>3, SameSequence DEF w
  <1>7. FlattenSeq(Append(u, d(s))) = FlattenSeq(u) \o d(s)
    BY <1>1, <1>5, FlattenAppend
  <1> QED BY <1>6, <1>7 DEF Upto, u, v, d

-----------------------------------------------------------------------------
(* The file                                                                *)

\* The parts of an executable.
PartsOf(p, S) ==
    [n |-> Len(p), entry |-> S[1].start,
     start |-> [s \in 1 .. Len(p) |-> S[s].start],
     data  |-> [s \in 1 .. Len(p) |-> DataOf(S, s)],
     name  |-> [s \in 1 .. Len(p) |-> p[s].name],
     flag  |-> [s \in 1 .. Len(p) |-> Access(p[s].name.text)]]

ExecutableOf(p, S) ==
    WriteToStream(S[1].start,
        [s \in 1 .. Len(p) |-> ProgramSection(S[s].start, DataOf(S, s), Access(p[s].name.text))],
        [s \in 1 .. Len(p) |-> Section(p[s].name, S[s].start, S[s].size, Access(p[s].name.text))])

\* The executable that is written reads back as the image.
LEMMA ExecutableReads ==
    ASSUME NEW p, GoodProgram(p), Len(p) >= 1, NEW S, SectionsHold(p, S)
    PROVE  Loaded(ExecutableOf(p, S)) = Linker!FileOf(p, "ELF", ImageOf(p, S))
  <1>1. PICK n \in Nat \ {0} : n = Len(p)
    BY DEF GoodProgram, IsSequence
  <1>2. PICK x : x = PartsOf(p, S)
    OBVIOUS
  <1> DEFINE start == [s \in 1 .. n |-> S[s].start]
             data  == [s \in 1 .. n |-> DataOf(S, s)]
             name  == [s \in 1 .. n |-> p[s].name]
             flag  == [s \in 1 .. n |-> Access(p[s].name.text)]
  <1>3. x.n = n /\ x.entry = S[1].start /\ x.start = start /\ x.data = data /\ x.name = name /\ x.flag = flag
    BY <1>1, <1>2 DEF PartsOf
  <1>4. ASSUME NEW s \in 1 .. n
        PROVE  /\ x.start[s] = S[s].start /\ x.data[s] = DataOf(S, s)
               /\ x.name[s] = p[s].name /\ x.flag[s] = Access(p[s].name.text)
    BY <1>3
  <1>5. ASSUME NEW s \in 1 .. n
        PROVE  /\ S[s].start \in Nat /\ IsSequence(DataOf(S, s)) /\ Len(DataOf(S, s)) = S[s].size
               /\ p[s].name.length \in Nat \ {0}
    BY <1>1 DEF SectionsHold, GoodProgram
  <1> HIDE DEF start, data, name, flag
  <1>6. GoodParts(x)
    <2>1. ASSUME NEW s \in 1 .. n
          PROVE  IsSequence(x.data[s]) /\ x.start[s] \in Nat /\ x.name[s].length \in Nat \ {0}
      BY <1>4, <1>5
    <2> QED
      BY <1>3, <2>1 DEF GoodParts
  <1>7. n = x.n
    BY <1>3
  <1>8. Loaded(WriteToStream(x.entry, ProgsOf(x), SecsOf(x))) =
            << x.entry, [s \in 1 .. n |-> << {x.name[s].text}, x.start[s], x.data[s], x.flag[s] >>] >>
    BY <1>6, <1>7, ElfRead
  <1>9. ProgsOf(x) = [s \in 1 .. n |-> ProgramSection(S[s].start, DataOf(S, s), Access(p[s].name.text))]
    <2>1. ASSUME NEW s \in 1 .. n
          PROVE  ProgramSection(x.start[s], x.data[s], x.flag[s])
                    = ProgramSection(S[s].start, DataOf(S, s), Access(p[s].name.text))
      BY <1>4
    <2> QED
      BY <1>3, <2>1 DEF ProgsOf
  <1>10. SecsOf(x) = [s \in 1 .. n |-> Section(p[s].name, S[s].start, S[s].size, Access(p[s].name.text))]
    <2>1. ASSUME NEW s \in 1 .. n
          PROVE  Section(x.name[s], x.start[s], Len(x.data[s]), x.flag[s])
                    = Section(p[s].name, S[s].start, S[s].size, Access(p[s].name.text))
      BY <1>4, <1>5
    <2> QED
      BY <1>3, <2>1 DEF SecsOf
  <1>11. WriteToStream(x.entry, ProgsOf(x), SecsOf(x)) = ExecutableOf(p, S)
    BY <1>1, <1>3, <1>9, <1>10 DEF ExecutableOf
  <1>12. PICK image : image = ImageOf(p, S)
    OBVIOUS
  <1>13. ASSUME NEW s \in 1 .. n
         PROVE  image[s].start = S[s].start /\ image[s].bytes = DataOf(S, s)
    <2>1. PICK a, b : a = S[s].start /\ b = DataOf(S, s)
      OBVIOUS
    <2>2. image[s] = [start |-> a, bytes |-> b]
      BY <1>1, <1>12, <2>1 DEF ImageOf
    <2> QED
      BY <2>1, <2>2
  <1>14. Linker!FileOf(p, "ELF", image) =
            << image[1].start,
               [s \in 1 .. n |-> << {p[s].name.text}, image[s].start, image[s].bytes, Linker!Access(p[s].name.text) >>] >>
    BY <1>1 DEF Linker!FileOf
  <1>15. ASSUME NEW s \in 1 .. n
         PROVE  << {p[s].name.text}, image[s].start, image[s].bytes, Linker!Access(p[s].name.text) >>
                  = << {x.name[s].text}, x.start[s], x.data[s], x.flag[s] >>
    <2>1. Linker!Access(p[s].name.text) = Access(p[s].name.text)
      BY SameBytes
    <2> QED
      BY <1>4, <1>13, <2>1
  <1>16. image[1].start = x.entry
    <2>1. 1 \in 1 .. n
      OBVIOUS
    <2> QED
      BY <1>3, <1>13, <2>1
  <1>17. [s \in 1 .. n |-> << {p[s].name.text}, image[s].start, image[s].bytes, Linker!Access(p[s].name.text) >>]
           = [s \in 1 .. n |-> << {x.name[s].text}, x.start[s], x.data[s], x.flag[s] >>]
    BY <1>15
  <1> QED
    BY <1>8, <1>11, <1>12, <1>14, <1>16, <1>17

\* A flat file is the sections of the image.
LEMMA FlatReads ==
    ASSUME NEW p, NEW n \in Nat, n = Len(p), NEW S
    PROVE  << Upto(p, S, n) >> = Linker!FileOf(p, "BINARY", ImageOf(p, S))
  <1>1. PICK image : image = ImageOf(p, S)
    OBVIOUS
  <1>2. ASSUME NEW s \in 1 .. n
        PROVE  image[s].bytes = DataOf(S, s)
    <2>1. PICK a, b : a = S[s].start /\ b = DataOf(S, s)
      OBVIOUS
    <2>2. image[s] = [start |-> a, bytes |-> b]
      BY <1>1, <2>1 DEF ImageOf
    <2> QED
      BY <2>1, <2>2
  <1>3. PICK u : u = [s \in 1 .. n |-> image[s].bytes]
    OBVIOUS
  <1>4. u = [s \in 1 .. n |-> DataOf(S, s)]
    BY <1>2, <1>3
  <1>5. Linker!FileOf(p, "BINARY", image) = << Linker!FlattenSeq(u) >>
    BY <1>3 DEF Linker!FileOf
  <1>6. Linker!FlattenSeq(u) = FlattenSeq(u)
    BY SameSequences
  <1>7. Upto(p, S, n) = FlattenSeq(u)
    BY <1>4 DEF Upto
  <1> QED
    BY <1>1, <1>5, <1>6, <1>7

-----------------------------------------------------------------------------
(* The inductive invariant of the assembler                                *)

\* What holds of layout l in each phase of the assembler.
Phase(l) ==
    /\ pc = "layout" => LaidState(l, at) /\ file = << >>
    /\ pc = "fill" => FillState(l, at[1]) /\ file = << >>
    /\ pc \in {"write", "done"} => FilledState(l)
    /\ pc = "write" => at[1] \in 1 .. Len(program) /\ file = Upto(program, sections, at[1] - 1)
    /\ pc = "done" => file = IF format = "ELF" THEN ExecutableOf(program, sections)
                             ELSE Upto(program, sections, Len(program))

AssemblerInv ==
    /\ GoodProgram(program)
    /\ format \in {"BINARY", "ELF"}
    /\ pc \in {"layout", "fill", "write", "done", "failed"}
    /\ \E l : LaidOut(program, l) /\ Phase(l)

Filling ==
    \A l : /\ GoodProgram(program) /\ LaidOut(program, l)
           /\ LaidState(l, AtEnd(program)) /\ Len(program) >= 1
           => FillState(l, 1)

\* The end of the first pass, in the state that a step leads to.
LEMMA FillingNext == Filling'
  <1>1. Filling
    BY LaidFilled DEF Filling
  <1> QED
    BY <1>1, PTL

LEMMA InitInv == Init => AssemblerInv
  <1> SUFFICES ASSUME Init
               PROVE  AssemblerInv
    OBVIOUS
  <1>1. GoodProgram(program)
    BY ProgramsAssumption DEF Init
  <1>2. PICK l : LaidOut(program, l)
    BY <1>1, LayoutExists
  <1>3. PICK J : J = [id \in ToSet(AllBlocks(program)) |-> << >>]
    OBVIOUS
  <1>4. /\ Walking(program, << 1, 0 >>)
        /\ SectionsAt(<< >>, 0, program, l, << 1, 0 >>)
        /\ BlocksAt(<< >>, program, l, << 1, 0 >>)
        /\ JumpsAt(J, program, l, << 1, 0 >>)
        /\ \A s \in 1 .. Len(program) : \A i \in 1 .. Len(Enumerated(program, s)) : ~Passed(<< 1, 0 >>, s, i)
    BY <1>1, <1>2, <1>3, LaidInit
  <1>5. /\ at = << 1, 0 >> /\ sections = << >> /\ currentOffset = 0 /\ dataBlocks = << >> /\ jumpsToHere = J
        /\ file = << >> /\ pc = "layout" /\ format \in {"BINARY", "ELF"}
    BY <1>3 DEF Init
  <1>6. LaidState(l, at)
    BY <1>4, <1>5 DEF LaidState
  <1>7. Phase(l)
    BY <1>5, <1>6 DEF Phase
  <1> QED
    BY <1>1, <1>2, <1>5, <1>7 DEF AssemblerInv

\* The steps of the first pass within a section.
LEMMA InvLayout ==
    ASSUME AssemblerInv,
           \/ StartSection \/ StartBlock \/ EmitInstruction \/ EmitData \/ EmitReference
           \/ EmitAlignment \/ EmitSkip
    PROVE  AssemblerInv'
  <1>1. pc = "layout" /\ UNCHANGED << pc, program, format, file >>
    BY DEF StartSection, StartBlock, EmitInstruction, EmitData, EmitReference, EmitAlignment, EmitSkip, InLayout
  <1>2. GoodProgram(program) /\ format \in {"BINARY", "ELF"}
    BY DEF AssemblerInv
  <1>3. PICK l : LaidOut(program, l) /\ Phase(l)
    BY DEF AssemblerInv
  <1>4. LaidState(l, at) /\ file = << >>
    BY <1>1, <1>3 DEF Phase
  <1>5. LaidState(l, at)'
    BY <1>2, <1>3, <1>4, LaidStart, LaidBegin, LaidWaiting, LaidData
  <1>6. Phase(l)'
    BY <1>1, <1>4, <1>5 DEF Phase
  <1> QED
    BY <1>1, <1>2, <1>3, <1>6 DEF AssemblerInv

LEMMA InvEndSection ==
    ASSUME AssemblerInv, EndSection
    PROVE  AssemblerInv'
  <1>1. /\ pc = "layout" /\ UNCHANGED << program, format, file >>
        /\ at' = (IF at[1] < Len(program) THEN << at[1] + 1, 0 >> ELSE << 1, 1 >>)
        /\ pc' = (IF at[1] < Len(program) THEN "layout" ELSE "fill")
    BY DEF EndSection
  <1>2. GoodProgram(program) /\ format \in {"BINARY", "ELF"}
    BY DEF AssemblerInv
  <1>3. PICK l : LaidOut(program, l) /\ Phase(l)
    BY DEF AssemblerInv
  <1>4. LaidState(l, at) /\ file = << >>
    BY <1>1, <1>3 DEF Phase
  <1>5. PICK s : s = at[1]
    OBVIOUS
  <1>6. s \in 1 .. Len(program) /\ LaidState(l, << s + 1, 0 >>)'
    BY <1>2, <1>3, <1>4, <1>5, LaidEnd
  <1>7. PICK n \in Nat : n = Len(program)
    BY <1>2 DEF GoodProgram, IsSequence
  <1>8. CASE s < n
    <2>1. at' = << s + 1, 0 >> /\ pc' = "layout"
      BY <1>1, <1>5, <1>7, <1>8
    <2>2. LaidState(l, at)'
      BY <1>6, <2>1 DEF LaidState
    <2>3. Phase(l)'
      BY <1>1, <1>4, <2>1, <2>2 DEF Phase
    <2> QED
      BY <1>1, <1>2, <1>3, <2>1, <2>3 DEF AssemblerInv
  <1>9. CASE ~(s < n)
    <2>1. at' = << 1, 1 >> /\ pc' = "fill"
      BY <1>1, <1>5, <1>7, <1>9
    <2>2. s + 1 = n + 1 /\ n >= 1
      BY <1>6, <1>7, <1>9
    <2>3. AtEnd(program') = << s + 1, 0 >>
      BY <1>1, <1>7, <2>2 DEF AtEnd
    <2>4. LaidState(l, AtEnd(program))'
      BY <1>6, <2>3 DEF LaidState
    <2>5. (Len(program) >= 1)' /\ GoodProgram(program)' /\ LaidOut(program, l)'
      BY <1>1, <1>2, <1>3, <1>7, <2>2
    <2>6. FillState(l, 1)'
      BY <2>4, <2>5, FillingNext DEF Filling
    <2>7. FillState(l, at[1])'
      BY <2>1, <2>6 DEF FillState
    <2>8. Phase(l)'
      BY <1>1, <1>4, <2>1, <2>7 DEF Phase
    <2> QED
      BY <1>1, <1>2, <1>3, <2>1, <2>8 DEF AssemblerInv
  <1> QED
    BY <1>8, <1>9

LEMMA InvFillBlock ==
    ASSUME AssemblerInv, FillBlock
    PROVE  AssemblerInv'
  <1>1. pc = "fill"
    BY DEF FillBlock
  <1>2. GoodProgram(program) /\ format \in {"BINARY", "ELF"}
    BY DEF AssemblerInv
  <1>3. PICK l : LaidOut(program, l) /\ Phase(l)
    BY DEF AssemblerInv
  <1>4. PICK b : b = at[1]
    OBVIOUS
  <1>5. FillState(l, b) /\ file = << >>
    BY <1>1, <1>3, <1>4 DEF Phase
  <1>6. FillState(l, b + 1)' /\ at' = << b + 1, 1 >> /\ UNCHANGED << pc, program, format, file >>
    BY <1>2, <1>3, <1>4, <1>5, FilledBlock
  <1>7. FillState(l, at[1])'
    BY <1>6 DEF FillState
  <1>8. Phase(l)'
    BY <1>1, <1>5, <1>6, <1>7 DEF Phase
  <1> QED
    BY <1>1, <1>2, <1>3, <1>6, <1>8 DEF AssemblerInv

LEMMA EmptyFlat == FlattenSeq(<< >>) = << >>
  <1>1. PICK e : e = << >> /\ IsSequence(e) /\ Len(e) = 0
    BY EmptySequence
  <1>2. IsSequences(e)
    BY <1>1 DEF IsSequences
  <1>3. PICK upto : /\ FlattenSeq(e) = upto[Len(e)]
                    /\ upto[0] = << >>
                    /\ \A k \in 1 .. Len(e) : IsSequence(upto[k]) /\ upto[k] = upto[k - 1] \o e[k]
    BY <1>2, FlattenRecursion
  <1> QED
    BY <1>1, <1>3

\* The bytes of the sections do not change once they are all in place.
LEMMA FilledIs ==
    ASSUME NEW l
    PROVE  FilledState(l) <=> FilledWith(program, l, sections, dataBlocks)
  BY DEF FilledState, FilledWith

LEMMA FilledStays ==
    ASSUME NEW l, FilledState(l), UNCHANGED << program, sections, dataBlocks >>
    PROVE  FilledState(l)'
  BY DEF FilledState

LEMMA InvEndFill ==
    ASSUME AssemblerInv, EndFill
    PROVE  AssemblerInv'
  <1>1. /\ pc = "fill" /\ pc' = "write" /\ at[1] = Len(AllBlocks(program)) + 1 /\ at' = << 1, 1 >>
        /\ UNCHANGED << program, format, sections, dataBlocks, file >>
    BY DEF EndFill
  <1>2. GoodProgram(program) /\ format \in {"BINARY", "ELF"}
    BY DEF AssemblerInv
  <1>3. PICK l : LaidOut(program, l) /\ Phase(l)
    BY DEF AssemblerInv
  <1>4. FillState(l, Len(AllBlocks(program)) + 1) /\ file = << >>
    BY <1>1, <1>3 DEF Phase
  <1>5. FilledState(l)
    BY <1>2, <1>3, <1>4, AllFilled
  <1>6. FilledState(l)'
    BY <1>1, <1>5, FilledStays
  <1>7. PICK n \in Nat : n = Len(program) /\ n >= 1
    BY <1>2, <1>5 DEF GoodProgram, IsSequence, FilledState
  <1>8. (at[1] \in 1 .. Len(program))'
    BY <1>1, <1>7
  <1>9. (file = Upto(program, sections, at[1] - 1))'
    <2>1. Upto(program', sections', 0) = << >>
      <3>1. PICK u : u = [t \in 1 .. 0 |-> DataOf(sections', t)]
        OBVIOUS
      <3>0. u = << >>
        <4>1. u = [t \in 1 .. 0 |-> u[t]]
          BY <3>1
        <4>2. IsSequence(u) /\ Len(u) = 0
          BY <4>1, FunctionSequence
        <4>3. IsSequence(<< >>) /\ Len(<< >>) = 0
          BY EmptySequence
        <4> QED
          BY <4>2, <4>3, SameSequence
      <3>2. FlattenSeq(<< >>) = << >>
        BY EmptyFlat
      <3> QED
        BY <3>0, <3>1, <3>2 DEF Upto
    <2>2. at'[1] - 1 = 0
      BY <1>1
    <2> QED
      BY <1>1, <1>4, <2>1, <2>2
  <1>10. Phase(l)'
    BY <1>1, <1>6, <1>8, <1>9 DEF Phase
  <1> QED
    BY <1>1, <1>2, <1>3, <1>10 DEF AssemblerInv

LEMMA InvWriteBinary ==
    ASSUME AssemblerInv, WriteBinary
    PROVE  AssemblerInv'
  <1>1. /\ pc = "write" /\ format = "BINARY" /\ file' = file \o DataOf(sections, at[1])
        /\ at' = << at[1] + 1, 1 >>
        /\ pc' = (IF at[1] < Len(program) THEN "write" ELSE "done")
        /\ UNCHANGED << program, format, sections, dataBlocks >>
    BY DEF WriteBinary, Data, DataOf
  <1>2. GoodProgram(program) /\ format \in {"BINARY", "ELF"}
    BY DEF AssemblerInv
  <1>3. PICK l : LaidOut(program, l) /\ Phase(l)
    BY DEF AssemblerInv
  <1>4. FilledState(l) /\ at[1] \in 1 .. Len(program) /\ file = Upto(program, sections, at[1] - 1)
    BY <1>1, <1>3 DEF Phase
  <1>5. FilledState(l)'
    BY <1>1, <1>4, FilledStays
  <1>6. SectionsHold(program, sections)
    <2>1. FilledWith(program, l, sections, dataBlocks)
      BY <1>4, FilledIs
    <2> QED
      BY <1>2, <1>3, <2>1, FilledLinked
  <1>n. PICK n \in Nat : n = Len(program)
    BY <1>2 DEF GoodProgram, IsSequence
  <1>7. PICK s \in 1 .. n : n = Len(program) /\ s = at[1]
    BY <1>4, <1>n
  <1>8. file' = Upto(program, sections, s)
    <2>1. n = Len(program)
      BY <1>7
    <2>2. Upto(program, sections, s - 1) \o DataOf(sections, s) = Upto(program, sections, s)
      BY <1>6, <2>1, UptoNext
    <2> QED
      BY <1>1, <1>4, <1>7, <2>2
  <1>9. at'[1] = s + 1 /\ at'[1] - 1 = s
    BY <1>1, <1>7
  <1>10. CASE s < n
    <2>1. pc' = "write" /\ at'[1] \in 1 .. Len(program)
      BY <1>1, <1>7, <1>9, <1>10
    <2>2. file' = Upto(program', sections', at'[1] - 1)
      BY <1>1, <1>8, <1>9
    <2>3. Phase(l)'
      BY <1>1, <1>5, <2>1, <2>2 DEF Phase
    <2> QED
      BY <1>1, <1>2, <1>3, <2>1, <2>3 DEF AssemblerInv
  <1>11. CASE ~(s < n)
    <2>1. pc' = "done" /\ s = n
      BY <1>1, <1>7, <1>11
    <2>2. file' = Upto(program', sections', Len(program'))
      BY <1>1, <1>7, <1>8, <2>1
    <2>3. format' # "ELF"
      BY <1>1
    <2>4. Phase(l)'
      BY <1>5, <2>1, <2>2, <2>3 DEF Phase
    <2> QED
      BY <1>1, <1>2, <1>3, <2>1, <2>4 DEF AssemblerInv
  <1> QED
    BY <1>10, <1>11

LEMMA InvWriteELF ==
    ASSUME AssemblerInv, WriteELF
    PROVE  AssemblerInv'
  <1>1. /\ pc = "write" /\ format = "ELF" /\ pc' = "done"
        /\ file' = ExecutableOf(program, sections)
        /\ UNCHANGED << program, format, sections, dataBlocks >>
    BY DEF WriteELF, Data, DataOf, ExecutableOf
  <1>2. GoodProgram(program) /\ format \in {"BINARY", "ELF"}
    BY DEF AssemblerInv
  <1>3. PICK l : LaidOut(program, l) /\ Phase(l)
    BY DEF AssemblerInv
  <1>4. FilledState(l)
    BY <1>1, <1>3 DEF Phase
  <1>5. FilledState(l)'
    BY <1>1, <1>4, FilledStays
  <1>6. file' = ExecutableOf(program', sections') /\ format' = "ELF"
    BY <1>1
  <1>7. Phase(l)'
    BY <1>1, <1>5, <1>6 DEF Phase
  <1> QED
    BY <1>1, <1>2, <1>3, <1>7 DEF AssemblerInv

LEMMA InvRefuse ==
    ASSUME AssemblerInv, Refuse
    PROVE  AssemblerInv'
  <1>1. pc' = "failed" /\ UNCHANGED << program, format >>
    BY DEF Refuse
  <1>2. GoodProgram(program) /\ format \in {"BINARY", "ELF"}
    BY DEF AssemblerInv
  <1>3. PICK l : LaidOut(program, l)
    BY DEF AssemblerInv
  <1>4. Phase(l)'
    BY <1>1 DEF Phase
  <1> QED
    BY <1>1, <1>2, <1>3, <1>4 DEF AssemblerInv

LEMMA InvUnchanged ==
    ASSUME AssemblerInv, UNCHANGED assembler
    PROVE  AssemblerInv'
  <1>1. UNCHANGED << program, format, pc, at, currentOffset, sections, dataBlocks, jumpsToHere, file >>
    BY DEF assembler
  <1>2. GoodProgram(program) /\ format \in {"BINARY", "ELF"} /\ pc \in {"layout", "fill", "write", "done", "failed"}
    BY DEF AssemblerInv
  <1>3. PICK l : LaidOut(program, l) /\ Phase(l)
    BY DEF AssemblerInv
  <1>4. LaidState(l, at) => LaidState(l, at)'
    BY <1>1 DEF LaidState
  <1>5. FillState(l, at[1]) => FillState(l, at[1])'
    BY <1>1 DEF FillState
  <1>6. FilledState(l) => FilledState(l)'
    BY <1>1, FilledStays
  <1>7. Phase(l)'
    BY <1>1, <1>3, <1>4, <1>5, <1>6 DEF Phase
  <1> QED
    BY <1>1, <1>2, <1>3, <1>7 DEF AssemblerInv

LEMMA InvNext == AssemblerInv /\ [Next]_vars => AssemblerInv'
  <1> SUFFICES ASSUME AssemblerInv, [Next]_vars
               PROVE  AssemblerInv'
    OBVIOUS
  <1>1. CASE \/ StartSection \/ StartBlock \/ EmitInstruction \/ EmitData \/ EmitReference
             \/ EmitAlignment \/ EmitSkip
    BY <1>1, InvLayout
  <1>2. CASE Refuse
    BY <1>2, InvRefuse
  <1>3. CASE EndSection
    BY <1>3, InvEndSection
  <1>4. CASE FillBlock
    BY <1>4, InvFillBlock
  <1>5. CASE EndFill
    BY <1>5, InvEndFill
  <1>6. CASE WriteBinary
    BY <1>6, InvWriteBinary
  <1>7. CASE WriteELF
    BY <1>7, InvWriteELF
  <1>8. CASE Disassemble
    <2>1. UNCHANGED assembler
      BY <1>8 DEF Disassemble
    <2> QED
      BY <2>1, InvUnchanged
  <1>9. CASE UNCHANGED vars
    <2>1. UNCHANGED assembler
      BY <1>9 DEF vars
    <2> QED
      BY <2>1, InvUnchanged
  <1> QED
    BY <1>1, <1>2, <1>3, <1>4, <1>5, <1>6, <1>7, <1>8, <1>9 DEF Next

(***************************************************************************)
(* In every state the sections, the blocks and the places that wait for an *)
(* address are those of the layout, up to the item or the block the pass   *)
(* has reached, and the file is as much of them as has been written.       *)
(***************************************************************************)
THEOREM AssemblerCorrect == Spec => []AssemblerInv
  <1> QED
    BY InitInv, InvNext, PTL DEF Spec

-----------------------------------------------------------------------------
(* The refinement                                                          *)

\* What Linking sees of a state, and of the one that follows.
LEMMA Seen ==
    /\ LinkedWhere = IF pc \in {"layout", "fill", "failed"} THEN << >> ELSE WhereOf(program, sections, dataBlocks)
    /\ LinkedImage = IF pc \in {"layout", "fill", "failed"} THEN << >> ELSE ImageOf(program, sections)
    /\ LinkedOutput = IF pc # "done" THEN << >> ELSE IF format = "ELF" THEN Loaded(file) ELSE << file >>
    /\ LinkRefused = (pc = "failed")
  <1>1. LinkedWhere = IF pc \in {"layout", "fill", "failed"} THEN << >> ELSE WhereOf(program, sections, dataBlocks)
    BY DEF LinkedWhere, Unlinked, WhereOf, BlockAddress
  <1>2. LinkedImage = IF pc \in {"layout", "fill", "failed"} THEN << >> ELSE ImageOf(program, sections)
    BY DEF LinkedImage, Unlinked, ImageOf, DataOf, Data
  <1>3. LinkedOutput = IF pc # "done" THEN << >> ELSE IF format = "ELF" THEN Loaded(file) ELSE << file >>
    BY DEF LinkedOutput
  <1>4. LinkRefused = (pc = "failed")
    BY DEF LinkRefused
  <1> QED
    BY <1>1, <1>2, <1>3, <1>4

LEMMA SeenNext ==
    /\ LinkedWhere' = IF pc' \in {"layout", "fill", "failed"} THEN << >> ELSE WhereOf(program', sections', dataBlocks')
    /\ LinkedImage' = IF pc' \in {"layout", "fill", "failed"} THEN << >> ELSE ImageOf(program', sections')
    /\ LinkedOutput' = IF pc' # "done" THEN << >> ELSE IF format' = "ELF" THEN Loaded(file') ELSE << file' >>
    /\ LinkRefused' = (pc' = "failed")
  <1>1. LinkedWhere' = IF pc' \in {"layout", "fill", "failed"} THEN << >> ELSE WhereOf(program', sections', dataBlocks')
    BY DEF LinkedWhere, Unlinked, WhereOf, BlockAddress
  <1>2. LinkedImage' = IF pc' \in {"layout", "fill", "failed"} THEN << >> ELSE ImageOf(program', sections')
    BY DEF LinkedImage, Unlinked, ImageOf, DataOf, Data
  <1>3. LinkedOutput' = IF pc' # "done" THEN << >> ELSE IF format' = "ELF" THEN Loaded(file') ELSE << file' >>
    BY DEF LinkedOutput
  <1>4. LinkRefused' = (pc' = "failed")
    BY DEF LinkRefused
  <1> QED
    BY <1>1, <1>2, <1>3, <1>4

LEMMA LinkInit == Init => Linker!Init
  BY DEF Init, Linker!Init, Linker!None, LinkedWhere, LinkedImage, LinkedOutput, LinkRefused, Unlinked

\* Until the addresses are in place nothing is seen; while the file is written
\* nothing changes.
LEMMA LinkStays ==
    ASSUME \/ pc \in {"layout", "fill"} /\ pc' \in {"layout", "fill"}
           \/ pc = "write" /\ pc' = "write" /\ UNCHANGED << sections, dataBlocks >>,
           UNCHANGED << program, format >>
    PROVE  UNCHANGED Linker!vars
  <1>1. CASE pc \in {"layout", "fill"} /\ pc' \in {"layout", "fill"}
    <2>1. UNCHANGED << LinkedWhere, LinkedImage, LinkedOutput, LinkRefused >>
      BY <1>1, Seen, SeenNext
    <2> QED
      BY <2>1 DEF Linker!vars
  <1>2. CASE pc = "write" /\ pc' = "write" /\ UNCHANGED << sections, dataBlocks >>
    <2>1. UNCHANGED << LinkedWhere, LinkedImage, LinkedOutput, LinkRefused >>
      BY <1>2, Seen, SeenNext
    <2> QED
      BY <2>1 DEF Linker!vars
  <1> QED
    BY <1>1, <1>2

LEMMA LinkRefuses ==
    ASSUME AssemblerInv, Refuse
    PROVE  Linker!Refuse
  <1>1. pc = "layout" /\ pc' = "failed" /\ UNCHANGED << program, format >>
    BY DEF Refuse, InLayout
  <1>2. PICK l : LaidOut(program, l) /\ Phase(l)
    BY DEF AssemblerInv
  <1>3. LaidState(l, at) /\ GoodProgram(program)
    BY <1>1, <1>2 DEF Phase, AssemblerInv
  <1>4. ~Linker!Acceptable(program)
    BY <1>2, <1>3, RefusedRightly
  <1>5. /\ LinkedImage = << >> /\ LinkRefused = FALSE /\ LinkRefused' = TRUE
        /\ UNCHANGED << LinkedWhere, LinkedImage, LinkedOutput >>
    BY <1>1, Seen, SeenNext
  <1> QED
    BY <1>1, <1>4, <1>5 DEF Linker!Refuse, Linker!None

LEMMA LinkLinks ==
    ASSUME AssemblerInv, EndFill
    PROVE  Linker!Link
  <1>1. /\ pc = "fill" /\ pc' = "write" /\ at[1] = Len(AllBlocks(program)) + 1
        /\ UNCHANGED << program, format, sections, dataBlocks >>
    BY DEF EndFill
  <1>2. GoodProgram(program)
    BY DEF AssemblerInv
  <1>3. PICK l : LaidOut(program, l) /\ Phase(l)
    BY DEF AssemblerInv
  <1>4. FillState(l, Len(AllBlocks(program)) + 1)
    BY <1>1, <1>3 DEF Phase
  <1>5. FilledWith(program, l, sections, dataBlocks)
    <2>1. FilledState(l)
      BY <1>2, <1>3, <1>4, AllFilled
    <2> QED
      BY <2>1, FilledIs
  <1>6. /\ Linker!Linked(program, WhereOf(program, sections, dataBlocks), ImageOf(program, sections))
        /\ Linker!Acceptable(program)
    BY <1>2, <1>3, <1>5, FilledLinked
  <1>7. LinkedWhere' = WhereOf(program, sections, dataBlocks) /\ LinkedImage' = ImageOf(program, sections)
    BY <1>1, SeenNext
  <1>8. LinkedImage = << >> /\ LinkRefused = FALSE /\ UNCHANGED << LinkedOutput, LinkRefused >>
    BY <1>1, Seen, SeenNext
  <1> QED
    BY <1>1, <1>6, <1>7, <1>8 DEF Linker!Link, Linker!None

\* The step that completes the file.
LEMMA LinkWrites ==
    ASSUME AssemblerInv, pc = "write", pc' = "done", UNCHANGED << program, format, sections, dataBlocks >>,
           AssemblerInv'
    PROVE  Linker!WriteFile
  <1>1. GoodProgram(program) /\ format \in {"BINARY", "ELF"}
    BY DEF AssemblerInv
  <1>2. PICK l : LaidOut(program, l) /\ Phase(l)
    BY DEF AssemblerInv
  <1>3. FilledState(l)
    BY <1>2 DEF Phase
  <1>4. PICK n \in Nat : n = Len(program) /\ n >= 1
    BY <1>1, <1>3 DEF GoodProgram, IsSequence, FilledState
  <1>5. SectionsHold(program, sections) /\ ImageOf(program, sections) # << >>
    <2>1. FilledWith(program, l, sections, dataBlocks)
      BY <1>3, FilledIs
    <2> QED
      BY <1>1, <1>2, <2>1, FilledLinked
  <1>6. file' = IF format = "ELF" THEN ExecutableOf(program, sections) ELSE Upto(program, sections, n)
    <2>1. PICK m : Phase(m)'
      BY DEF AssemblerInv
    <2>2. file' = IF format' = "ELF" THEN ExecutableOf(program', sections') ELSE Upto(program', sections', Len(program'))
      BY <2>1 DEF Phase
    <2> QED
      BY <1>4, <2>2
  <1>7. LinkedOutput' = Linker!FileOf(program, format, ImageOf(program, sections))
    <2>1. CASE format = "ELF"
      <3>1. LinkedOutput' = Loaded(ExecutableOf(program, sections))
        BY <1>6, <2>1, SeenNext
      <3>2. Len(program) >= 1
        BY <1>4
      <3>3. Loaded(ExecutableOf(program, sections)) = Linker!FileOf(program, "ELF", ImageOf(program, sections))
        BY <1>1, <1>5, <3>2, ExecutableReads
      <3> QED
        BY <2>1, <3>1, <3>3
    <2>2. CASE format = "BINARY"
      <3>1. LinkedOutput' = << Upto(program, sections, n) >>
        BY <1>6, <2>2, SeenNext
      <3>2. n = Len(program)
        BY <1>4
      <3>3. << Upto(program, sections, n) >> = Linker!FileOf(program, "BINARY", ImageOf(program, sections))
        BY <3>2, FlatReads
      <3> QED
        BY <2>2, <3>1, <3>3
    <2> QED
      BY <1>1, <2>1, <2>2
  <1>8. LinkedImage = ImageOf(program, sections) /\ LinkedOutput = << >>
    BY Seen
  <1>9. UNCHANGED << LinkedWhere, LinkedImage, LinkRefused >>
    BY Seen, SeenNext
  <1> QED
    BY <1>5, <1>7, <1>8, <1>9 DEF Linker!WriteFile, Linker!None

LEMMA LinkNext ==
    ASSUME AssemblerInv, AssemblerInv', [Next]_vars
    PROVE  [Linker!Link \/ Linker!WriteFile \/ Linker!Refuse]_Linker!vars
  <1>1. CASE \/ StartSection \/ StartBlock \/ EmitInstruction \/ EmitData \/ EmitReference
             \/ EmitAlignment \/ EmitSkip
    <2>1. pc = "layout" /\ UNCHANGED << pc, program, format >>
      BY <1>1 DEF StartSection, StartBlock, EmitInstruction, EmitData, EmitReference, EmitAlignment, EmitSkip, InLayout
    <2> QED
      BY <2>1, LinkStays
  <1>2. CASE Refuse
    BY <1>2, LinkRefuses
  <1>3. CASE EndSection
    <2>1. pc = "layout" /\ pc' \in {"layout", "fill"} /\ UNCHANGED << program, format >>
      BY <1>3 DEF EndSection
    <2> QED
      BY <2>1, LinkStays
  <1>4. CASE FillBlock
    <2>1. pc = "fill" /\ UNCHANGED << pc, program, format >>
      BY <1>4 DEF FillBlock
    <2> QED
      BY <2>1, LinkStays
  <1>5. CASE EndFill
    BY <1>5, LinkLinks
  <1>6. CASE WriteBinary
    <2>1. pc = "write" /\ pc' \in {"write", "done"} /\ UNCHANGED << program, format, sections, dataBlocks >>
      BY <1>6 DEF WriteBinary
    <2> QED
      BY <2>1, LinkStays, LinkWrites
  <1>7. CASE WriteELF
    <2>1. pc = "write" /\ pc' = "done" /\ UNCHANGED << program, format, sections, dataBlocks >>
      BY <1>7 DEF WriteELF
    <2> QED
      BY <2>1, LinkWrites
  <1>8. CASE Disassemble \/ UNCHANGED vars
    <2>1. UNCHANGED << program, format, pc, sections, dataBlocks, file >>
      BY <1>8 DEF Disassemble, vars, assembler
    <2>2. UNCHANGED << LinkedWhere, LinkedImage, LinkedOutput, LinkRefused >>
      BY <2>1, Seen, SeenNext
    <2> QED
      BY <2>1, <2>2 DEF Linker!vars
  <1> QED
    BY <1>1, <1>2, <1>3, <1>4, <1>5, <1>6, <1>7, <1>8 DEF Next

(***************************************************************************)
(* For every program and either format the assembler does what Linking     *)
(* promises: it gives every label an address within the program's layout   *)
(* and fills it in wherever it is referred to, the file it writes reads as *)
(* that image, and it refuses only a program that Linking may refuse.      *)
(***************************************************************************)
THEOREM AssemblerImplementsLinking == Spec => ImplementsLinking
  <1>1. AssemblerInv /\ AssemblerInv' /\ [Next]_vars => [Linker!Link \/ Linker!WriteFile \/ Linker!Refuse]_Linker!vars
    BY LinkNext
  <1> QED
    BY LinkInit, AssemblerCorrect, <1>1, PTL DEF Spec, ImplementsLinking, Linker!Spec

-----------------------------------------------------------------------------
(* Sequences joined, and cut again                                         *)

\* Sequences of sequences of sequences are joined the same from the inside as from
\* the outside.
LEMMA FlattenNested ==
    ASSUME NEW x, IsSequence(x), \A k \in 1 .. Len(x) : IsSequences(x[k]),
           NEW y, IsSequence(y), Len(y) = Len(x), \A k \in 1 .. Len(x) : y[k] = FlattenSeq(x[k])
    PROVE  /\ IsSequences(FlattenSeq(x)) /\ IsSequences(y)
           /\ FlattenSeq(FlattenSeq(x)) = FlattenSeq(y)
  <1>1. PICK n \in Nat : n = Len(x) /\ n = Len(y)
    BY DEF IsSequence
  <1>2. IsSequences(x)
    BY DEF IsSequences
  <1>3. IsSequences(y)
    <2>1. \A k \in 1 .. Len(x) : IsSequence(y[k])
      BY FlattenElements
    <2> QED
      BY <2>1 DEF IsSequences
  <1>4. PICK u : /\ FlattenSeq(x) = u[n] /\ u[0] = << >>
                 /\ \A k \in 1 .. n : IsSequence(u[k]) /\ u[k] = u[k - 1] \o x[k]
    <2>1. PICK w : /\ FlattenSeq(x) = w[Len(x)] /\ w[0] = << >>
                   /\ \A k \in 1 .. Len(x) : IsSequence(w[k]) /\ w[k] = w[k - 1] \o x[k]
      BY <1>2, FlattenRecursion
    <2> QED
      BY <1>1, <2>1
  <1>5. PICK v : /\ FlattenSeq(y) = v[n] /\ v[0] = << >>
                 /\ \A k \in 1 .. n : IsSequence(v[k]) /\ v[k] = v[k - 1] \o y[k]
    <2>1. PICK w : /\ FlattenSeq(y) = w[Len(y)] /\ w[0] = << >>
                   /\ \A k \in 1 .. Len(y) : IsSequence(w[k]) /\ w[k] = w[k - 1] \o y[k]
      BY <1>3, FlattenRecursion
    <2> QED
      BY <1>1, <2>1
  <1> DEFINE T == {m \in 0 .. n : IsSequences(u[m]) /\ FlattenSeq(u[m]) = v[m]}
  <1>6. 0 \in T
    <2>1. IsSequences(<< >>)
      BY EmptySequence DEF IsSequences
    <2> QED
      BY <1>4, <1>5, <2>1, EmptyFlat
  <1>7. \A m \in 0 .. (n - 1) : m \in T => m + 1 \in T
    <2>1. SUFFICES ASSUME NEW m \in 0 .. (n - 1), m \in T
                   PROVE  m + 1 \in T
      OBVIOUS
    <2>2. PICK k \in 1 .. n : k = m + 1 /\ k - 1 = m
      OBVIOUS
    <2>3. PICK a, b, c : a = u[m] /\ b = x[k] /\ c = v[m]
      OBVIOUS
    <2>4. IsSequences(a) /\ IsSequences(b) /\ FlattenSeq(a) = c
      BY <1>1, <2>1, <2>2, <2>3
    <2>5. IsSequences(a \o b) /\ FlattenSeq(a \o b) = c \o FlattenSeq(b)
      BY <2>4, FlattenConcat
    <2>6. u[k] = a \o b
      BY <1>4, <2>2, <2>3
    <2>7. v[k] = c \o FlattenSeq(b)
      BY <1>1, <1>5, <2>2, <2>3
    <2> QED
      <3>1. IsSequences(u[k]) /\ FlattenSeq(u[k]) = v[k]
        BY <2>5, <2>6, <2>7
      <3>2. m + 1 = k /\ k \in 0 .. n
        BY <2>2
      <3> QED
        BY <3>1, <3>2
  <1> HIDE DEF T
  <1>8. 0 .. n \subseteq T
    BY <1>6, <1>7, Induction
  <1>9. IsSequences(u[n]) /\ FlattenSeq(u[n]) = v[n]
    BY <1>8 DEF T
  <1> QED
    BY <1>3, <1>4, <1>5, <1>9

\* Sequences of the same lengths, joined, correspond place by place.
SameLengths(t, y) == Len(y) = Len(t) /\ \A k \in 1 .. Len(t) : Len(y[k]) = Len(t[k])

Alike(t, y) ==
    /\ Len(FlattenSeq(y)) = Len(FlattenSeq(t))
    /\ \A i \in 1 .. Len(FlattenSeq(t)) :
          \E k \in 1 .. Len(t) : \E j \in 1 .. Len(t[k]) :
             FlattenSeq(t)[i] = t[k][j] /\ FlattenSeq(y)[i] = y[k][j]

LEMMA FlattenAlike ==
    ASSUME NEW t, NEW y, IsSequences(t), IsSequences(y), SameLengths(t, y)
    PROVE  Alike(t, y)
  <1>0. Len(y) = Len(t) /\ \A k \in 1 .. Len(t) : Len(y[k]) = Len(t[k])
    BY DEF SameLengths
  <1>1. PICK n \in Nat : n = Len(t) /\ n = Len(y)
    BY <1>0 DEF IsSequences, IsSequence
  <1>2. PICK end : Ends(t, end)
    BY EndsExist
  <1>3. Ends(y, end)
    <2>1. \A k \in 1 .. n : Len(y[k]) = Len(t[k])
      BY <1>0, <1>1
    <2> QED
      BY <1>1, <1>2, <2>1 DEF Ends
  <1>4. PICK f, g : f = FlattenSeq(t) /\ g = FlattenSeq(y)
    OBVIOUS
  <1>5. Len(f) = end[n] /\ \A k \in 1 .. n : \A j \in 1 .. Len(t[k]) : f[end[k - 1] + j] = t[k][j]
    <2>1. /\ Len(f) = end[Len(t)]
          /\ \A k \in 1 .. Len(t) : \A j \in 1 .. Len(t[k]) : f[end[k - 1] + j] = t[k][j]
      BY <1>2, <1>4, FlattenPlaces
    <2> QED
      BY <1>1, <2>1
  <1>6. Len(g) = end[n] /\ \A k \in 1 .. n : \A j \in 1 .. Len(t[k]) : g[end[k - 1] + j] = y[k][j]
    <2>1. /\ Len(g) = end[Len(y)]
          /\ \A k \in 1 .. Len(y) : \A j \in 1 .. Len(y[k]) : g[end[k - 1] + j] = y[k][j]
      BY <1>3, <1>4, FlattenPlaces
    <2>2. \A k \in 1 .. n : Len(y[k]) = Len(t[k])
      BY <1>0, <1>1
    <2> QED
      BY <1>1, <2>1, <2>2
  <1>7. ASSUME NEW i \in 1 .. Len(f)
        PROVE  \E k \in 1 .. n : \E j \in 1 .. Len(t[k]) : f[i] = t[k][j] /\ g[i] = y[k][j]
    <2>1. i \in 1 .. end[Len(t)]
      BY <1>1, <1>5
    <2>2. \E k \in 1 .. Len(t) : \E j \in 1 .. Len(t[k]) : i = end[k - 1] + j
      BY <1>2, <2>1, EndsFind
    <2>3. PICK k \in 1 .. n : \E j \in 1 .. Len(t[k]) : i = end[k - 1] + j
      BY <1>1, <2>2
    <2>4. PICK j \in 1 .. Len(t[k]) : i = end[k - 1] + j
      BY <2>3
    <2>5. f[i] = t[k][j] /\ g[i] = y[k][j]
      BY <1>5, <1>6, <2>4
    <2> QED
      BY <2>5
  <1> QED
    BY <1>1, <1>4, <1>5, <1>6, <1>7 DEF Alike

\* A sequence as long as others joined, cut where they end.
LEMMA Recut ==
    ASSUME NEW c, IsSequences(c), NEW e, Ends(c, e), NEW L, IsSequence(L), Len(L) = e[Len(c)],
           NEW P, IsSequences(P), Len(P) = Len(c),
           \A k \in 1 .. Len(c) : /\ Len(P[k]) = Len(c[k])
                                  /\ \A j \in 1 .. Len(c[k]) : P[k][j] = L[e[k - 1] + j]
    PROVE  FlattenSeq(P) = L
  <1>1. PICK n \in Nat : n = Len(c) /\ n = Len(P)
    BY DEF IsSequences, IsSequence
  <1>2. \A k \in 1 .. n : Len(P[k]) = Len(c[k])
    BY <1>1
  <1>3. Ends(P, e)
    BY <1>1, <1>2 DEF Ends
  <1>4. PICK f : f = FlattenSeq(P)
    OBVIOUS
  <1>5. IsSequence(f) /\ Len(f) = e[n] /\ \A k \in 1 .. n : \A j \in 1 .. Len(c[k]) : f[e[k - 1] + j] = P[k][j]
    <2>1. /\ IsSequence(f) /\ Len(f) = e[Len(P)]
          /\ \A k \in 1 .. Len(P) : \A j \in 1 .. Len(P[k]) : f[e[k - 1] + j] = P[k][j]
      BY <1>3, <1>4, FlattenPlaces
    <2> QED
      BY <1>1, <1>2, <2>1
  <1>6. ASSUME NEW i \in 1 .. Len(f)
        PROVE  f[i] = L[i]
    <2>1. i \in 1 .. e[Len(c)]
      BY <1>1, <1>5
    <2>2. \E k \in 1 .. Len(c) : \E j \in 1 .. Len(c[k]) : i = e[k - 1] + j
      BY <2>1, EndsFind
    <2>3. PICK k \in 1 .. n : \E j \in 1 .. Len(c[k]) : i = e[k - 1] + j
      BY <1>1, <2>2
    <2>4. PICK j \in 1 .. Len(c[k]) : i = e[k - 1] + j
      BY <2>3
    <2>5. f[i] = P[k][j]
      BY <1>5, <2>4
    <2>6. P[k][j] = L[e[k - 1] + j]
      BY <1>1
    <2> QED
      BY <2>4, <2>5, <2>6
  <1>7. Len(f) = Len(L)
    BY <1>1, <1>5
  <1> QED
    BY <1>4, <1>5, <1>6, <1>7, SameSequence

-----------------------------------------------------------------------------
(* A flat file, item by item                                               *)

\* What an item of a block and the bytes at its place have to do with each other, as
\* far as the decoder will tell.
CarriesItem(item, bytes, p, where) ==
    /\ Good(item, ToSet(AllBlocks(p)))
    /\ IsSequence(bytes)
    /\ item.kind = "ins" =>
          /\ Encodable(item.ins)
          /\ bytes = Linker!Addressed(EncodeInstruction(item.ins, Stale), where)

LEMMA ItemCarried ==
    ASSUME NEW item, NEW p, NEW where, NEW a, Good(item, ToSet(AllBlocks(p))), Linker!Accepted(item),
           IsSequence(Linker!ItemBytes(item, a, where))
    PROVE  CarriesItem(item, Linker!ItemBytes(item, a, where), p, where)
  <1>1. ASSUME item.kind = "ins"
        PROVE  /\ Encodable(item.ins)
               /\ Linker!ItemBytes(item, a, where) = Linker!Addressed(EncodeInstruction(item.ins, Stale), where)
    <2>1. Linker!Encodable(item.ins)
      BY <1>1 DEF Linker!Accepted
    <2>2. Encodable(item.ins)
      BY <2>1, SameEncodable
    <2> QED
      BY <1>1, <2>2, SameEncoding DEF Linker!ItemBytes
  <1> QED
    BY <1>1 DEF CarriesItem

\* The bytes of the items of a section, block by block, without the marks at which
\* the blocks begin.
BlocksCarried(p, s, where, Q) ==
    /\ IsSequence(Q) /\ Len(Q) = Len(BlocksOf(p, s))
    /\ \A k \in 1 .. Len(BlocksOf(p, s)) :
          /\ IsSequences(Q[k]) /\ Len(Q[k]) = Len(BlockAt(p, BlocksOf(p, s)[k]))
          /\ \A j \in 1 .. Len(Q[k]) : CarriesItem(BlockAt(p, BlocksOf(p, s)[k])[j], Q[k][j], p, where)

LEMMA SectionCarried ==
    ASSUME NEW p, GoodProgram(p), AllAccepted(p), NEW l, LaidOut(p, l), NEW s \in 1 .. Len(p), NEW where
    PROVE  \E Q : /\ BlocksCarried(p, s, where, Q)
                  /\ FlattenSeq(LinkedItems(p, l, s, where)) = FlattenSeq(FlattenSeq(Q))
  <1>1. PICK n \in Nat : n = Len(BlocksOf(p, s))
    BY SectionNames DEF IsSequence
  <1>2. PICK c, L, items : c = Chunks(p, s) /\ L = LinkedItems(p, l, s, where) /\ items = Enumerated(p, s)
    OBVIOUS
  <1> DEFINE b(k) == BlockAt(p, BlocksOf(p, s)[k])
  <1>3. /\ IsSequences(c) /\ Len(c) = n /\ items = FlattenSeq(c)
        /\ \A k \in 1 .. n : ChunkOf(c[k], BlocksOf(p, s)[k], b(k))
    BY <1>1, <1>2, ChunksGood
  <1>4. \A k \in 1 .. n : \A i \in 1 .. Len(b(k)) : Good(b(k)[i], ToSet(AllBlocks(p)))
    BY <1>1, BlockGood
  <1>5. \A i \in 1 .. Len(items) : Linker!Accepted(items[i])
    BY <1>2 DEF AllAccepted
  <1>6. IsSequences(L) /\ Len(L) = Len(items)
    BY <1>2, <1>5, LinkedJoined
  <1>7. \A i \in 1 .. Len(items) : L[i] = Linker!ItemBytes(items[i], l.start[s] + l.end[s][i - 1], where)
    BY <1>2 DEF LinkedItems
  <1>8. PICK e : Ends(c, e)
    BY <1>3, EndsExist
  <1>9. /\ Len(items) = e[n]
        /\ \A k \in 1 .. n : \A j \in 1 .. Len(c[k]) : items[e[k - 1] + j] = c[k][j]
    <2>1. /\ Len(items) = e[Len(c)]
          /\ \A k \in 1 .. Len(c) : \A j \in 1 .. Len(c[k]) : items[e[k - 1] + j] = c[k][j]
      BY <1>3, <1>8, FlattenPlaces
    <2> QED
      BY <1>3, <2>1
  <1> HIDE DEF b
  <1>10. ASSUME NEW k \in 1 .. n
         PROVE  /\ Len(c[k]) = 1 + Len(b(k)) /\ Len(b(k)) \in Nat
                /\ \A j \in 1 .. Len(c[k]) : e[k - 1] + j \in 1 .. Len(items)
                /\ c[k][1].kind = "begin"
                /\ \A j \in 1 .. Len(b(k)) : c[k][1 + j] = b(k)[j]
    <2>1. ChunkOf(c[k], BlocksOf(p, s)[k], b(k))
      BY <1>3
    <2>2. PICK m \in Nat : Len(b(k)) = m /\ Len(c[k]) = 1 + m
      BY <2>1 DEF ChunkOf, IsSequence
    <2>3. e[k - 1] \in Nat /\ e[k] = e[k - 1] + Len(c[k]) /\ e[k] <= e[n] /\ e[n] \in Nat
      <3>1. /\ \A i \in 0 .. Len(c) : e[i] \in Nat
            /\ \A i \in 1 .. Len(c) : e[i] = e[i - 1] + Len(c[i])
        BY <1>3, <1>8, EndsTyped
      <3>2. k \in 0 .. Len(c) /\ Len(c) \in 0 .. Len(c) /\ k <= Len(c) /\ k - 1 \in 0 .. Len(c) /\ k \in 1 .. Len(c)
        BY <1>3
      <3>3. e[k] <= e[Len(c)]
        BY <1>3, <1>8, <3>2, EndsGrow
      <3> QED
        BY <1>3, <3>1, <3>2, <3>3
    <2>4. \A j \in 1 .. Len(c[k]) : e[k - 1] + j \in 1 .. Len(items)
      <3>1. PICK x \in Nat, y \in Nat, z \in Nat : x = e[k - 1] /\ y = e[k] /\ z = Len(items)
        BY <1>9, <2>2, <2>3
      <3>2. y = x + (1 + m) /\ y <= z
        BY <1>9, <2>2, <2>3, <3>1
      <3>3. \A j \in 1 .. (1 + m) : x + j \in 1 .. z
        BY <3>2
      <3>4. Len(c[k]) = 1 + m /\ e[k - 1] = x /\ Len(items) = z
        BY <2>2, <3>1
      <3> QED
        BY <3>3, <3>4
    <2>5. c[k][1] = BeginOf(BlocksOf(p, s)[k]) /\ \A j \in 1 .. Len(b(k)) : c[k][1 + j] = b(k)[j]
      BY <2>1 DEF ChunkOf
    <2>6. c[k][1].kind = "begin"
      BY <2>5 DEF BeginOf
    <2> QED
      BY <2>2, <2>4, <2>5, <2>6
  <1>11. \A i \in 1 .. Len(items) : IsSequence(L[i])
    BY <1>6 DEF IsSequences
  <1> DEFINE P == [k \in 1 .. n |-> [j \in 1 .. Len(c[k]) |-> L[e[k - 1] + j]]]
             Q == [k \in 1 .. n |-> [j \in 1 .. Len(b(k)) |-> L[e[k - 1] + (1 + j)]]]
  <1>12. /\ IsSequence(P) /\ Len(P) = n
         /\ \A k \in 1 .. n : P[k] = [j \in 1 .. Len(c[k]) |-> L[e[k - 1] + j]]
    <2>1. P = [k \in 1 .. n |-> P[k]] /\ \A k \in 1 .. n : P[k] = [j \in 1 .. Len(c[k]) |-> L[e[k - 1] + j]]
      OBVIOUS
    <2> HIDE DEF P
    <2> QED
      BY <2>1, FunctionSequence
  <1>13. /\ IsSequence(Q) /\ Len(Q) = n
         /\ \A k \in 1 .. n : Q[k] = [j \in 1 .. Len(b(k)) |-> L[e[k - 1] + (1 + j)]]
    <2>1. Q = [k \in 1 .. n |-> Q[k]] /\ \A k \in 1 .. n : Q[k] = [j \in 1 .. Len(b(k)) |-> L[e[k - 1] + (1 + j)]]
      OBVIOUS
    <2> HIDE DEF Q
    <2> QED
      BY <2>1, FunctionSequence
  <1> HIDE DEF P, Q
  <1>14. ASSUME NEW k \in 1 .. n
         PROVE  /\ IsSequences(P[k]) /\ Len(P[k]) = Len(c[k])
                /\ \A j \in 1 .. Len(c[k]) : P[k][j] = L[e[k - 1] + j]
                /\ IsSequences(Q[k]) /\ Len(Q[k]) = Len(b(k))
                /\ \A j \in 1 .. Len(b(k)) : Q[k][j] = L[e[k - 1] + (1 + j)]
    <2>1. PICK m \in Nat : Len(b(k)) = m /\ Len(c[k]) = 1 + m
      BY <1>10
    <2>2. PICK x : x = e[k - 1]
      OBVIOUS
    <2>3. PICK u, v : u = P[k] /\ v = Q[k]
      OBVIOUS
    <2>4. u = [j \in 1 .. 1 + m |-> L[x + j]] /\ v = [j \in 1 .. m |-> L[x + (1 + j)]]
      BY <1>12, <1>13, <2>1, <2>2, <2>3
    <2>5. \A j \in 1 .. 1 + m : IsSequence(L[x + j])
      BY <1>10, <1>11, <2>1, <2>2
    <2>6. IsSequence(u) /\ Len(u) = 1 + m /\ \A j \in 1 .. 1 + m : u[j] = L[x + j]
      <3>1. u = [j \in 1 .. 1 + m |-> u[j]] /\ \A j \in 1 .. 1 + m : u[j] = L[x + j]
        BY <2>4
      <3>2. 1 + m \in Nat
        BY <2>1
      <3> QED
        BY <3>1, <3>2, FunctionSequence
    <2>7. IsSequence(v) /\ Len(v) = m /\ \A j \in 1 .. m : v[j] = L[x + (1 + j)]
      <3>1. v = [j \in 1 .. m |-> v[j]] /\ \A j \in 1 .. m : v[j] = L[x + (1 + j)]
        BY <2>4
      <3> QED
        BY <3>1, FunctionSequence
    <2>8. IsSequences(u)
      BY <2>5, <2>6 DEF IsSequences
    <2>9. IsSequences(v)
      <3>1. \A j \in 1 .. m : 1 + j \in 1 .. 1 + m
        OBVIOUS
      <3>2. \A j \in 1 .. m : IsSequence(v[j])
        BY <2>5, <2>7, <3>1
      <3> QED
        BY <2>7, <3>2 DEF IsSequences
    <2> QED
      BY <2>1, <2>2, <2>3, <2>6, <2>7, <2>8, <2>9
  <1>15. FlattenSeq(P) = L
    <2>1. IsSequences(P)
      BY <1>12, <1>14 DEF IsSequences
    <2>2. IsSequence(L) /\ Len(L) = e[Len(c)] /\ Len(P) = Len(c)
      BY <1>3, <1>6, <1>9, <1>12 DEF IsSequences
    <2>3. \A k \in 1 .. Len(c) : /\ Len(P[k]) = Len(c[k])
                                 /\ \A j \in 1 .. Len(c[k]) : P[k][j] = L[e[k - 1] + j]
      BY <1>3, <1>14
    <2>4. IsSequences(c) /\ Ends(c, e)
      BY <1>3, <1>8
    <2>5. IsSequence(L) /\ Len(L) = e[Len(c)]
      BY <2>2
    <2>6. Len(P) = Len(c)
      BY <2>2
    <2> QED
      BY <2>1, <2>3, <2>4, <2>5, <2>6, Recut
  <1>16. ASSUME NEW k \in 1 .. n
         PROVE  FlattenSeq(P[k]) = FlattenSeq(Q[k])
    <2>1. PICK m \in Nat : Len(b(k)) = m /\ Len(c[k]) = 1 + m
      BY <1>10
    <2>2. PICK u, v, x : u = P[k] /\ v = Q[k] /\ x = e[k - 1]
      OBVIOUS
    <2>3. /\ IsSequences(u) /\ Len(u) = 1 + m /\ \A j \in 1 .. 1 + m : u[j] = L[x + j]
          /\ IsSequences(v) /\ Len(v) = m /\ \A j \in 1 .. m : v[j] = L[x + (1 + j)]
      BY <1>14, <2>1, <2>2
    <2>4. u[1] = << >>
      <3>1. x + 1 \in 1 .. Len(items) /\ items[x + 1].kind = "begin"
        <4>1. 1 \in 1 .. Len(c[k])
          BY <2>1
        <4>2. e[k - 1] + 1 \in 1 .. Len(items) /\ c[k][1].kind = "begin"
          BY <1>10, <4>1
        <4>3. items[e[k - 1] + 1] = c[k][1]
          BY <1>9, <4>1
        <4> QED
          BY <2>2, <4>2, <4>3
      <3>2. L[x + 1] = Linker!ItemBytes(items[x + 1], l.start[s] + l.end[s][(x + 1) - 1], where)
        BY <1>7, <3>1
      <3>3. L[x + 1] = << >>
        <4>1. PICK it, a : it = items[x + 1] /\ a = l.start[s] + l.end[s][(x + 1) - 1]
          OBVIOUS
        <4>2. it.kind = "begin" /\ L[x + 1] = Linker!ItemBytes(it, a, where)
          BY <3>1, <3>2, <4>1
        <4>3. PICK z : z = it.kind
          OBVIOUS
        <4>4. z # "ins" /\ z # "raw" /\ z # "block" /\ z # "align" /\ z # "skip"
          BY <4>2, <4>3
        <4>5. Linker!ItemBytes(it, a, where) = << >>
          BY <4>3, <4>4 DEF Linker!ItemBytes
        <4> QED
          BY <4>2, <4>5
      <3>4. 1 \in 1 .. 1 + m
        OBVIOUS
      <3> QED
        BY <2>3, <3>3, <3>4
    <2>5. PICK o : o = << << >> >>
      OBVIOUS
    <2>6. IsSequence(o) /\ Len(o) = 1 /\ o[1] = << >> /\ IsSequences(o) /\ FlattenSeq(o) = << >>
      BY <2>5, SingleSequence, EmptySequence, FlattenOne
    <2>7. u = o \o v
      <3>1. IsSequence(v) /\ IsSequence(u)
        BY <2>3 DEF IsSequences
      <3>2. PICK w : w = o \o v
        OBVIOUS
      <3>3. /\ IsSequence(w) /\ Len(w) = 1 + m /\ w[1] = << >>
            /\ \A i \in 1 .. m : w[1 + i] = v[i]
        <4>1. /\ IsSequence(w) /\ Len(w) = Len(o) + Len(v)
              /\ \A i \in 1 .. Len(o) : w[i] = o[i]
              /\ \A i \in 1 .. Len(v) : w[Len(o) + i] = v[i]
          <5>1. IsSequence(o) /\ IsSequence(v)
            BY <2>6, <3>1
          <5> QED
            BY <3>2, <5>1, ConcatSequence
        <4>2. Len(o) = 1 /\ o[1] = << >> /\ Len(v) = m /\ 1 \in 1 .. 1
          BY <2>3, <2>6
        <4> QED
          BY <4>1, <4>2
      <3>4. ASSUME NEW i \in 1 .. 1 + m
            PROVE  u[i] = w[i]
        <4>1. CASE i = 1
          BY <2>4, <3>3, <4>1
        <4>2. CASE i # 1
          <5>1. PICK j \in 1 .. m : i = 1 + j
            <6>1. i - 1 \in 1 .. m /\ i = 1 + (i - 1)
              BY <4>2
            <6> QED
              BY <6>1
          <5>2. u[1 + j] = L[x + (1 + j)] /\ v[j] = L[x + (1 + j)] /\ w[1 + j] = v[j]
            BY <2>3, <3>3, <5>1
          <5> QED
            BY <5>1, <5>2
        <4> QED
          BY <4>1, <4>2
      <3> QED
        BY <2>3, <3>1, <3>2, <3>3, <3>4, SameSequence
    <2>8. FlattenSeq(o \o v) = FlattenSeq(o) \o FlattenSeq(v)
      BY <2>3, <2>6, FlattenConcat
    <2>9. IsSequence(FlattenSeq(v))
      BY <2>3, FlattenElements
    <2>10. << >> \o FlattenSeq(v) = FlattenSeq(v)
      BY <2>9, ConcatEmpty
    <2> QED
      BY <2>2, <2>6, <2>7, <2>8, <2>10
  <1>17. FlattenSeq(L) = FlattenSeq(FlattenSeq(Q))
    <2>1. PICK y : y = [k \in 1 .. n |-> FlattenSeq(P[k])]
      OBVIOUS
    <2>2. IsSequence(y) /\ Len(y) = n /\ \A k \in 1 .. n : y[k] = FlattenSeq(P[k]) /\ y[k] = FlattenSeq(Q[k])
      <3>1. y = [k \in 1 .. n |-> y[k]] /\ \A k \in 1 .. n : y[k] = FlattenSeq(P[k])
        BY <2>1
      <3> QED
        BY <1>16, <3>1, FunctionSequence
    <2>3. FlattenSeq(FlattenSeq(P)) = FlattenSeq(y)
      <3>1. IsSequence(P) /\ Len(y) = Len(P) /\ \A k \in 1 .. Len(P) : IsSequences(P[k]) /\ y[k] = FlattenSeq(P[k])
        BY <1>12, <1>14, <2>2
      <3> QED
        BY <2>2, <3>1, FlattenNested
    <2>4. FlattenSeq(FlattenSeq(Q)) = FlattenSeq(y)
      <3>1. IsSequence(Q) /\ Len(y) = Len(Q) /\ \A k \in 1 .. Len(Q) : IsSequences(Q[k]) /\ y[k] = FlattenSeq(Q[k])
        BY <1>13, <1>14, <2>2
      <3> QED
        BY <2>2, <3>1, FlattenNested
    <2> QED
      BY <1>15, <2>3, <2>4
  <1>18. ASSUME NEW k \in 1 .. n, NEW j \in 1 .. Len(b(k))
         PROVE  CarriesItem(b(k)[j], Q[k][j], p, where)
    <2>1. PICK i : i = e[k - 1] + (1 + j)
      OBVIOUS
    <2>2. i \in 1 .. Len(items) /\ items[i] = b(k)[j]
      <3>1. 1 + j \in 1 .. Len(c[k])
        BY <1>10
      <3> QED
        BY <1>9, <1>10, <2>1, <3>1
    <2>3. Q[k][j] = L[i]
      BY <1>14, <2>1
    <2>4. Good(b(k)[j], ToSet(AllBlocks(p)))
      BY <1>4 DEF b
    <2>5. PICK a : L[i] = Linker!ItemBytes(b(k)[j], a, where)
      BY <1>7, <2>2
    <2>6. Linker!Accepted(b(k)[j]) /\ IsSequence(L[i])
      BY <1>5, <1>11, <2>2
    <2> QED
      BY <2>3, <2>4, <2>5, <2>6, ItemCarried
  <1>19. BlocksCarried(p, s, where, Q)
    <2>1. \A k \in 1 .. n : /\ IsSequences(Q[k]) /\ Len(Q[k]) = Len(b(k))
                            /\ \A j \in 1 .. Len(Q[k]) : CarriesItem(b(k)[j], Q[k][j], p, where)
      BY <1>14, <1>18
    <2> QED
      BY <1>1, <1>13, <2>1 DEF BlocksCarried, b
  <1> QED
    BY <1>2, <1>17, <1>19

\* The items of a program, the marks of its blocks left out.
ItemsOf(p) == FlattenSeq([k \in 1 .. Len(AllBlocks(p)) |-> BlockAt(p, AllBlocks(p)[k])])

\* The items of a program and the bytes of its sections, block by block.
BlockItems(p, s) == [k \in 1 .. Len(BlocksOf(p, s)) |-> BlockAt(p, BlocksOf(p, s)[k])]

LEMMA BlockItemsAre ==
    ASSUME NEW p, GoodProgram(p), NEW s \in 1 .. Len(p)
    PROVE  /\ IsSequences(BlockItems(p, s)) /\ Len(BlockItems(p, s)) = Len(BlocksOf(p, s))
           /\ IsSequence(BlocksOf(p, s))
           /\ \A k \in 1 .. Len(BlocksOf(p, s)) : BlockItems(p, s)[k] = BlockAt(p, BlocksOf(p, s)[k])
  <1>1. IsSequence(BlocksOf(p, s))
    BY SectionNames
  <1>2. PICK m \in Nat : m = Len(BlocksOf(p, s))
    BY <1>1 DEF IsSequence
  <1>3. PICK y : y = BlockItems(p, s)
    OBVIOUS
  <1>4. y = [k \in 1 .. m |-> y[k]] /\ \A k \in 1 .. m : y[k] = BlockAt(p, BlocksOf(p, s)[k])
    BY <1>2, <1>3 DEF BlockItems
  <1>5. IsSequence(y) /\ Len(y) = m
    BY <1>4, FunctionSequence
  <1>6. \A k \in 1 .. m : IsSequence(y[k])
    <2>1. \A k \in 1 .. Len(BlocksOf(p, s)) : IsSequence(BlockAt(p, BlocksOf(p, s)[k]))
      BY BlockGood
    <2> QED
      BY <1>2, <1>4, <2>1
  <1> QED
    BY <1>1, <1>2, <1>3, <1>4, <1>5, <1>6 DEF IsSequences

LEMMA SectionItems ==
    ASSUME NEW p, GoodProgram(p)
    PROVE  \A s \in 1 .. Len(p) : IsSequences(BlockItems(p, s))
  BY BlockItemsAre

\* The items of a program are those of its sections, one after the other.
LEMMA ItemsJoined ==
    ASSUME NEW p, GoodProgram(p), NEW J, IsSequence(J), Len(J) = Len(p),
           \A s \in 1 .. Len(p) : J[s] = FlattenSeq(BlockItems(p, s))
    PROVE  ItemsOf(p) = FlattenSeq(J)
  <1>1. PICK n \in Nat : n = Len(p)
    BY DEF IsSequence
  <1>2. PICK x : x = [s \in 1 .. n |-> BlockItems(p, s)]
    OBVIOUS
  <1>3. IsSequence(x) /\ Len(x) = n /\ \A s \in 1 .. n : x[s] = BlockItems(p, s)
    <2>1. x = [s \in 1 .. n |-> x[s]] /\ \A s \in 1 .. n : x[s] = BlockItems(p, s)
      BY <1>2
    <2> QED
      BY <2>1, FunctionSequence
  <1>4. PICK t : t = [s \in 1 .. n |-> BlocksOf(p, s)]
    OBVIOUS
  <1>5. IsSequence(t) /\ Len(t) = n /\ \A s \in 1 .. n : t[s] = BlocksOf(p, s)
    <2>1. t = [s \in 1 .. n |-> t[s]] /\ \A s \in 1 .. n : t[s] = BlocksOf(p, s)
      BY <1>4
    <2> QED
      BY <2>1, FunctionSequence
  <1>6. ASSUME NEW s \in 1 .. n
        PROVE  /\ IsSequences(x[s]) /\ IsSequence(t[s]) /\ Len(x[s]) = Len(t[s])
               /\ \A k \in 1 .. Len(t[s]) : x[s][k] = BlockAt(p, t[s][k])
    BY <1>1, <1>3, <1>5, BlockItemsAre
  <1>7. IsSequences(t)
    BY <1>5, <1>6 DEF IsSequences
  <1>8. IsSequences(x)
    BY <1>3, <1>6 DEF IsSequences
  <1>9. PICK f, g : f = FlattenSeq(t) /\ g = FlattenSeq(x)
    OBVIOUS
  <1>10. f = AllBlocks(p)
    BY <1>1, <1>4, <1>9 DEF AllBlocks
  <1>11. IsSequence(f) /\ IsSequence(g)
    BY <1>7, <1>8, <1>9, FlattenElements
  <1>12. /\ Len(g) = Len(f)
         /\ \A i \in 1 .. Len(f) : \E s \in 1 .. n : \E k \in 1 .. Len(t[s]) : f[i] = t[s][k] /\ g[i] = x[s][k]
    <2>1. Len(x) = Len(t) /\ \A s \in 1 .. Len(t) : Len(x[s]) = Len(t[s])
      BY <1>3, <1>5, <1>6
    <2>2. SameLengths(t, x)
      BY <2>1 DEF SameLengths
    <2>3. Alike(t, x)
      BY <1>7, <1>8, <2>2, FlattenAlike
    <2> QED
      BY <1>5, <1>9, <2>3 DEF Alike
  <1>13. PICK m \in Nat : m = Len(f) /\ m = Len(g)
    BY <1>11, <1>12 DEF IsSequence
  <1>14. \A i \in 1 .. m : g[i] = BlockAt(p, f[i])
    <2>1. SUFFICES ASSUME NEW i \in 1 .. m
                   PROVE  g[i] = BlockAt(p, f[i])
      OBVIOUS
    <2>2. \E s \in 1 .. n : \E k \in 1 .. Len(t[s]) : f[i] = t[s][k] /\ g[i] = x[s][k]
      BY <1>12, <1>13
    <2>3. PICK s \in 1 .. n : \E k \in 1 .. Len(t[s]) : f[i] = t[s][k] /\ g[i] = x[s][k]
      BY <2>2
    <2>4. PICK k \in 1 .. Len(t[s]) : f[i] = t[s][k] /\ g[i] = x[s][k]
      BY <2>3
    <2>5. x[s][k] = BlockAt(p, t[s][k])
      BY <1>6
    <2> QED
      BY <2>4, <2>5
  <1>15. PICK h : h = [k \in 1 .. m |-> BlockAt(p, f[k])]
    OBVIOUS
  <1>16. g = h
    <2>1. h = [k \in 1 .. m |-> h[k]] /\ \A k \in 1 .. m : h[k] = BlockAt(p, f[k])
      BY <1>15
    <2>2. IsSequence(h) /\ Len(h) = m
      BY <2>1, FunctionSequence
    <2>3. \A i \in 1 .. Len(g) : g[i] = h[i]
      BY <1>13, <1>14, <2>1
    <2>4. Len(g) = Len(h)
      BY <1>13, <2>2
    <2> QED
      BY <1>11, <2>2, <2>3, <2>4, SameSequence
  <1>17. ItemsOf(p) = FlattenSeq(h)
    BY <1>10, <1>13, <1>15 DEF ItemsOf
  <1>18. FlattenSeq(FlattenSeq(x)) = FlattenSeq(J)
    <2>1. \A s \in 1 .. Len(x) : IsSequences(x[s])
      BY <1>3, <1>6
    <2>2. Len(J) = Len(x) /\ \A s \in 1 .. Len(x) : J[s] = FlattenSeq(x[s])
      BY <1>1, <1>3
    <2> QED
      BY <1>3, <2>1, <2>2, FlattenNested
  <1> QED
    BY <1>9, <1>16, <1>17, <1>18

\* A flat file is the bytes of the items, one after the other.
LEMMA FileCarried ==
    ASSUME NEW p, GoodProgram(p), NEW l, LaidOut(p, l), NEW S, NEW B, FilledWith(p, l, S, B)
    PROVE  \E N : /\ IsSequences(N) /\ Len(N) = Len(ItemsOf(p))
                  /\ \A i \in 1 .. Len(N) : CarriesItem(ItemsOf(p)[i], N[i], p, Stands(p, l))
                  /\ Upto(p, S, Len(p)) = FlattenSeq(N)
  <1>1. PICK n \in Nat : n = Len(p)
    BY DEF GoodProgram, IsSequence
  <1>2. PICK where : where = Stands(p, l)
    OBVIOUS
  <1>3. AllAccepted(p)
    BY DEF FilledWith
  <1> DEFINE Fits(s, Q) == /\ BlocksCarried(p, s, where, Q)
                           /\ FlattenSeq(LinkedItems(p, l, s, where)) = FlattenSeq(FlattenSeq(Q))
  <1>4. \A s \in 1 .. n : \E Q : Fits(s, Q)
    BY <1>1, <1>3, SectionCarried
  <1> HIDE DEF Fits
  <1> DEFINE Q(s) == CHOOSE q : Fits(s, q)
  <1>5. \A s \in 1 .. n : Fits(s, Q(s))
    BY <1>4
  <1> HIDE DEF Q
  <1>6. PICK Y : Y = [s \in 1 .. n |-> FlattenSeq(Q(s))]
    OBVIOUS
  <1>7. IsSequence(Y) /\ Len(Y) = n /\ \A s \in 1 .. n : Y[s] = FlattenSeq(Q(s))
    <2>1. Y = [s \in 1 .. n |-> Y[s]] /\ \A s \in 1 .. n : Y[s] = FlattenSeq(Q(s))
      BY <1>6
    <2> QED
      BY <2>1, FunctionSequence
  <1>8. PICK J : J = [s \in 1 .. n |-> FlattenSeq(BlockItems(p, s))]
    OBVIOUS
  <1>9. IsSequence(J) /\ Len(J) = n /\ \A s \in 1 .. n : J[s] = FlattenSeq(BlockItems(p, s))
    <2>1. J = [s \in 1 .. n |-> J[s]] /\ \A s \in 1 .. n : J[s] = FlattenSeq(BlockItems(p, s))
      BY <1>8
    <2> QED
      BY <2>1, FunctionSequence
  <1>10. ASSUME NEW s \in 1 .. n
         PROVE  /\ IsSequences(Y[s]) /\ IsSequence(J[s]) /\ Len(Y[s]) = Len(J[s])
                /\ \A i \in 1 .. Len(J[s]) : CarriesItem(J[s][i], Y[s][i], p, where)
                /\ FlattenSeq(Y[s]) = DataOf(S, s)
    <2>1. PICK q, t : q = Q(s) /\ t = BlockItems(p, s)
      OBVIOUS
    <2>2. PICK m \in Nat : m = Len(BlocksOf(p, s))
      BY <1>1, BlockItemsAre DEF IsSequence
    <2>3. IsSequences(t) /\ Len(t) = m /\ \A k \in 1 .. m : t[k] = BlockAt(p, BlocksOf(p, s)[k])
      BY <1>1, <2>1, <2>2, BlockItemsAre
    <2>4. BlocksCarried(p, s, where, q) /\ FlattenSeq(LinkedItems(p, l, s, where)) = FlattenSeq(FlattenSeq(q))
      BY <1>5, <2>1 DEF Fits
    <2>5. /\ IsSequence(q) /\ Len(q) = m
          /\ \A k \in 1 .. m : /\ IsSequences(q[k]) /\ Len(q[k]) = Len(t[k])
                               /\ \A j \in 1 .. Len(q[k]) : CarriesItem(t[k][j], q[k][j], p, where)
      BY <2>2, <2>3, <2>4 DEF BlocksCarried
    <2>6. IsSequences(q)
      BY <2>5 DEF IsSequences
    <2>7. /\ Len(FlattenSeq(q)) = Len(FlattenSeq(t))
          /\ \A i \in 1 .. Len(FlattenSeq(t)) :
                \E k \in 1 .. Len(t) : \E j \in 1 .. Len(t[k]) :
                   FlattenSeq(t)[i] = t[k][j] /\ FlattenSeq(q)[i] = q[k][j]
      <3>1. Len(q) = Len(t) /\ \A k \in 1 .. Len(t) : Len(q[k]) = Len(t[k])
        BY <2>3, <2>5
      <3>2. SameLengths(t, q)
        BY <3>1 DEF SameLengths
      <3>3. Alike(t, q)
        BY <2>3, <2>6, <3>2, FlattenAlike
      <3> QED
        BY <3>3 DEF Alike
    <2>8. Y[s] = FlattenSeq(q) /\ J[s] = FlattenSeq(t)
      BY <1>7, <1>9, <2>1
    <2>9. IsSequence(J[s])
      BY <2>3, <2>8, FlattenElements
    <2>10. IsSequences(Y[s])
      <3>1. \A k \in 1 .. Len(q) : IsSequences(q[k])
        BY <2>5
      <3>2. PICK y : y = [k \in 1 .. m |-> FlattenSeq(q[k])]
        OBVIOUS
      <3>3. IsSequence(y) /\ Len(y) = m /\ \A k \in 1 .. m : y[k] = FlattenSeq(q[k])
        <4>1. y = [k \in 1 .. m |-> y[k]] /\ \A k \in 1 .. m : y[k] = FlattenSeq(q[k])
          BY <3>2
        <4> QED
          BY <4>1, FunctionSequence
      <3>4. Len(y) = Len(q) /\ \A k \in 1 .. Len(q) : y[k] = FlattenSeq(q[k])
        BY <2>5, <3>3
      <3>5. IsSequences(FlattenSeq(q))
        BY <2>5, <3>1, <3>3, <3>4, FlattenNested
      <3> QED
        BY <2>8, <3>5
    <2>11. ASSUME NEW i \in 1 .. Len(J[s])
           PROVE  CarriesItem(J[s][i], Y[s][i], p, where)
      <3>1. \E k \in 1 .. m : \E j \in 1 .. Len(t[k]) : J[s][i] = t[k][j] /\ Y[s][i] = q[k][j]
        BY <2>3, <2>7, <2>8
      <3>2. PICK k \in 1 .. m : \E j \in 1 .. Len(t[k]) : J[s][i] = t[k][j] /\ Y[s][i] = q[k][j]
        BY <3>1
      <3>3. PICK j \in 1 .. Len(t[k]) : J[s][i] = t[k][j] /\ Y[s][i] = q[k][j]
        BY <3>2
      <3>4. CarriesItem(t[k][j], q[k][j], p, where)
        BY <2>5
      <3> QED
        BY <3>3, <3>4
    <2>12. FlattenSeq(Y[s]) = DataOf(S, s)
      <3>1. DataOf(S, s) = FlattenSeq(LinkedItems(p, l, s, Stands(p, l)))
        BY <1>1, FilledImage
      <3> QED
        BY <1>2, <2>4, <2>8, <3>1
    <2> QED
      BY <2>7, <2>8, <2>9, <2>10, <2>11, <2>12
  <1>11. PICK N : N = FlattenSeq(Y)
    OBVIOUS
  <1>12. ItemsOf(p) = FlattenSeq(J)
    BY <1>1, <1>9, ItemsJoined
  <1>13. IsSequences(N) /\ Upto(p, S, Len(p)) = FlattenSeq(N)
    <2>1. PICK z : z = [s \in 1 .. n |-> DataOf(S, s)]
      OBVIOUS
    <2>2. IsSequence(z) /\ Len(z) = n /\ \A s \in 1 .. n : z[s] = DataOf(S, s)
      <3>1. z = [s \in 1 .. n |-> z[s]] /\ \A s \in 1 .. n : z[s] = DataOf(S, s)
        BY <2>1
      <3> QED
        BY <3>1, FunctionSequence
    <2>3. Len(z) = Len(Y) /\ \A s \in 1 .. Len(Y) : IsSequences(Y[s]) /\ z[s] = FlattenSeq(Y[s])
      BY <1>7, <1>10, <2>2
    <2>4. IsSequences(FlattenSeq(Y)) /\ FlattenSeq(FlattenSeq(Y)) = FlattenSeq(z)
      BY <1>7, <2>2, <2>3, FlattenNested
    <2>5. Upto(p, S, n) = FlattenSeq(z)
      BY <2>1 DEF Upto
    <2> QED
      BY <1>1, <1>11, <2>4, <2>5
  <1>14. /\ Len(N) = Len(FlattenSeq(J))
         /\ \A i \in 1 .. Len(FlattenSeq(J)) : CarriesItem(FlattenSeq(J)[i], N[i], p, where)
    <2>1. IsSequences(J)
      BY <1>9, <1>10 DEF IsSequences
    <2>2. IsSequences(Y)
      <3>1. \A s \in 1 .. n : IsSequence(Y[s])
        BY <1>10 DEF IsSequences
      <3> QED
        BY <1>7, <3>1 DEF IsSequences
    <2>3. Len(Y) = Len(J) /\ \A s \in 1 .. Len(J) : Len(Y[s]) = Len(J[s])
      BY <1>7, <1>9, <1>10
    <2>4. /\ Len(FlattenSeq(Y)) = Len(FlattenSeq(J))
          /\ \A i \in 1 .. Len(FlattenSeq(J)) :
                \E k \in 1 .. Len(J) : \E j \in 1 .. Len(J[k]) :
                   FlattenSeq(J)[i] = J[k][j] /\ FlattenSeq(Y)[i] = Y[k][j]
      <3>1. SameLengths(J, Y)
        BY <2>3 DEF SameLengths
      <3>2. Alike(J, Y)
        BY <2>1, <2>2, <3>1, FlattenAlike
      <3> QED
        BY <3>2 DEF Alike
    <2>5. ASSUME NEW i \in 1 .. Len(FlattenSeq(J))
          PROVE  CarriesItem(FlattenSeq(J)[i], N[i], p, where)
      <3>1. PICK k \in 1 .. Len(J) : \E j \in 1 .. Len(J[k]) : FlattenSeq(J)[i] = J[k][j] /\ FlattenSeq(Y)[i] = Y[k][j]
        BY <2>4
      <3>2. PICK j \in 1 .. Len(J[k]) : FlattenSeq(J)[i] = J[k][j] /\ FlattenSeq(Y)[i] = Y[k][j]
        BY <3>1
      <3>3. CarriesItem(J[k][j], Y[k][j], p, where)
        BY <1>9, <1>10
      <3> QED
        BY <1>11, <3>2, <3>3
    <2> QED
      BY <1>11, <2>4, <2>5
  <1> QED
    BY <1>2, <1>12, <1>13, <1>14

Endings(p) ==
    {i \in 1 .. Len(ItemsOf(p)) :
        \/ ItemsOf(p)[i].kind # "ins"
        \/ \E j \in 1 .. Len(ItemsOf(p)[i].ins.operands) : Dangling(ItemsOf(p)[i].ins.operands[j])}

CodeOf(p) == IF Endings(p) = {} THEN ItemsOf(p) ELSE SubSeq(ItemsOf(p), 1, Min(Endings(p)) - 1)

LEMMA CodeIs == Code = CodeOf(program)
  BY DEF Code, CodeOf, Endings, ItemsOf

\* The code is the items up to the first that is no instruction the decoder reads.
LEMMA CodeFound ==
    ASSUME NEW p, IsSequence(ItemsOf(p))
    PROVE  /\ IsSequence(CodeOf(p)) /\ Len(CodeOf(p)) <= Len(ItemsOf(p))
           /\ \A i \in 1 .. Len(CodeOf(p)) :
                 /\ CodeOf(p)[i] = ItemsOf(p)[i] /\ CodeOf(p)[i].kind = "ins"
                 /\ \A j \in 1 .. Len(CodeOf(p)[i].ins.operands) : ~Dangling(CodeOf(p)[i].ins.operands[j])
  <1>1. PICK items, E, c : items = ItemsOf(p) /\ E = Endings(p) /\ c = CodeOf(p)
    OBVIOUS
  <1>2. PICK n \in Nat : n = Len(items)
    BY <1>1 DEF IsSequence
  <1>3. E \subseteq 1 .. n
    BY <1>1, <1>2 DEF Endings
  <1>4. \A i \in (1 .. n) \ E : /\ items[i].kind = "ins"
                                /\ \A j \in 1 .. Len(items[i].ins.operands) : ~Dangling(items[i].ins.operands[j])
    BY <1>1, <1>2 DEF Endings
  <1>5. /\ IsSequence(c) /\ Len(c) <= n /\ Len(c) \in Nat
        /\ \A i \in 1 .. Len(c) : c[i] = items[i] /\ i \in (1 .. n) \ E
    <2>1. CASE E = {}
      <3>1. c = items
        BY <1>1, <2>1 DEF CodeOf
      <3> QED
        BY <1>1, <1>2, <2>1, <3>1
    <2>2. CASE E # {}
      <3>1. PICK m : m \in E
        BY <2>2
      <3>2. \E i \in E : \A j \in E : i <= j
        <4>1. E \in SUBSET Nat
          BY <1>3
        <4> QED
          BY <3>1, <4>1, Smallest
      <3>3. Min(E) \in E /\ \A j \in E : Min(E) <= j
        BY <3>2 DEF Min
      <3>4. PICK k \in Nat : k = Min(E) - 1 /\ k + 1 = Min(E) /\ k <= n
        <4>1. PICK x \in 1 .. n : x = Min(E)
          BY <1>3, <3>3
        <4>2. x - 1 \in Nat /\ (x - 1) + 1 = x /\ x - 1 <= n
          OBVIOUS
        <4> QED
          BY <4>1, <4>2
      <3>5. c = SubSeq(items, 1, k)
        BY <1>1, <2>2, <3>4 DEF CodeOf
      <3>6. /\ IsSequence(c) /\ Len(c) = IF 1 <= k THEN k - 1 + 1 ELSE 0
            /\ \A i \in 1 .. k - 1 + 1 : c[i] = items[1 + i - 1]
        <4>1. IsSequence(items) /\ 1 \in Int /\ k \in Int /\ 1 <= 1 /\ k <= Len(items)
          BY <1>1, <1>2, <3>4
        <4> QED
          BY <3>5, <4>1, SubSequence
      <3>7. Len(c) = k
        BY <3>6
      <3>8. \A i \in 1 .. k : i \in 1 .. k - 1 + 1 /\ 1 + i - 1 = i
        OBVIOUS
      <3>9. \A i \in 1 .. k : c[i] = items[i]
        BY <3>6, <3>8
      <3>10. \A i \in 1 .. k : i \in 1 .. n /\ i \notin E
        <4>1. \A i \in 1 .. k : i \in 1 .. n /\ ~(k + 1 <= i)
          BY <3>4
        <4> QED
          BY <3>3, <3>4, <4>1
      <3> QED
        BY <3>4, <3>6, <3>7, <3>9, <3>10
    <2> QED
      BY <2>1, <2>2
  <1>6. \A i \in 1 .. Len(c) :
           /\ c[i] = items[i] /\ c[i].kind = "ins"
           /\ \A j \in 1 .. Len(c[i].ins.operands) : ~Dangling(c[i].ins.operands[j])
    BY <1>4, <1>5
  <1> QED
    BY <1>1, <1>2, <1>5, <1>6

\* A flat file, cut into the bytes of its items.
FileParts(p, f, where, N, e) ==
    /\ IsSequences(N) /\ Len(N) = Len(ItemsOf(p)) /\ Ends(N, e) /\ f = FlattenSeq(N)
    /\ \A i \in 1 .. Len(N) : CarriesItem(ItemsOf(p)[i], N[i], p, where)

\* What the decoder should make of an item.
DecodedAs(item, where) ==
    [opcode   |-> item.ins.opcode,
     operands |-> [j \in 1 .. Len(item.ins.operands) |-> ResolvedBy(item.ins.operands[j], where)]]

\* From where an instruction begins, the decoder reads it and goes on to the next.
LEMMA NextDecoded ==
    ASSUME NEW p, IsSequence(ItemsOf(p)), Stale \in 0 .. 3,
           NEW f, NEW where, NEW N, NEW e, FileParts(p, f, where, N, e), NEW i \in 1 .. Len(CodeOf(p))
    PROVE  /\ e[i - 1] \in Nat /\ e[i - 1] < Len(f)
           /\ DecodeInstruction(f, e[i - 1]).ok
           /\ DecodeInstruction(f, e[i - 1]).next = e[i]
           /\ DecodeInstruction(f, e[i - 1]).ins = DecodedAs(CodeOf(p)[i], where)
  <1>1. PICK item, bytes : item = CodeOf(p)[i] /\ bytes = N[i]
    OBVIOUS
  <1>2. PICK n \in Nat : n = Len(N) /\ n = Len(ItemsOf(p))
    BY DEF FileParts, IsSequence
  <1>3. PICK m \in Nat : m = Len(CodeOf(p)) /\ m <= n
    BY <1>2, CodeFound DEF IsSequence
  <1>4. i \in 1 .. n /\ i - 1 \in 0 .. n /\ i \in 0 .. n
    BY <1>3
  <1>5. /\ item = ItemsOf(p)[i] /\ item.kind = "ins"
        /\ \A j \in 1 .. Len(item.ins.operands) : ~Dangling(item.ins.operands[j])
    BY <1>1, CodeFound
  <1>6. CarriesItem(item, bytes, p, where)
    BY <1>1, <1>2, <1>4, <1>5 DEF FileParts
  <1>7. PICK ins, blocks : ins = item.ins /\ blocks = ToSet(AllBlocks(p))
    OBVIOUS
  <1>8. GoodInstruction(ins, blocks)
    BY <1>5, <1>6, <1>7 DEF CarriesItem, Good
  <1>9. PICK enc : enc = EncodeInstruction(ins, Stale)
    OBVIOUS
  <1>10. Encodable(ins) /\ bytes = Linker!Addressed(enc, where) /\ IsSequence(bytes)
    BY <1>5, <1>6, <1>7, <1>9 DEF CarriesItem
  <1>11. IsSequence(enc.bytes)
    <2>1. PICK bend : Laid(EncodeInstruction(ins, Stale), Lead(ins, Stale), Fields(ins), bend, blocks)
      BY <1>8, <1>10, EncodingLaid
    <2> QED
      BY <1>9, <2>1 DEF Laid
  <1>12. Len(bytes) = Len(enc.bytes)
    BY <1>10, <1>11, AddressedBytes
  <1>13. PICK q \in Nat, r \in Nat, k \in Nat : q = e[i - 1] /\ r = e[i] /\ k = Len(bytes)
    <2>1. IsSequences(N) /\ Ends(N, e)
      BY DEF FileParts
    <2>2. \A x \in 0 .. Len(N) : e[x] \in Nat
      BY <2>1, EndsTyped
    <2>3. e[i - 1] \in Nat /\ e[i] \in Nat
      BY <1>2, <1>4, <2>2
    <2>4. Len(bytes) \in Nat
      BY <1>10 DEF IsSequence
    <2> QED
      BY <2>3, <2>4
  <1>14. /\ IsSequence(f) /\ r = q + k /\ r <= Len(f) /\ Len(f) \in Nat
         /\ \A y \in 1 .. k : f[q + y] = bytes[y]
    <2>1. IsSequences(N) /\ Ends(N, e)
      BY DEF FileParts
    <2>2. /\ IsSequence(f) /\ Len(f) = e[Len(N)]
          /\ \A x \in 1 .. Len(N) : \A j \in 1 .. Len(N[x]) : f[e[x - 1] + j] = N[x][j]
      <3>1. f = FlattenSeq(N)
        BY DEF FileParts
      <3> QED
        BY <2>1, <3>1, FlattenPlaces
    <2>3. \A x \in 1 .. Len(N) : e[x] = e[x - 1] + Len(N[x])
      BY <2>1, EndsTyped
    <2>4. r = q + k
      BY <1>1, <1>2, <1>4, <1>13, <2>3
    <2>5. e[i] <= e[Len(N)]
      <3>1. i \in 0 .. Len(N) /\ Len(N) \in 0 .. Len(N) /\ i <= Len(N)
        BY <1>2, <1>4
      <3> QED
        BY <2>1, <3>1, EndsGrow
    <2>6. \A y \in 1 .. k : f[q + y] = bytes[y]
      BY <1>1, <1>2, <1>4, <1>13, <2>2
    <2>7. r <= Len(f)
      BY <1>13, <2>2, <2>5
    <2>8. Len(f) \in Nat
      BY <2>2 DEF IsSequence
    <2> QED
      BY <2>2, <2>4, <2>6, <2>7, <2>8
  <1>15. Has(f, q, bytes)
    BY <1>13, <1>14 DEF Has
  <1>16. Carried(f, q, ins, blocks, where, Stale)
    BY <1>5, <1>7, <1>8, <1>9, <1>10, <1>13, <1>14, <1>15 DEF Carried
  <1>17. PICK d : d = DecodeInstruction(f, q)
    OBVIOUS
  <1>18. /\ d.ok /\ d.next = q + Len(EncodeInstruction(ins, Stale).bytes)
         /\ d.next > q /\ d.next <= Len(f)
         /\ d.ins = [opcode   |-> ins.opcode,
                     operands |-> [j \in 1 .. Len(ins.operands) |-> ResolvedBy(ins.operands[j], where)]]
    BY <1>16, <1>17, DecodesBack
  <1>19. d.next = r
    BY <1>9, <1>12, <1>13, <1>14, <1>18
  <1>20. q < Len(f)
    BY <1>14, <1>18, <1>19
  <1>21. d.ins = DecodedAs(item, where)
    BY <1>7, <1>18 DEF DecodedAs
  <1> QED
    BY <1>1, <1>13, <1>17, <1>18, <1>19, <1>20, <1>21

LEMMA AddressIs ==
    ASSUME NEW id \in ToSet(AllBlocks(program))
    PROVE  BlockAddress(id) = WhereOf(program, sections, dataBlocks)[id]
  BY DEF BlockAddress, WhereOf

LEMMA ResolvedItemIs ==
    ASSUME NEW item, NEW isOffset, GoodItem(item, isOffset, ToSet(AllBlocks(program)))
    PROVE  ResolvedItem(item) = ResolvedItemBy(item, WhereOf(program, sections, dataBlocks))
  <1>1. CASE item.type \in {"LABEL", "SUBLABEL"}
    <2>1. item.data \in ToSet(AllBlocks(program))
      BY <1>1 DEF GoodItem
    <2>2. BlockAddress(item.data) = WhereOf(program, sections, dataBlocks)[item.data]
      BY <2>1, AddressIs
    <2> QED
      BY <1>1, <2>2 DEF ResolvedItem, ResolvedItemBy
  <1>2. CASE item.type \notin {"LABEL", "SUBLABEL"}
    BY <1>2 DEF ResolvedItem, ResolvedItemBy
  <1> QED
    BY <1>1, <1>2

\* An operand means to the properties what it means to the decoder's proofs.
LEMMA ResolvedIs ==
    ASSUME NEW op, GoodOperand(op, ToSet(AllBlocks(program)))
    PROVE  Resolved(op) = ResolvedBy(op, WhereOf(program, sections, dataBlocks))
  <1>1. PICK where, blocks : where = WhereOf(program, sections, dataBlocks) /\ blocks = ToSet(AllBlocks(program))
    OBVIOUS
  <1>2. GoodOperand(op, blocks)
    BY <1>1
  <1>3. CASE op.type \in {"LABEL", "SUBLABEL"}
    <2>1. BlockAddress(op.data) = where[op.data]
      BY <1>1, <1>2, <1>3, AddressIs DEF GoodOperand
    <2> QED
      BY <1>1, <1>3, <2>1 DEF Resolved, ResolvedBy
  <1>4. CASE op.type = "COMPLEX"
    <2>1. /\ GoodItem(op.data.base, FALSE, blocks)
          /\ GoodItem(op.data.index, FALSE, blocks)
          /\ GoodItem(op.data.offset, TRUE, blocks)
          /\ op.data = [base |-> op.data.base, index |-> op.data.index, offset |-> op.data.offset]
      BY <1>2, <1>4 DEF GoodOperand
    <2>2. /\ ResolvedItem(op.data.base) = ResolvedItemBy(op.data.base, where)
          /\ ResolvedItem(op.data.index) = ResolvedItemBy(op.data.index, where)
          /\ ResolvedItem(op.data.offset) = ResolvedItemBy(op.data.offset, where)
      BY <1>1, <2>1, ResolvedItemIs
    <2>3. DOMAIN op.data = {"base", "index", "offset"}
      BY <2>1
    <2>4. \A part \in DOMAIN op.data : ResolvedItem(op.data[part]) = ResolvedItemBy(op.data[part], where)
      BY <2>2, <2>3
    <2>5. CASE CompactType(op) = 3
      BY <1>1, <1>4, <2>2, <2>5 DEF Resolved, ResolvedBy
    <2>6. CASE CompactType(op) # 3
      <3>1. [part \in DOMAIN op.data |-> ResolvedItem(op.data[part])]
              = [part \in DOMAIN op.data |-> ResolvedItemBy(op.data[part], where)]
        BY <2>4
      <3>2. Resolved(op) = [op EXCEPT !.data = [part \in DOMAIN op.data |-> ResolvedItem(op.data[part])]]
        <4>1. op.type \notin {"LABEL", "SUBLABEL"}
          BY <1>4
        <4> QED
          BY ONLY <1>4, <2>6, <4>1 DEF Resolved
      <3>3. ResolvedBy(op, where) = [op EXCEPT !.data = [part \in DOMAIN op.data |-> ResolvedItemBy(op.data[part], where)]]
        <4>1. op.type \notin {"LABEL", "SUBLABEL"}
          BY <1>4
        <4> QED
          BY ONLY <1>4, <2>6, <4>1 DEF ResolvedBy
      <3> QED
        BY <1>1, <3>1, <3>2, <3>3
    <2> QED
      BY <2>5, <2>6
  <1>5. CASE op.type \notin {"LABEL", "SUBLABEL", "COMPLEX"}
    BY <1>5 DEF Resolved, ResolvedBy
  <1> QED
    BY <1>3, <1>4, <1>5

-----------------------------------------------------------------------------
(* The listing                                                             *)

\* The listing follows the code, instruction by instruction, while there is code.
Follows(lst, off, code, where, e) ==
    /\ Len(lst) <= Len(code) => off = e[Len(lst)]
    /\ \A i \in 1 .. Len(lst) : i <= Len(code) => lst[i].ins = DecodedAs(code[i], where)

DecodedInv ==
    /\ IsSequence(listing)
    /\ pc # "done" \/ format # "BINARY" => listing = << >> /\ offset = 0
    /\ pc = "done" /\ format = "BINARY" =>
          \A where, N, e : FileParts(program, file, where, N, e) =>
             Follows(listing, offset, CodeOf(program), where, e)

LEMMA NothingFollows ==
    ASSUME NEW p, NEW f, NEW where, NEW N, NEW e, FileParts(p, f, where, N, e), NEW code
    PROVE  Follows(<< >>, 0, code, where, e)
  <1>1. e[0] = 0
    <2>1. IsSequences(N) /\ Ends(N, e)
      BY DEF FileParts
    <2> QED
      BY <2>1, EndsTyped
  <1>2. Len(<< >>) = 0
    BY EmptySequence
  <1> QED
    BY <1>1, <1>2 DEF Follows

LEMMA FollowsOn ==
    ASSUME NEW p, IsSequence(ItemsOf(p)), Stale \in 0 .. 3, NEW f, NEW where, NEW N, NEW e,
           FileParts(p, f, where, N, e), NEW lst, IsSequence(lst), NEW off, NEW text,
           Follows(lst, off, CodeOf(p), where, e)
    PROVE  Follows(Append(lst, [ins |-> DecodeInstruction(f, off).ins, text |-> text]),
                   DecodeInstruction(f, off).next, CodeOf(p), where, e)
  <1>1. PICK d, c : d = DecodeInstruction(f, off) /\ c = CodeOf(p)
    OBVIOUS
  <1>2. PICK n \in Nat, m \in Nat : n = Len(lst) /\ m = Len(c)
    BY <1>1, CodeFound DEF IsSequence
  <1>3. PICK line, new : line = [ins |-> d.ins, text |-> text] /\ new = Append(lst, line)
    OBVIOUS
  <1>4. IsSequence(new) /\ Len(new) = n + 1 /\ new[n + 1] = line /\ \A i \in 1 .. n : new[i] = lst[i]
    BY <1>2, <1>3, AppendSequence
  <1>5. /\ n <= m => off = e[n]
        /\ \A i \in 1 .. n : i <= m => lst[i].ins = DecodedAs(c[i], where)
    BY <1>1, <1>2 DEF Follows
  <1>6. ASSUME n + 1 <= m
        PROVE  d.next = e[n + 1] /\ d.ins = DecodedAs(c[n + 1], where)
    <2>1. PICK i \in 1 .. m : i = n + 1 /\ i - 1 = n
      BY <1>6
    <2>2. off = e[i - 1]
      BY <1>5, <1>6, <2>1
    <2>3. i \in 1 .. Len(CodeOf(p))
      BY <1>1, <1>2
    <2>4. /\ DecodeInstruction(f, e[i - 1]).next = e[i]
          /\ DecodeInstruction(f, e[i - 1]).ins = DecodedAs(CodeOf(p)[i], where)
      BY <2>3, NextDecoded
    <2> QED
      BY <1>1, <2>1, <2>2, <2>4
  <1>7. ASSUME NEW i \in 1 .. n + 1, i <= m
        PROVE  new[i].ins = DecodedAs(c[i], where)
    <2>1. CASE i = n + 1
      BY <1>3, <1>4, <1>6, <1>7, <2>1
    <2>2. CASE i # n + 1
      <3>1. i \in 1 .. n
        BY <2>2
      <3> QED
        BY <1>4, <1>5, <1>7, <3>1
    <2> QED
      BY <2>1, <2>2
  <1>8. Follows(new, d.next, c, where, e)
    BY <1>2, <1>4, <1>6, <1>7 DEF Follows
  <1> QED
    BY <1>1, <1>3, <1>8

LEMMA DecodedInit ==
    ASSUME Init
    PROVE  DecodedInv
  <1>1. listing = << >> /\ offset = 0 /\ pc = "layout"
    BY DEF Init
  <1> QED
    BY <1>1, EmptySequence DEF DecodedInv

\* Nothing is read before the file is written.
LEMMA DecodedUnread ==
    ASSUME DecodedInv, pc # "done", UNCHANGED << format, offset, listing >>
    PROVE  DecodedInv'
  <1>1. listing' = << >> /\ offset' = 0
    BY DEF DecodedInv
  <1>2. ASSUME NEW where, NEW N, NEW e, FileParts(program', file', where, N, e)
        PROVE  Follows(listing', offset', CodeOf(program'), where, e)
    BY <1>1, <1>2, NothingFollows
  <1>3. CodeOf(program)' = CodeOf(program')
    BY DEF CodeOf, Endings, ItemsOf
  <1>4. \A where, N, e : FileParts(program, file, where, N, e)' <=> FileParts(program', file', where, N, e)
    BY DEF FileParts, ItemsOf
  <1> QED
    BY <1>1, <1>2, EmptySequence DEF DecodedInv

\* The disassembler reads on.
LEMMA DecodedRead ==
    ASSUME DecodedInv, Disassemble, GoodProgram(program), IsSequence(ItemsOf(program))
    PROVE  DecodedInv'
  <1>1. /\ pc = "done" /\ format = "BINARY"
        /\ UNCHANGED << pc, format, program, file >>
    BY DEF Disassemble, assembler
  <1>2. PICK d : d = DecodeInstruction(file, offset)
    OBVIOUS
  <1>3. PICK text : /\ offset' = d.next
                    /\ listing' = Append(listing, [ins |-> d.ins, text |-> text])
    BY <1>2 DEF Disassemble
  <1>4. IsSequence(listing)
    BY DEF DecodedInv
  <1>5. IsSequence(listing')
    <2>1. PICK line : listing' = Append(listing, line)
      BY <1>3
    <2> QED
      BY <1>4, <2>1, AppendSequence
  <1>6. Stale \in 0 .. 3
    BY ProgramsAssumption
  <1>7. ASSUME NEW where, NEW N, NEW e, FileParts(program, file, where, N, e)
        PROVE  Follows(listing', offset', CodeOf(program), where, e)
    <2>1. Follows(listing, offset, CodeOf(program), where, e)
      BY <1>1, <1>7 DEF DecodedInv
    <2>2. Follows(Append(listing, [ins |-> DecodeInstruction(file, offset).ins, text |-> text]),
                  DecodeInstruction(file, offset).next, CodeOf(program), where, e)
      BY <1>4, <1>6, <1>7, <2>1, FollowsOn
    <2> QED
      BY <1>2, <1>3, <2>2
  <1>8. \A where, N, e : FileParts(program, file, where, N, e)' <=> FileParts(program, file, where, N, e)
    BY <1>1 DEF FileParts, ItemsOf
  <1>9. CodeOf(program)' = CodeOf(program)
    BY <1>1 DEF CodeOf, Endings, ItemsOf
  <1> QED
    BY <1>1, <1>5, <1>7, <1>8, <1>9 DEF DecodedInv

LEMMA DecodedStays ==
    ASSUME DecodedInv, UNCHANGED vars
    PROVE  DecodedInv'
  <1>1. UNCHANGED << pc, format, program, file, offset, listing >>
    BY DEF vars, assembler
  <1>2. \A where, N, e : FileParts(program, file, where, N, e)' <=> FileParts(program, file, where, N, e)
    BY <1>1 DEF FileParts, ItemsOf
  <1>3. CodeOf(program)' = CodeOf(program)
    BY <1>1 DEF CodeOf, Endings, ItemsOf
  <1> QED
    BY <1>1, <1>2, <1>3 DEF DecodedInv

\* The items of a program make a sequence.
LEMMA ItemsAre ==
    ASSUME NEW p, GoodProgram(p)
    PROVE  IsSequence(ItemsOf(p))
  <1>1. PICK n \in Nat : n = Len(p)
    BY DEF GoodProgram, IsSequence
  <1>2. PICK J : J = [s \in 1 .. n |-> FlattenSeq(BlockItems(p, s))]
    OBVIOUS
  <1>3. IsSequence(J) /\ Len(J) = n /\ \A s \in 1 .. n : J[s] = FlattenSeq(BlockItems(p, s))
    <2>1. J = [s \in 1 .. n |-> J[s]] /\ \A s \in 1 .. n : J[s] = FlattenSeq(BlockItems(p, s))
      BY <1>2
    <2> QED
      BY <2>1, FunctionSequence
  <1>4. ItemsOf(p) = FlattenSeq(J)
    BY <1>1, <1>3, ItemsJoined
  <1>5. \A s \in 1 .. n : IsSequence(J[s])
    <2>1. \A s \in 1 .. n : IsSequences(BlockItems(p, s))
      BY <1>1, BlockItemsAre
    <2> QED
      BY <1>3, <2>1, FlattenElements
  <1>6. IsSequences(J)
    BY <1>3, <1>5 DEF IsSequences
  <1> QED
    BY <1>4, <1>6, FlattenElements

LEMMA DecodedNext ==
    ASSUME AssemblerInv, DecodedInv, [Next]_vars
    PROVE  DecodedInv'
  <1>1. GoodProgram(program)
    BY DEF AssemblerInv
  <1>2. IsSequence(ItemsOf(program))
    BY <1>1, ItemsAre
  <1>3. CASE Disassemble
    BY <1>1, <1>2, <1>3, DecodedRead
  <1>4. CASE UNCHANGED vars
    BY <1>4, DecodedStays
  <1>5. CASE \/ StartSection \/ StartBlock \/ EmitInstruction \/ EmitData \/ EmitReference
             \/ EmitAlignment \/ EmitSkip \/ Refuse \/ EndSection
    <2>1. pc # "done" /\ UNCHANGED << format, offset, listing >>
      BY <1>5 DEF StartSection, StartBlock, EmitInstruction, EmitData, EmitReference, EmitAlignment,
                  EmitSkip, Refuse, EndSection, InLayout
    <2> QED
      BY <2>1, DecodedUnread
  <1>6. CASE FillBlock \/ EndFill \/ WriteBinary \/ WriteELF
    <2>1. pc # "done" /\ UNCHANGED << format, offset, listing >>
      BY <1>6 DEF FillBlock, EndFill, WriteBinary, WriteELF
    <2> QED
      BY <2>1, DecodedUnread
  <1> QED
    BY <1>3, <1>4, <1>5, <1>6 DEF Next

\* What stands in the listing, in the words of the properties.
ListedAs ==
    /\ IsSequence(listing) /\ IsSequence(Code)
    /\ \A i \in 1 .. Len(Code) :
          GoodInstruction(Code[i].ins, ToSet(AllBlocks(program))) /\ Encodable(Code[i].ins)
    /\ \A i \in 1 .. Len(listing) : i <= Len(Code) =>
          listing[i].ins = [opcode   |-> Code[i].ins.opcode,
                            operands |-> [j \in 1 .. Len(Code[i].ins.operands) |-> Operand(i, j)]]
    /\ Len(listing) < Len(Code) => offset < Len(file) /\ DecodeInstruction(file, offset).ok

LEMMA ListedIs ==
    ASSUME AssemblerInv, DecodedInv, pc = "done", format = "BINARY"
    PROVE  ListedAs
  <1>1. GoodProgram(program) /\ IsSequence(ItemsOf(program))
    BY ItemsAre DEF AssemblerInv
  <1>2. PICK l : LaidOut(program, l) /\ Phase(l)
    BY DEF AssemblerInv
  <1>3. FilledState(l) /\ file = Upto(program, sections, Len(program))
    BY <1>2 DEF Phase
  <1>4. FilledWith(program, l, sections, dataBlocks)
    BY <1>3 DEF FilledState, FilledWith
  <1>5. PICK where : where = Stands(program, l)
    OBVIOUS
  <1>6. WhereOf(program, sections, dataBlocks) = where
    BY <1>1, <1>2, <1>4, <1>5, FilledImage
  <1>7. PICK N : /\ IsSequences(N) /\ Len(N) = Len(ItemsOf(program))
                 /\ \A i \in 1 .. Len(N) : CarriesItem(ItemsOf(program)[i], N[i], program, where)
                 /\ Upto(program, sections, Len(program)) = FlattenSeq(N)
    BY <1>1, <1>2, <1>4, <1>5, FileCarried
  <1>8. PICK e : Ends(N, e)
    BY <1>7, EndsExist
  <1>9. FileParts(program, file, where, N, e)
    BY <1>3, <1>7, <1>8 DEF FileParts
  <1>10. Follows(listing, offset, CodeOf(program), where, e)
    BY <1>9 DEF DecodedInv
  <1>11. PICK c : c = Code /\ c = CodeOf(program)
    BY CodeIs
  <1>12. /\ IsSequence(c) /\ Len(c) <= Len(ItemsOf(program))
         /\ \A i \in 1 .. Len(c) :
               /\ c[i] = ItemsOf(program)[i] /\ c[i].kind = "ins"
               /\ \A j \in 1 .. Len(c[i].ins.operands) : ~Dangling(c[i].ins.operands[j])
    BY <1>1, <1>11, CodeFound
  <1>13. PICK m \in Nat, n \in Nat, k \in Nat : m = Len(c) /\ n = Len(listing) /\ k = Len(N)
    BY <1>7, <1>12 DEF DecodedInv, IsSequence, IsSequences
  <1>14. ASSUME NEW i \in 1 .. m
         PROVE  /\ GoodInstruction(c[i].ins, ToSet(AllBlocks(program))) /\ Encodable(c[i].ins)
                /\ IsSequence(c[i].ins.operands)
    <2>1. i \in 1 .. Len(N)
      BY <1>7, <1>12, <1>13
    <2>2. CarriesItem(c[i], N[i], program, where)
      BY <1>7, <1>12, <1>13, <2>1
    <2>3. c[i].kind = "ins"
      BY <1>12, <1>13
    <2>4. GoodInstruction(c[i].ins, ToSet(AllBlocks(program))) /\ Encodable(c[i].ins)
      BY <2>2, <2>3 DEF CarriesItem, Good
    <2> QED
      BY <2>4 DEF GoodInstruction
  <1>15. ASSUME NEW i \in 1 .. m
         PROVE  DecodedAs(c[i], where) = [opcode   |-> c[i].ins.opcode,
                                            operands |-> [j \in 1 .. Len(c[i].ins.operands) |-> Operand(i, j)]]
    <2>1. ASSUME NEW j \in 1 .. Len(c[i].ins.operands)
          PROVE  ResolvedBy(c[i].ins.operands[j], where) = Operand(i, j)
      <3>1. GoodOperand(c[i].ins.operands[j], ToSet(AllBlocks(program)))
        BY <1>14 DEF GoodInstruction
      <3>2. Resolved(c[i].ins.operands[j]) = ResolvedBy(c[i].ins.operands[j], where)
        BY <1>6, <3>1, ResolvedIs
      <3> QED
        BY <1>11, <3>2 DEF Operand
    <2> QED
      BY <2>1 DEF DecodedAs
  <1>16. ASSUME NEW i \in 1 .. n, i <= m
         PROVE  listing[i].ins = DecodedAs(c[i], where) /\ i \in 1 .. m
    BY <1>10, <1>11, <1>13, <1>16 DEF Follows
  <1>17. ASSUME n < m
         PROVE  offset < Len(file) /\ DecodeInstruction(file, offset).ok
    <2>1. offset = e[n]
      BY <1>10, <1>11, <1>13, <1>17 DEF Follows
    <2>2. PICK i \in 1 .. m : i - 1 = n
      <3>1. n + 1 \in 1 .. m /\ (n + 1) - 1 = n
        BY <1>17
      <3> QED
        BY <3>1
    <2>3. i \in 1 .. Len(CodeOf(program)) /\ Stale \in 0 .. 3
      BY <1>11, <1>13, ProgramsAssumption
    <2>4. e[i - 1] < Len(file) /\ DecodeInstruction(file, e[i - 1]).ok
      BY <1>1, <1>9, <2>3, NextDecoded
    <2> QED
      BY <2>1, <2>2, <2>4
  <1>18. /\ \A i \in 1 .. n : i <= m =>
               listing[i].ins = [opcode   |-> c[i].ins.opcode,
                                 operands |-> [j \in 1 .. Len(c[i].ins.operands) |-> Operand(i, j)]]
    BY <1>15, <1>16
  <1> QED
    BY <1>11, <1>12, <1>13, <1>14, <1>17, <1>18 DEF DecodedInv, ListedAs

LEMMA IndexListed ==
    ASSUME ListedAs, NEW i \in Listed
    PROVE  /\ i \in 1 .. Len(Code) /\ i \in 1 .. Len(listing)
           /\ listing[i].ins.opcode = Code[i].ins.opcode
           /\ listing[i].ins.operands = [j \in 1 .. Len(Code[i].ins.operands) |-> Operand(i, j)]
  <1>1. PICK n \in Nat, m \in Nat : n = Len(listing) /\ m = Len(Code)
    BY DEF ListedAs, IsSequence
  <1>2. i \in 1 .. n /\ i <= m
    BY <1>1 DEF Listed
  <1>3. PICK opcode, operands : /\ opcode = Code[i].ins.opcode
                                /\ operands = [j \in 1 .. Len(Code[i].ins.operands) |-> Operand(i, j)]
    OBVIOUS
  <1>4. listing[i].ins = [opcode |-> opcode, operands |-> operands]
    BY <1>1, <1>2, <1>3 DEF ListedAs
  <1> QED
    BY <1>1, <1>2, <1>3, <1>4

\* A number that is not below zero is worth what is written.
LEMMA SignedIs ==
    ASSUME NEW bytes, ~(Len(bytes) = 1 /\ bytes[1] > 127)
    PROVE  Signed(bytes) = ValueOf(bytes)
  <1>1. Last(bytes) = bytes[Len(bytes)]
    BY DEF Last
  <1>2. CASE Len(bytes) = 1
    <2>1. ~(Last(bytes) > 127)
      BY <1>1, <1>2
    <2> QED
      BY ONLY <2>1 DEF Signed
  <1>3. CASE Len(bytes) # 1
    BY ONLY <1>3 DEF Signed
  <1> QED
    BY <1>2, <1>3

\* What an item of a good operand becomes.
PlainItem(item) ==
    /\ item = [type |-> item.type, data |-> item.data, sign |-> item.sign]
    /\ item.type \in {"NONE", "REGISTER", "IMMEDIATE"}

LEMMA ResolvedPlain ==
    ASSUME NEW item, NEW isOffset, NEW blocks, GoodItem(item, isOffset, blocks), NEW where
    PROVE  /\ PlainItem(ResolvedItemBy(item, where))
           /\ item.type # "NONE" => ResolvedItemBy(item, where).type # "NONE"
  <1>1. CASE item.type \in {"LABEL", "SUBLABEL"}
    <2>1. PICK bytes : bytes = AddressBytes(where[item.data])
      OBVIOUS
    <2>2. ResolvedItemBy(item, where) = [type |-> "IMMEDIATE", data |-> bytes, sign |-> FALSE]
      BY <1>1, <2>1 DEF ResolvedItemBy
    <2> QED
      BY <2>2 DEF PlainItem
  <1>2. CASE item.type \notin {"LABEL", "SUBLABEL"}
    <2>1. ResolvedItemBy(item, where) = item
      BY <1>2 DEF ResolvedItemBy
    <2>2. item = [type |-> item.type, data |-> item.data, sign |-> item.sign]
      BY DEF GoodItem
    <2>3. item.type \in {"NONE", "REGISTER", "IMMEDIATE"}
      BY <1>2 DEF GoodItem, NoItem
    <2> QED
      BY <2>1, <2>2, <2>3 DEF PlainItem
  <1> QED
    BY <1>1, <1>2

\* An item that is no negative number is worth what is written.
LEMMA ItemWritten ==
    ASSUME NEW item, PlainItem(item), ~Negative(item), item.type # "NONE"
    PROVE  /\ WrittenItem([item EXCEPT !.sign = TRUE]) = ItemValue(item)
           /\ item.type = "IMMEDIATE" => WrittenItem(item) = ItemValue(item)
  <1>1. PICK it : it = [item EXCEPT !.sign = TRUE]
    OBVIOUS
  <1>2. it.type = item.type /\ it.data = item.data /\ it.sign = TRUE
    BY <1>1 DEF PlainItem
  <1>3. CASE item.type = "REGISTER"
    BY <1>1, <1>2, <1>3 DEF WrittenItem, ItemValue
  <1>4. CASE item.type = "IMMEDIATE"
    <2>1. ~(Len(item.data) = 1 /\ item.data[1] > 127)
      BY <1>4 DEF Negative
    <2>2. Signed(item.data) = ValueOf(item.data)
      BY <2>1, SignedIs
    <2>3. ItemValue(item) = ValueOf(item.data)
      BY <1>4 DEF ItemValue
    <2>4. WrittenItem(item) = Signed(item.data) /\ WrittenItem(it) = Signed(item.data)
      BY <1>2, <1>4 DEF WrittenItem
    <2> QED
      BY <1>1, <2>2, <2>3, <2>4
  <1> QED
    BY <1>3, <1>4 DEF PlainItem

LEMMA AddressWritten ==
    ASSUME NEW c, PlainItem(c.base), PlainItem(c.index), PlainItem(c.offset), c.base.type # "NONE",
           ~Negative(c.base), ~Negative(c.index), ~Negative(c.offset)
    PROVE  (Base(c) * Index(c) + Offset(c)) % Word = WrittenAddress(c)
  <1> DEFINE Or1(item) == IF item.type = "NONE" THEN 1 ELSE WrittenItem([item EXCEPT !.sign = TRUE])
  <1>1. Base(c) = Or1(c.base)
    <2>1. Base(c) = ItemValue(c.base)
      BY DEF Base
    <2>2. WrittenItem([c.base EXCEPT !.sign = TRUE]) = ItemValue(c.base)
      BY ItemWritten
    <2> QED
      BY <2>1, <2>2
  <1>2. Index(c) = Or1(c.index)
    <2>1. CASE c.index.type = "NONE"
      BY <2>1 DEF Index
    <2>2. CASE c.index.type # "NONE"
      <3>1. Index(c) = ItemValue(c.index)
        BY <2>2 DEF Index
      <3>2. WrittenItem([c.index EXCEPT !.sign = TRUE]) = ItemValue(c.index)
        BY <2>2, ItemWritten
      <3> QED
        BY <2>2, <3>1, <3>2
    <2> QED
      BY <2>1, <2>2
  <1>3. Offset(c) = WrittenItem(c.offset)
    <2>1. PICK item : item = c.offset
      OBVIOUS
    <2>2. CASE item.type = "NONE"
      BY <2>1, <2>2 DEF Offset, WrittenItem
    <2>3. CASE item.type = "REGISTER"
      <3>1. ItemValue(item) = Reg[item.data]
        BY <2>3 DEF ItemValue
      <3>2. Offset(c) = IF ~item.sign THEN (Word - ItemValue(item)) % Word ELSE ItemValue(item)
        BY <2>1, <2>3 DEF Offset
      <3>3. WrittenItem(item) = IF item.sign THEN Reg[item.data] ELSE (Word - Reg[item.data]) % Word
        BY <2>3 DEF WrittenItem
      <3> QED
        BY <2>1, <3>1, <3>2, <3>3
    <2>4. CASE item.type = "IMMEDIATE"
      <3>1. Offset(c) = ItemValue(item)
        BY <2>1, <2>4 DEF Offset
      <3>2. WrittenItem(item) = ItemValue(item)
        BY <2>1, <2>4, ItemWritten
      <3> QED
        BY <2>1, <3>1, <3>2
    <2> QED
      BY <2>1, <2>2, <2>3, <2>4 DEF PlainItem
  <1>4. WrittenAddress(c) = (Or1(c.base) * Or1(c.index) + WrittenItem(c.offset)) % Word
    BY DEF WrittenAddress
  <1> HIDE DEF Or1
  <1> QED
    BY ONLY <1>1, <1>2, <1>3, <1>4

\* The value of an operand, or its address, is what the source says, unless a
\* number in it is below zero.
LEMMA OperandWritten ==
    ASSUME NEW op, NEW blocks, GoodOperand(op, blocks), CompactType(op) # -1, NEW where
    PROVE  \/ NegativeNumber(ResolvedBy(op, where))
           \/ GetValue(ResolvedBy(op, where)) = Written(ResolvedBy(op, where))
  <1>1. PICK v : v = ResolvedBy(op, where)
    OBVIOUS
  <1>2. CASE op.type \in {"IMMEDIATE", "LABEL", "SUBLABEL"}
    <2>1. v.type = "IMMEDIATE"
      BY <1>1, <1>2 DEF ResolvedBy
    <2>2. CASE Negative(v)
      BY <1>1, <2>1, <2>2 DEF NegativeNumber
    <2>3. CASE ~Negative(v)
      <3>1. ~(Len(v.data) = 1 /\ v.data[1] > 127)
        BY <2>1, <2>3 DEF Negative
      <3>2. Signed(v.data) = ValueOf(v.data)
        BY <3>1, SignedIs
      <3> QED
        BY <1>1, <2>1, <3>2 DEF GetValue, Written
    <2> QED
      BY <2>2, <2>3
  <1>3. CASE op.type = "REGISTER"
    <2>1. v = op
      BY <1>1, <1>3 DEF ResolvedBy
    <2> QED
      BY <1>1, <1>3, <2>1 DEF GetValue, Written
  <1>4. CASE op.type = "MEMORY" \/ (op.type = "COMPLEX" /\ CompactType(op) = 3)
    <2>1. v.type = "MEMORY"
      BY <1>1, <1>4 DEF ResolvedBy
    <2>2. GetValue(v) = << "memory", Address(v), v.size >> /\ Address(v) = ValueOf(v.data)
      BY <2>1 DEF GetValue, Address
    <2>3. Written(v) = << "memory", ValueOf(v.data), v.size >>
      BY <2>1 DEF Written
    <2> QED
      BY <1>1, <2>2, <2>3
  <1>5. CASE op.type = "COMPLEX" /\ CompactType(op) # 3
    <2>1. /\ GoodItem(op.data.base, FALSE, blocks) /\ op.data.base.type # "NONE"
          /\ GoodItem(op.data.index, FALSE, blocks)
          /\ GoodItem(op.data.offset, TRUE, blocks)
          /\ op.data = [base |-> op.data.base, index |-> op.data.index, offset |-> op.data.offset]
          /\ op = [type |-> op.type, size |-> op.size, data |-> op.data]
      BY <1>5 DEF GoodOperand
    <2>2. PICK c : c = [part \in DOMAIN op.data |-> ResolvedItemBy(op.data[part], where)]
      OBVIOUS
    <2>3. v = [op EXCEPT !.data = c]
      BY <1>1, <1>5, <2>2 DEF ResolvedBy
    <2>4. v.type = "COMPLEX" /\ v.data = c /\ v.size = op.size
      BY <1>5, <2>1, <2>3
    <2>5. DOMAIN op.data = {"base", "index", "offset"}
      BY <2>1
    <2>6. /\ DOMAIN c = {"base", "index", "offset"}
          /\ c.base = ResolvedItemBy(op.data.base, where)
          /\ c.index = ResolvedItemBy(op.data.index, where)
          /\ c.offset = ResolvedItemBy(op.data.offset, where)
      BY <2>2, <2>5
    <2>7. /\ PlainItem(c.base) /\ PlainItem(c.index) /\ PlainItem(c.offset)
          /\ c.base.type # "NONE"
      <3>1. /\ PlainItem(ResolvedItemBy(op.data.base, where))
            /\ ResolvedItemBy(op.data.base, where).type # "NONE"
        BY <2>1, ResolvedPlain
      <3>2. PlainItem(ResolvedItemBy(op.data.index, where))
        BY <2>1, ResolvedPlain
      <3>3. PlainItem(ResolvedItemBy(op.data.offset, where))
        BY <2>1, ResolvedPlain
      <3> QED
        BY <2>6, <3>1, <3>2, <3>3
    <2>8. CASE \E part \in DOMAIN c : Negative(c[part])
      <3>1. \E part \in DOMAIN v.data : Negative(v.data[part])
        BY <2>4, <2>8
      <3> QED
        BY <1>1, <2>4, <3>1 DEF NegativeNumber
    <2>9. CASE ~ \E part \in DOMAIN c : Negative(c[part])
      <3>1. ~Negative(c.base) /\ ~Negative(c.index) /\ ~Negative(c.offset)
        BY <2>6, <2>9
      <3>2. (Base(c) * Index(c) + Offset(c)) % Word = WrittenAddress(c)
        BY <2>7, <3>1, AddressWritten
      <3>3. GetValue(v) = << "memory", (Base(c) * Index(c) + Offset(c)) % Word, v.size >>
        BY <2>4 DEF GetValue, Address
      <3>4. Written(v) = << "memory", WrittenAddress(c), v.size >>
        BY <2>4 DEF Written
      <3> QED
        BY <1>1, <3>2, <3>3, <3>4
    <2> QED
      BY <2>8, <2>9
  <1>6. op.type \in {"IMMEDIATE", "LABEL", "SUBLABEL", "REGISTER", "MEMORY", "COMPLEX"}
    BY DEF CompactType
  <1> QED
    BY <1>2, <1>3, <1>4, <1>5, <1>6

-----------------------------------------------------------------------------

\* Every instruction of a flat file decodes as it was written, block by block and
\* section by section, until the first item that is no instruction: the disassembler
\* is where one begins whenever the one before it ends, and never stops short of the
\* last.
THEOREM DecodesCorrect == Spec => []DecodesAsWritten
  <1>1. Init => AssemblerInv /\ DecodedInv
    BY InitInv, DecodedInit
  <1>2. AssemblerInv /\ DecodedInv /\ [Next]_vars => (AssemblerInv /\ DecodedInv)'
    BY InvNext, DecodedNext
  <1>3. AssemblerInv /\ DecodedInv => DecodesAsWritten
    <2>1. SUFFICES ASSUME AssemblerInv, DecodedInv
                   PROVE  DecodesAsWritten
      OBVIOUS
    <2>2. CASE pc = "done" /\ format = "BINARY"
      <3>1. ListedAs
        BY <2>1, <2>2, ListedIs
      <3>2. \A i \in Listed : /\ listing[i].ins.opcode = Code[i].ins.opcode
                              /\ listing[i].ins.operands = [j \in 1 .. Len(Code[i].ins.operands) |-> Operand(i, j)]
        BY <3>1, IndexListed
      <3>3. Len(listing) < Len(Code) => offset < Len(file) /\ DecodeInstruction(file, offset).ok
        BY <3>1 DEF ListedAs
      <3> QED
        BY <3>2, <3>3 DEF DecodesAsWritten
    <2>3. CASE ~(pc = "done" /\ format = "BINARY")
      <3>1. listing = << >>
        BY <2>1, <2>3 DEF DecodedInv
      <3>2. Listed = {}
        BY <3>1, EmptySequence DEF Listed
      <3> QED
        BY <2>3, <3>2 DEF DecodesAsWritten
    <2> QED
      BY <2>2, <2>3
  <1> QED
    BY <1>1, <1>2, <1>3, PTL DEF Spec

\* And every operand means what the source says: the value or the address that
\* GetValue computes from the bytes is the one that was written, in all the forms an
\* operand travels in, except for numbers below zero.
THEOREM AddressCorrect == Spec => []AddressAsWritten
  <1>1. Init => AssemblerInv /\ DecodedInv
    BY InitInv, DecodedInit
  <1>2. AssemblerInv /\ DecodedInv /\ [Next]_vars => (AssemblerInv /\ DecodedInv)'
    BY InvNext, DecodedNext
  <1>3. AssemblerInv /\ DecodedInv => AddressAsWritten
    <2>1. SUFFICES ASSUME AssemblerInv, DecodedInv
                   PROVE  AddressAsWritten
      OBVIOUS
    <2>2. CASE pc = "done" /\ format = "BINARY"
      <3>1. SUFFICES ASSUME NEW i \in Listed, NEW j \in 1 .. Len(Code[i].ins.operands)
                     PROVE  NegativeNumber(Operand(i, j)) \/ MeansAsWritten(i, j)
        BY DEF AddressAsWritten
      <3>2. PICK op : op = Code[i].ins.operands[j]
        OBVIOUS
      <3>3. i \in 1 .. Len(Code) /\ listing[i].ins.operands = [k \in 1 .. Len(Code[i].ins.operands) |-> Operand(i, k)]
        <4>1. ListedAs
          BY <2>1, <2>2, ListedIs
        <4> QED
          BY <4>1, IndexListed
      <3>4. listing[i].ins.operands[j] = Operand(i, j)
        BY <3>3
      <3>5. GoodInstruction(Code[i].ins, ToSet(AllBlocks(program))) /\ Encodable(Code[i].ins)
        <4>1. ListedAs
          BY <2>1, <2>2, ListedIs
        <4> QED
          BY <3>3, <4>1 DEF ListedAs
      <3>6. GoodOperand(op, ToSet(AllBlocks(program))) /\ CompactType(op) # -1
        BY <3>2, <3>5 DEF GoodInstruction, Encodable
      <3>7. Operand(i, j) = ResolvedBy(op, WhereOf(program, sections, dataBlocks))
        BY <3>2, <3>6, ResolvedIs DEF Operand
      <3>8. \/ NegativeNumber(Operand(i, j))
            \/ GetValue(Operand(i, j)) = Written(Operand(i, j))
        BY <3>6, <3>7, OperandWritten
      <3> QED
        BY <3>4, <3>8 DEF MeansAsWritten
    <2>3. CASE ~(pc = "done" /\ format = "BINARY")
      <3>1. listing = << >>
        BY <2>1, <2>3 DEF DecodedInv
      <3>2. Listed = {}
        BY <3>1, EmptySequence DEF Listed
      <3> QED
        BY <3>2 DEF AddressAsWritten
    <2> QED
      BY <2>2, <2>3
  <1> QED
    BY <1>1, <1>2, <1>3, PTL DEF Spec

=============================================================================
