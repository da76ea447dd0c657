---------------------------- MODULE ParserProofs ----------------------------
(***************************************************************************)
(* Safety of the parser for every stream of tokens.  The argument has      *)
(* three parts.                                                            *)
(*                                                                         *)
(* The lists are well formed (StructureInv): what the parser points to     *)
(* exists, whatever the first scan has made, and only the second scan puts *)
(* items into the blocks (Fresh).  So every step of the second scan is one *)
(* of a few changes of a program, of which lemmas say what they leave      *)
(* alone.  The item at the cursor is the last of the current block         *)
(* (CursorInv), from which PointersFresh follows.                          *)
(*                                                                         *)
(* Whatever an operand or a directive points to is Good: a label that is   *)
(* counted or a block with a name.  A token adds the place it names at     *)
(* most, and that is Good if sub-labels have names.                        *)
(*                                                                         *)
(* What is Good is kept in cleaning up, and the pointer finds it where it  *)
(* has moved to.                                                           *)
(***************************************************************************)
EXTENDS Parser, TLAPS, SequenceTheorems, FiniteSetTheorems, NaturalsInduction, WellFoundedInduction

-----------------------------------------------------------------------------
(* Sequences of anything.                                                  *)

Listed(s) == Len(s) \in Nat /\ s = [i \in 1..Len(s) |-> s[i]]

LEMMA ListedDomain ==
    ASSUME NEW s, Listed(s)
    PROVE  DOMAIN s = 1..Len(s)
  BY DEF Listed

LEMMA EmptyListed == Listed(<< >>) /\ Len(<< >>) = 0
  BY DEF Listed

LEMMA SingleListed ==
    ASSUME NEW e
    PROVE  Listed(<< e >>) /\ Len(<< e >>) = 1 /\ << e >>[1] = e
  BY DEF Listed

LEMMA ListedSeq ==
    ASSUME NEW s, Listed(s)
    PROVE  \E S : s \in Seq(S)
  <1> DEFINE S == {s[i] : i \in 1..Len(s)}
  <1>1. s \in [1..Len(s) -> S]
    BY DEF Listed
  <1> HIDE DEF S
  <1>2. s \in Seq(S)
    BY <1>1 DEF Listed
  <1> QED BY <1>2

LEMMA AppendListed ==
    ASSUME NEW s, NEW e, Listed(s)
    PROVE  /\ Listed(Append(s, e))
           /\ Len(Append(s, e)) = Len(s) + 1
           /\ Append(s, e)[Len(s) + 1] = e
           /\ \A i \in 1..Len(s) : Append(s, e)[i] = s[i]
  <1>1. PICK S : s \in Seq(S)
    BY ListedSeq
  <1>2. s \in Seq(S \cup {e}) /\ e \in S \cup {e}
    BY <1>1, SeqMonotonic
  <1>3. Append(s, e) \in Seq(S \cup {e})
    BY <1>2
  <1>4. Listed(Append(s, e))
    BY <1>3, LenProperties DEF Listed
  <1>5. Len(Append(s, e)) = Len(s) + 1
    BY <1>2
  <1>6. Append(s, e)[Len(s) + 1] = e
    BY <1>2
  <1>7. \A i \in 1..Len(s) : Append(s, e)[i] = s[i]
    BY <1>2
  <1> QED BY <1>4, <1>5, <1>6, <1>7

LEMMA FunctionListed ==
    ASSUME NEW s, NEW n \in Nat, s = [i \in 1..n |-> s[i]]
    PROVE  Listed(s) /\ Len(s) = n
  BY DEF Listed

Put(s, i, e) == [s EXCEPT ![i] = e]

LEMMA PutListed ==
    ASSUME NEW s, NEW i, NEW e, Listed(s)
    PROVE  /\ Listed(Put(s, i, e))
           /\ Len(Put(s, i, e)) = Len(s)
           /\ i \in 1..Len(s) => Put(s, i, e)[i] = e
           /\ \A j \in 1..Len(s) : j # i => Put(s, i, e)[j] = s[j]
  <1> DEFINE t == Put(s, i, e)
  <1>1. PICK n \in Nat : n = Len(s)
    BY DEF Listed
  <1>2. DOMAIN s = 1..n
    BY <1>1, ListedDomain
  <1>3. t = [j \in 1..n |-> IF j = i THEN e ELSE s[j]]
    BY <1>2 DEF Put
  <1>4. \A j \in 1..n : t[j] = IF j = i THEN e ELSE s[j]
    BY <1>3
  <1>5. t = [j \in 1..n |-> t[j]]
    BY <1>3, <1>4
  <1> HIDE DEF t
  <1>6. Listed(t) /\ Len(t) = n
    BY <1>5, FunctionListed
  <1> QED BY <1>1, <1>4, <1>6 DEF t

LEMMA FourthAppended ==
    ASSUME NEW a, NEW b, NEW c, NEW d
    PROVE  Append(<< a, b, c >>, d) = << a, b, c, d >>
  <1> DEFINE s == << a, b, c >>
             t == Append(s, d)
             u == << a, b, c, d >>
  <1>1. Listed(s) /\ Len(s) = 3 /\ s[1] = a /\ s[2] = b /\ s[3] = c
    BY DEF Listed
  <1>2. u = [i \in 1..4 |-> u[i]] /\ u[1] = a /\ u[2] = b /\ u[3] = c /\ u[4] = d
    OBVIOUS
  <1> HIDE DEF s, u
  <1>6. Listed(t) /\ Len(t) = Len(s) + 1 /\ t[Len(s) + 1] = d
        /\ \A i \in 1..Len(s) : t[i] = s[i]
    <2>1. Listed(s)
      BY <1>1
    <2> QED BY <2>1, AppendListed
  <1> HIDE DEF t
  <1>3. Listed(t) /\ Len(t) = 4 /\ t[4] = d /\ t[1] = a /\ t[2] = b /\ t[3] = c
    BY <1>1, <1>6
  <1>4. t = [i \in 1..4 |-> t[i]]
    BY <1>3 DEF Listed
  <1>5. \A i \in 1..4 : t[i] = u[i]
    BY <1>2, <1>3
  <1> QED BY <1>2, <1>4, <1>5 DEF s, t, u

LEMMA FirstThree ==
    ASSUME NEW a, NEW b, NEW c, NEW d
    PROVE  SubSeq(<< a, b, c, d >>, 1, 3) = << a, b, c >>
  <1> DEFINE u == << a, b, c, d >>
             v == << a, b, c >>
             t == SubSeq(u, 1, 3)
             S == {a, b, c, d}
  <1>1. u[1] = a /\ u[2] = b /\ u[3] = c
    OBVIOUS
  <1>2. v \in Seq(S) /\ Len(v) = 3 /\ v[1] = a /\ v[2] = b /\ v[3] = c
    OBVIOUS
  <1>3. \A i \in 1..3 : u[i] \in S
    BY <1>1
  <1> HIDE DEF u, v, S
  <1>4. /\ t \in Seq(S)
        /\ Len(t) = IF 1 <= 3 THEN 3 - 1 + 1 ELSE 0
        /\ \A i \in 1 .. 3 - 1 + 1 : t[i] = u[1 + i - 1]
    BY <1>3, SubSeqProperties
  <1> HIDE DEF t
  <1>5. Len(t) = 3 /\ t[1] = u[1] /\ t[2] = u[2] /\ t[3] = u[3]
    BY <1>4
  <1>6. \A i \in 1..Len(v) : v[i] = t[i]
    BY <1>1, <1>2, <1>5
  <1>7. v = t
    BY <1>2, <1>4, <1>5, <1>6, SeqEqual
  <1> QED BY <1>7 DEF t, u, v

LEMMA LastListed ==
    ASSUME NEW s
    PROVE  Last(s) = s[Len(s)]
  BY DEF Last
-----------------------------------------------------------------------------
(* Sections, labels and blocks.                                            *)

IsBlock(block) == DOMAIN block = {"name", "items"} /\ Listed(block.items)

IsLabel(label) ==
    /\ DOMAIN label = {"name", "refCount", "blocks"}
    /\ label.refCount \in Nat
    /\ Listed(label.blocks) /\ Len(label.blocks) >= 1
    /\ \A b \in 1..Len(label.blocks) : IsBlock(label.blocks[b])

IsSection(section) ==
    /\ DOMAIN section = {"name", "org", "labels"}
    /\ Listed(section.labels) /\ Len(section.labels) >= 1
    /\ \A l \in 1..Len(section.labels) : IsLabel(section.labels[l])

IsProgram(all) ==
    /\ Listed(all) /\ Len(all) >= 1
    /\ \A s \in 1..Len(all) : IsSection(all[s])

IsLabelOf(all, s, l)    == s \in 1..Len(all) /\ l \in 1..Len(all[s].labels)
IsBlockOf(all, s, l, b) == IsLabelOf(all, s, l) /\ b \in 1..Len(all[s].labels[l].blocks)

LEMMA LabelOfProgram ==
    ASSUME NEW all, IsProgram(all), NEW s, NEW l, IsLabelOf(all, s, l)
    PROVE  IsSection(all[s]) /\ IsLabel(all[s].labels[l])
  BY DEF IsLabelOf, IsProgram, IsSection

LEMMA BlockOfProgram ==
    ASSUME NEW all, IsProgram(all), NEW s, NEW l, NEW b, IsBlockOf(all, s, l, b)
    PROVE  IsBlock(all[s].labels[l].blocks[b])
  BY LabelOfProgram DEF IsBlockOf, IsLabel

\* A label takes the place of another.
Relabelled(all, s, l, label) == [all EXCEPT ![s].labels[l] = label]

Replaced(all, new, s, l, label) ==
    /\ Len(new) = Len(all)
    /\ \A r \in 1..Len(all) : Len(new[r].labels) = Len(all[r].labels)
    /\ \A r \in 1..Len(all) : \A k \in 1..Len(all[r].labels) :
          new[r].labels[k] = IF r = s /\ k = l THEN label ELSE all[r].labels[k]

LEMMA RelabelledProperties ==
    ASSUME NEW all, IsProgram(all), NEW s, NEW l, IsLabelOf(all, s, l),
           NEW label, IsLabel(label)
    PROVE  /\ IsProgram(Relabelled(all, s, l, label))
           /\ Replaced(all, Relabelled(all, s, l, label), s, l, label)
  <1> DEFINE labels  == Put(all[s].labels, l, label)
             section == [all[s] EXCEPT !.labels = labels]
             new     == Put(all, s, section)
  <1>1. Relabelled(all, s, l, label) = new
    BY DEF Relabelled, Put
  <1>2. IsSection(all[s]) /\ s \in 1..Len(all) /\ l \in 1..Len(all[s].labels) /\ Listed(all)
    BY LabelOfProgram DEF IsLabelOf, IsProgram
  <1>3. /\ Listed(labels) /\ Len(labels) = Len(all[s].labels)
        /\ labels[l] = label
        /\ \A k \in 1..Len(all[s].labels) : k # l => labels[k] = all[s].labels[k]
    BY <1>2, PutListed DEF IsSection
  <1> HIDE DEF labels
  <1>4. DOMAIN section = {"name", "org", "labels"} /\ section.labels = labels
    BY <1>2 DEF IsSection
  <1>5. IsSection(section)
    BY <1>2, <1>3, <1>4 DEF IsSection
  <1> HIDE DEF section
  <1>6. /\ Listed(new) /\ Len(new) = Len(all)
        /\ new[s] = section
        /\ \A r \in 1..Len(all) : r # s => new[r] = all[r]
    BY <1>2, PutListed
  <1> HIDE DEF new
  <1>7. IsProgram(new)
    BY <1>5, <1>6 DEF IsProgram
  <1>8. Replaced(all, new, s, l, label)
    BY <1>3, <1>4, <1>6 DEF Replaced
  <1> QED BY <1>1, <1>7, <1>8

\* The same sections, labels and blocks, with no label less used.
Alike(all, new) ==
    /\ \A s, l : IsLabelOf(all, s, l) =>
          /\ IsLabelOf(new, s, l)
          /\ new[s].labels[l].name = all[s].labels[l].name
          /\ all[s].labels[l].refCount # 0 => new[s].labels[l].refCount # 0
    /\ \A s, l, b : IsBlockOf(new, s, l, b) => IsBlockOf(all, s, l, b)
    /\ \A s, l, b : IsBlockOf(all, s, l, b) =>
          /\ IsBlockOf(new, s, l, b)
          /\ new[s].labels[l].blocks[b].name = all[s].labels[l].blocks[b].name

SameLabel(x, y) ==
    /\ y.name = x.name
    /\ x.refCount # 0 => y.refCount # 0
    /\ Len(y.blocks) = Len(x.blocks)
    /\ \A b \in 1..Len(x.blocks) : y.blocks[b].name = x.blocks[b].name

LEMMA ReplacedAlike ==
    ASSUME NEW all, NEW new, NEW s, NEW l, NEW label, IsLabelOf(all, s, l),
           Replaced(all, new, s, l, label),
           label.name = all[s].labels[l].name,
           all[s].labels[l].refCount # 0 => label.refCount # 0,
           Len(label.blocks) = Len(all[s].labels[l].blocks),
           \A b \in 1..Len(label.blocks) : label.blocks[b].name = all[s].labels[l].blocks[b].name
    PROVE  Alike(all, new)
  <1>1. \A r, k : IsLabelOf(all, r, k) <=> IsLabelOf(new, r, k)
    BY DEF Replaced, IsLabelOf
  <1>2. ASSUME NEW r, NEW k, IsLabelOf(all, r, k)
        PROVE  SameLabel(all[r].labels[k], new[r].labels[k])
    <2>1. new[r].labels[k] = IF r = s /\ k = l THEN label ELSE all[r].labels[k]
      BY <1>2 DEF Replaced, IsLabelOf
    <2>2. CASE r = s /\ k = l
      BY <2>1, <2>2 DEF SameLabel
    <2>3. CASE ~(r = s /\ k = l)
      BY <2>1, <2>3 DEF SameLabel
    <2> QED BY <2>2, <2>3
  <1>3. ASSUME NEW r, NEW k, NEW b
        PROVE  IsBlockOf(all, r, k, b) <=> IsBlockOf(new, r, k, b)
    <2>1. CASE IsLabelOf(all, r, k)
      <3>1. IsLabelOf(new, r, k) /\ Len(new[r].labels[k].blocks) = Len(all[r].labels[k].blocks)
        BY <1>1, <1>2, <2>1 DEF SameLabel
      <3> QED BY <2>1, <3>1, Zenon DEF IsBlockOf
    <2>2. CASE ~IsLabelOf(all, r, k)
      BY <1>1, <2>2, Zenon DEF IsBlockOf
    <2> QED BY <2>1, <2>2
  <1>4. \A r, k : IsLabelOf(all, r, k) =>
           /\ IsLabelOf(new, r, k)
           /\ new[r].labels[k].name = all[r].labels[k].name
           /\ all[r].labels[k].refCount # 0 => new[r].labels[k].refCount # 0
    BY <1>1, <1>2 DEF SameLabel
  <1>5. ASSUME NEW r, NEW k, NEW b, IsBlockOf(all, r, k, b)
        PROVE  /\ IsBlockOf(new, r, k, b)
               /\ new[r].labels[k].blocks[b].name = all[r].labels[k].blocks[b].name
    <2>1. IsLabelOf(all, r, k) /\ b \in 1..Len(all[r].labels[k].blocks)
      BY <1>5 DEF IsBlockOf
    <2>2. SameLabel(all[r].labels[k], new[r].labels[k])
      BY <1>2, <2>1
    <2> QED BY <1>3, <1>5, <2>1, <2>2 DEF SameLabel
  <1> QED BY <1>3, <1>4, <1>5 DEF Alike

ItemsOf(all, s, l, b) == all[s].labels[l].blocks[b].items

\* A block gets other items.
WithItems(all, s, l, b, items) == [all EXCEPT ![s].labels[l].blocks[b].items = items]

OnlyItems(all, new, s, l, b, items) ==
    \A r, k, c : IsBlockOf(all, r, k, c) =>
        ItemsOf(new, r, k, c) = IF r = s /\ k = l /\ c = b THEN items ELSE ItemsOf(all, r, k, c)

LEMMA WithItemsProperties ==
    ASSUME NEW all, IsProgram(all), NEW s, NEW l, NEW b, IsBlockOf(all, s, l, b),
           NEW items, Listed(items)
    PROVE  /\ IsProgram(WithItems(all, s, l, b, items))
           /\ Alike(all, WithItems(all, s, l, b, items))
           /\ OnlyItems(all, WithItems(all, s, l, b, items), s, l, b, items)
  <1> DEFINE old    == all[s].labels[l]
             block  == [old.blocks[b] EXCEPT !.items = items]
             blocks == Put(old.blocks, b, block)
             label  == [old EXCEPT !.blocks = blocks]
             new    == Relabelled(all, s, l, label)
  <1>1. WithItems(all, s, l, b, items) = new
    BY DEF WithItems, Relabelled, Put
  <1>2. IsLabelOf(all, s, l) /\ IsLabel(old) /\ b \in 1..Len(old.blocks) /\ IsBlock(old.blocks[b])
    BY LabelOfProgram, BlockOfProgram DEF IsBlockOf
  <1>3. IsBlock(block) /\ block.items = items /\ block.name = old.blocks[b].name
    BY <1>2 DEF IsBlock
  <1> HIDE DEF block
  <1>4. /\ Listed(blocks) /\ Len(blocks) = Len(old.blocks)
        /\ blocks[b] = block
        /\ \A c \in 1..Len(old.blocks) : c # b => blocks[c] = old.blocks[c]
    BY <1>2, PutListed DEF IsLabel
  <1> HIDE DEF blocks
  <1>5. /\ DOMAIN label = {"name", "refCount", "blocks"} /\ label.blocks = blocks
        /\ label.name = old.name /\ label.refCount = old.refCount
    BY <1>2 DEF IsLabel
  <1>6. IsLabel(label)
    BY <1>2, <1>3, <1>4, <1>5 DEF IsLabel
  <1> HIDE DEF label
  <1>7. IsProgram(new) /\ Replaced(all, new, s, l, label)
    BY <1>2, <1>6, RelabelledProperties
  <1> HIDE DEF new
  <1>8. Alike(all, new)
    <2>1. \A c \in 1..Len(label.blocks) : label.blocks[c].name = old.blocks[c].name
      BY <1>3, <1>4, <1>5
    <2> QED BY <1>2, <1>4, <1>5, <1>7, <2>1, ReplacedAlike
  <1>9. OnlyItems(all, new, s, l, b, items)
    BY <1>3, <1>4, <1>5, <1>7 DEF OnlyItems, ItemsOf, Replaced, IsLabelOf, IsBlockOf
  <1> QED BY <1>1, <1>7, <1>8, <1>9

\* A label is used once more.
LEMMA CountedProperties ==
    ASSUME NEW all, IsProgram(all), NEW s, NEW l, IsLabelOf(all, s, l)
    PROVE  /\ IsProgram(Counted(all, << s, l >>))
           /\ Alike(all, Counted(all, << s, l >>))
           /\ \A r, k, c : IsBlockOf(all, r, k, c) =>
                 ItemsOf(Counted(all, << s, l >>), r, k, c) = ItemsOf(all, r, k, c)
           /\ Counted(all, << s, l >>)[s].labels[l].refCount # 0
  <1> DEFINE old   == all[s].labels[l]
             label == [old EXCEPT !.refCount = @ + 1]
             new   == Relabelled(all, s, l, label)
  <1>1. Counted(all, << s, l >>) = new
    BY DEF Counted, Relabelled
  <1>2. IsLabel(old)
    BY LabelOfProgram
  <1>3. /\ DOMAIN label = {"name", "refCount", "blocks"} /\ label.blocks = old.blocks
        /\ label.name = old.name /\ label.refCount = old.refCount + 1 /\ old.refCount \in Nat
    BY <1>2 DEF IsLabel
  <1> HIDE DEF label
  <1>4. label.refCount \in Nat /\ label.refCount # 0
    BY <1>3
  <1>5. IsLabel(label)
    BY <1>2, <1>3, <1>4 DEF IsLabel
  <1>6. IsProgram(new) /\ Replaced(all, new, s, l, label)
    BY <1>5, RelabelledProperties
  <1> HIDE DEF new
  <1>7. Alike(all, new)
    BY <1>3, <1>4, <1>6, ReplacedAlike
  <1>8. \A r, k, c : IsBlockOf(all, r, k, c) => ItemsOf(new, r, k, c) = ItemsOf(all, r, k, c)
    BY <1>3, <1>6 DEF ItemsOf, Replaced, IsLabelOf, IsBlockOf
  <1>9. new[s].labels[l].refCount # 0
    BY <1>4, <1>6 DEF Replaced, IsLabelOf
  <1> QED BY <1>1, <1>6, <1>7, <1>8, <1>9
-----------------------------------------------------------------------------
(* Operands.                                                               *)

Parts == {"base", "index", "offset"}

IsPart(part) == DOMAIN part = {"type", "data", "sign"}

IsComplex(data) ==
    /\ DOMAIN data = {"base", "index", "offset", "stage", "sign"}
    /\ data.stage \in Parts
    /\ \A p \in Parts : IsPart(data[p])

IsOperand(op) ==
    /\ DOMAIN op = {"type", "size", "data"}
    /\ op.type = "COMPLEX" => IsComplex(op.data)

\* An operand that points only where another did, and to more.
Points(new, op, more) == IsOperand(new) /\ PlacesOf(new) \subseteq PlacesOf(op) \cup more

PartOf(new, op, more) ==
    IsPart(new) /\ (Named(new.type) => new.data \in PlacesOf(op) \cup more)

LEMMA BadPoints ==
    ASSUME NEW op, NEW more
    PROVE  Points(BadOperand, op, more)
  BY DEF Points, BadOperand, IsOperand, PlacesOf, Named

LEMMA PartsPoint ==
    ASSUME NEW op, IsOperand(op), op.type = "COMPLEX", NEW more
    PROVE  \A p \in Parts : PartOf(op.data[p], op, more)
  BY DEF PartOf, IsOperand, IsComplex, PlacesOf, Parts, Named

LEMMA ComplexPoints ==
    ASSUME NEW op, NEW new, NEW more,
           DOMAIN new = {"type", "size", "data"}, new.type = "COMPLEX",
           DOMAIN new.data = {"base", "index", "offset", "stage", "sign"},
           new.data.stage \in Parts,
           \A p \in Parts : PartOf(new.data[p], op, more)
    PROVE  Points(new, op, more)
  BY DEF Points, PartOf, IsOperand, IsComplex, PlacesOf, Parts, Named

LEMMA NoItemPoints ==
    ASSUME NEW op, NEW more
    PROVE  PartOf(NoItem, op, more)
  BY DEF NoItem, PartOf, IsPart, Named

LEMMA FirstPartPoints ==
    ASSUME NEW op, IsOperand(op), NEW part, NEW more, PartOf(part, op, more)
    PROVE  Points([op EXCEPT !.type = "COMPLEX", !.data = Complex(part)], op, more)
  <1> DEFINE new == [op EXCEPT !.type = "COMPLEX", !.data = Complex(part)]
  <1>1. /\ DOMAIN new = {"type", "size", "data"} /\ new.type = "COMPLEX"
        /\ new.data = Complex(part)
    BY DEF IsOperand
  <1> HIDE DEF new
  <1>2. /\ DOMAIN new.data = {"base", "index", "offset", "stage", "sign"}
        /\ new.data.stage \in Parts
        /\ new.data["base"] = part /\ new.data["index"] = NoItem /\ new.data["offset"] = NoItem
    BY <1>1 DEF Complex, Parts
  <1>3. \A p \in Parts : PartOf(new.data[p], op, more)
    BY <1>2, NoItemPoints DEF Parts
  <1>4. Points(new, op, more)
    BY <1>1, <1>2, <1>3, ComplexPoints
  <1> QED BY <1>4 DEF new

LEMMA NextPartPoints ==
    ASSUME NEW op, IsOperand(op), op.type = "COMPLEX", NEW p \in Parts,
           NEW part, NEW more, PartOf(part, op, more)
    PROVE  Points([op EXCEPT !.data[p] = part], op, more)
  <1> DEFINE new == [op EXCEPT !.data[p] = part]
  <1>1. /\ DOMAIN new = {"type", "size", "data"} /\ new.type = "COMPLEX"
        /\ new.data = [op.data EXCEPT ![p] = part]
    BY DEF IsOperand
  <1> HIDE DEF new
  <1>2. /\ DOMAIN new.data = {"base", "index", "offset", "stage", "sign"}
        /\ new.data.stage = op.data.stage /\ op.data.stage \in Parts
        /\ \A q \in Parts : new.data[q] = IF q = p THEN part ELSE op.data[q]
    BY <1>1 DEF Parts, IsOperand, IsComplex
  <1>3. \A q \in Parts : PartOf(new.data[q], op, more)
    <2> TAKE q \in Parts
    <2>1. CASE q = p
      BY <1>2, <2>1
    <2>2. CASE q # p
      BY <1>2, <2>2, PartsPoint
    <2> QED BY <2>1, <2>2
  <1>4. Points(new, op, more)
    BY <1>1, <1>2, <1>3, ComplexPoints
  <1> QED BY <1>4 DEF new

LEMMA PlacedPoints ==
    ASSUME NEW op, IsOperand(op), NEW part, NEW more, PartOf(part, op, more)
    PROVE  Points(Placed(op, part), op, more)
  <1>1. CASE op.type = "POTENTIAL_MEMORY"
    BY <1>1, FirstPartPoints DEF Placed
  <1>2. CASE op.type = "COMPLEX" /\ op.data[op.data.stage].type = "NONE"
    <2>1. op.data.stage \in Parts
      BY <1>2 DEF IsOperand, IsComplex
    <2>2. Placed(op, part) = [op EXCEPT !.data[op.data.stage] = part]
      BY <1>2 DEF Placed
    <2> QED BY <1>2, <2>1, <2>2, NextPartPoints
  <1>3. CASE op.type # "POTENTIAL_MEMORY" /\ ~(op.type = "COMPLEX" /\ op.data[op.data.stage].type = "NONE")
    BY <1>3, BadPoints DEF Placed
  <1> QED BY <1>1, <1>2, <1>3

LEMMA NumberPart ==
    ASSUME NEW op, NEW data, NEW more
    PROVE  PartOf(Present("IMMEDIATE", data), op, more)
  BY DEF PartOf, Present, IsPart, Named

\* A number behind a base or an index, or in the part whose turn it is.
LEMMA ComplexWithNumberPoints ==
    ASSUME NEW op, IsOperand(op), op.type = "COMPLEX", NEW n, NEW more
    PROVE  Points(ComplexWithNumber(op, n), op, more)
  <1> DEFINE c      == op.data
             value  == IF c.stage = "offset" /\ ~c.sign THEN -n ELSE n
             number == Present("IMMEDIATE", Digits(value, Shortest(value)))
             first  == c.stage # "offset" /\ c[c.stage].type # "NONE"
             second == value < 0 /\ c.offset.type = "NONE" /\ (c.stage = "base" => c.index.type = "NONE")
  <1>1. ComplexWithNumber(op, n) =
           IF first THEN IF second THEN [op EXCEPT !.data.offset = number] ELSE BadOperand
           ELSE Placed(op, number)
    BY DEF ComplexWithNumber
  <1>2. PartOf(number, op, more)
    BY NumberPart
  <1> HIDE DEF number, first, second
  <1>3. CASE first /\ second
    <2>1. Points([op EXCEPT !.data["offset"] = number], op, more)
      BY <1>2, NextPartPoints DEF Parts
    <2> QED BY <1>1, <1>3, <2>1
  <1>4. CASE first /\ ~second
    BY <1>1, <1>4, BadPoints
  <1>5. CASE ~first
    BY <1>1, <1>2, <1>5, PlacedPoints
  <1> QED BY <1>3, <1>4, <1>5

LEMMA WithNumberPoints ==
    ASSUME NEW op, IsOperand(op), NEW n, NEW more
    PROVE  Points(WithNumber(op, n), op, more)
  <1>1. CASE op.type = "NONE"
    BY <1>1 DEF WithNumber, Points, IsOperand, PlacesOf, Named
  <1>2. CASE op.type = "POTENTIAL_MEMORY"
    BY <1>2 DEF WithNumber, Points, IsOperand, PlacesOf, Named
  <1>3. CASE op.type = "MEMORY"
    <2> DEFINE part == Present("IMMEDIATE", op.data)
               complex == [op EXCEPT !.type = "COMPLEX", !.data = Complex(part)]
    <2>1. PartOf(part, op, more)
      BY NumberPart
    <2>2. Points(complex, op, more)
      BY <2>1, FirstPartPoints
    <2>3. complex.type = "COMPLEX"
      BY DEF IsOperand
    <2>4. WithNumber(op, n) = ComplexWithNumber(complex, n)
      BY <1>3 DEF WithNumber
    <2> HIDE DEF complex
    <2>5. Points(ComplexWithNumber(complex, n), complex, more)
      BY <2>2, <2>3, ComplexWithNumberPoints DEF Points
    <2> QED BY <2>2, <2>4, <2>5 DEF Points
  <1>4. CASE op.type = "COMPLEX"
    BY <1>4, ComplexWithNumberPoints DEF WithNumber
  <1>5. CASE op.type \notin {"NONE", "POTENTIAL_MEMORY", "MEMORY", "COMPLEX"}
    BY <1>5, BadPoints DEF WithNumber
  <1> QED BY <1>1, <1>2, <1>3, <1>4, <1>5

LEMMA WithRegisterPoints ==
    ASSUME NEW op, IsOperand(op), NEW id, NEW more
    PROVE  Points(WithRegister(op, id), op, more)
  <1>1. CASE op.type \in {"NONE", "UNKNOWN"}
    BY <1>1 DEF WithRegister, Points, IsOperand, PlacesOf, Named
  <1>2. CASE op.type \in {"POTENTIAL_MEMORY", "COMPLEX"}
    <2>1. PartOf(Present("REGISTER", id), op, more)
      BY DEF PartOf, Present, IsPart, Named
    <2> QED BY <1>2, <2>1, PlacedPoints DEF WithRegister
  <1>3. CASE op.type \notin {"NONE", "UNKNOWN", "POTENTIAL_MEMORY", "COMPLEX"}
    BY <1>3, BadPoints DEF WithRegister
  <1> QED BY <1>1, <1>2, <1>3

LEMMA WithReferencePoints ==
    ASSUME NEW op, IsOperand(op), NEW kind \in {"LABEL", "SUBLABEL"}, NEW place
    PROVE  Points(WithReference(op, kind, place), op, {place})
  <1>1. CASE place = << >>
    <2>1. WithReference(op, kind, place) = BadOperand
      BY <1>1 DEF WithReference
    <2> QED BY <2>1, BadPoints
  <1>2. CASE place # << >> /\ op.type = "NONE"
    BY <1>2 DEF WithReference, Points, IsOperand, PlacesOf, Named
  <1>3. CASE place # << >> /\ op.type \in {"POTENTIAL_MEMORY", "COMPLEX"}
    <2>1. PartOf(Present(kind, place), op, {place})
      BY DEF PartOf, Present, IsPart, Named
    <2> QED BY <1>3, <2>1, PlacedPoints DEF WithReference
  <1>4. CASE place # << >> /\ op.type \notin {"NONE", "POTENTIAL_MEMORY", "COMPLEX"}
    BY <1>4, BadPoints DEF WithReference
  <1> QED BY <1>1, <1>2, <1>3, <1>4

\* The next part begins.
LEMMA NextStagePoints ==
    ASSUME NEW op, IsOperand(op), op.type = "COMPLEX", NEW data, NEW more,
           DOMAIN data = {"base", "index", "offset", "stage", "sign"},
           data.stage \in Parts,
           \A p \in Parts : data[p] = op.data[p] \/ data[p] = NoItem
    PROVE  Points([op EXCEPT !.data = data], op, more)
  <1> DEFINE new == [op EXCEPT !.data = data]
  <1>1. DOMAIN new = {"type", "size", "data"} /\ new.type = "COMPLEX" /\ new.data = data
    BY DEF IsOperand
  <1>2. \A p \in Parts : PartOf(data[p], op, more)
    BY PartsPoint, NoItemPoints
  <1> HIDE DEF new
  <1>3. Points(new, op, more)
    BY <1>1, <1>2, ComplexPoints
  <1> QED BY <1>3 DEF new

LEMMA WithOperatorPoints ==
    ASSUME NEW op, IsOperand(op), NEW symbol, NEW more
    PROVE  Points(WithOperator(op, symbol), op, more)
  <1> DEFINE complex == IF op.type = "MEMORY"
                        THEN [op EXCEPT !.type = "COMPLEX", !.data = Complex(Shortened(op.data))] ELSE op
             signed == [complex.data EXCEPT !.stage = "offset", !.sign = symbol = "+",
                            !.index = IF complex.data.stage = "base" THEN NoItem ELSE @]
             times == [complex.data EXCEPT !.stage = "index"]
  <1>1. CASE op.type \notin {"MEMORY", "COMPLEX"}
    <2>1. WithOperator(op, symbol) = BadOperand
      BY <1>1 DEF WithOperator
    <2> QED BY <2>1, BadPoints
  <1>2. CASE op.type \in {"MEMORY", "COMPLEX"}
    <2>1. Points(complex, op, more) /\ complex.type = "COMPLEX"
      <3>1. CASE op.type = "MEMORY"
        <4>1. PartOf(Shortened(op.data), op, more)
          BY DEF Shortened, PartOf, Present, IsPart, Named
        <4>2. Points([op EXCEPT !.type = "COMPLEX", !.data = Complex(Shortened(op.data))], op, more)
          BY <4>1, FirstPartPoints
        <4> QED BY <3>1, <4>2 DEF IsOperand
      <3>2. CASE op.type = "COMPLEX"
        BY <3>2, <1>2 DEF Points
      <3> QED BY <1>2, <3>1, <3>2
    <2>2. WithOperator(op, symbol) =
            CASE symbol \in {"+", "-"} /\ complex.data.stage \in {"base", "index"} ->
                   [complex EXCEPT !.data = signed]
              [] symbol = "*" /\ complex.data.stage = "base" -> [complex EXCEPT !.data = times]
              [] OTHER -> BadOperand
      BY <1>2 DEF WithOperator
    <2> HIDE DEF complex
    <2>3. IsOperand(complex) /\ IsComplex(complex.data)
      BY <2>1 DEF Points, IsOperand
    <2>4. CASE symbol \in {"+", "-"} /\ complex.data.stage \in {"base", "index"}
      <3>1. /\ DOMAIN signed = {"base", "index", "offset", "stage", "sign"}
            /\ signed.stage \in Parts
            /\ \A p \in Parts : signed[p] = complex.data[p] \/ signed[p] = NoItem
        BY <2>3 DEF IsComplex, Parts
      <3> HIDE DEF signed
      <3>2. Points([complex EXCEPT !.data = signed], complex, more)
        BY <2>1, <2>3, <3>1, NextStagePoints
      <3> QED BY <2>1, <2>2, <2>4, <3>2 DEF Points
    <2>5. CASE ~(symbol \in {"+", "-"} /\ complex.data.stage \in {"base", "index"})
               /\ symbol = "*" /\ complex.data.stage = "base"
      <3>1. /\ DOMAIN times = {"base", "index", "offset", "stage", "sign"}
            /\ times.stage \in Parts
            /\ \A p \in Parts : times[p] = complex.data[p] \/ times[p] = NoItem
        BY <2>3 DEF IsComplex, Parts
      <3> HIDE DEF times
      <3>2. Points([complex EXCEPT !.data = times], complex, more)
        BY <2>1, <2>3, <3>1, NextStagePoints
      <3> QED BY <2>1, <2>2, <2>5, <3>2 DEF Points
    <2>6. CASE ~(symbol \in {"+", "-"} /\ complex.data.stage \in {"base", "index"})
               /\ ~(symbol = "*" /\ complex.data.stage = "base")
      BY <2>2, <2>6, BadPoints
    <2> QED BY <2>4, <2>5, <2>6
  <1> QED BY <1>1, <1>2

LEMMA WithSizePoints ==
    ASSUME NEW op, NEW size, NEW more
    PROVE  Points(WithSize(op, size), op, more)
  <1>1. CASE op.type = "NONE"
    BY <1>1 DEF WithSize, Points, IsOperand, PlacesOf, Named
  <1>2. CASE op.type # "NONE"
    <2>1. WithSize(op, size) = BadOperand
      BY <1>2 DEF WithSize
    <2> QED BY <2>1, BadPoints
  <1> QED BY <1>1, <1>2

LEMMA WithBracketPoints ==
    ASSUME NEW op, IsOperand(op), NEW more
    PROVE  Points(WithBracket(op), op, more)
  BY DEF WithBracket, Points, IsOperand, PlacesOf, Named

LEMMA NoOperandPoints == IsOperand(NoOperand) /\ PlacesOf(NoOperand) = {}
  BY DEF NoOperand, IsOperand, PlacesOf, Named

\* Whatever the token, the operand points to no more than what the token names.
Mentioned ==
    CASE Tok.type = "LABEL"    -> {FindLabel(Tok.value)}
      [] Tok.type = "SUBLABEL" -> {FindSublabel(Tok.value)}
      [] OTHER                 -> {}

LEMMA ContinuedPoints ==
    ASSUME NEW op, IsOperand(op), Tok.type \in OperandTokens
    PROVE  Points(Continued(op), op, Mentioned)
  <1>1. CASE Tok.type = "SIZE"
    BY <1>1, WithSizePoints DEF Continued
  <1>2. CASE Tok.type = "LBRACKET"
    BY <1>2, WithBracketPoints DEF Continued
  <1>3. CASE Tok.type = "NUMBER"
    BY <1>3, WithNumberPoints DEF Continued
  <1>4. CASE Tok.type = "REGISTER"
    BY <1>4, WithRegisterPoints DEF Continued
  <1>5. CASE Tok.type = "LABEL"
    BY <1>5, WithReferencePoints DEF Continued, Mentioned
  <1>6. CASE Tok.type = "SUBLABEL"
    BY <1>6, WithReferencePoints DEF Continued, Mentioned
  <1>7. CASE Tok.type = "OPERATOR"
    BY <1>7, WithOperatorPoints DEF Continued
  <1> QED BY <1>1, <1>2, <1>3, <1>4, <1>5, <1>6, <1>7 DEF OperandTokens

-----------------------------------------------------------------------------
(* Names.                                                                  *)

LEMMA MinOfNat ==
    ASSUME NEW S \in SUBSET Nat, S # {}
    PROVE  Min(S) \in S /\ \A x \in S : Min(S) <= x
  <1> DEFINE Less == {p \in Nat \X Nat : p[1] < p[2]}
  <1>1. IsWellFoundedOn(Less, Nat)
    BY NatLessThanWellFounded, Zenon DEF OpToRel
  <1>2. \E x \in S : \A y \in S : <<y, x>> \notin Less
    <2> HIDE DEF Less
    <2> QED BY <1>1, WFMin
  <1>3. \A x, y \in Nat : y < x => <<y, x>> \in Less
    OBVIOUS
  <1>4. \E x \in S : \A y \in S : x <= y
    <2> HIDE DEF Less
    <2>1. PICK x \in S : \A y \in S : <<y, x>> \notin Less
      BY <1>2
    <2>2. ASSUME NEW y \in S
          PROVE  x <= y
      <3>1. x \in Nat /\ y \in Nat /\ ~(y < x)
        BY <1>3, <2>1
      <3> QED BY <3>1
    <2> QED BY <2>2
  <1> QED BY <1>4 DEF Min

\* The first of a list that has a name.
LEMMA FirstNamedFound ==
    ASSUME NEW list, Listed(list), NEW name, FirstNamed(list, name) # 0
    PROVE  /\ FirstNamed(list, name) \in 1..Len(list)
           /\ list[FirstNamed(list, name)].name = name
  <1> DEFINE I == {i \in 1..Len(list) : list[i].name = name}
  <1>1. FirstNamed(list, name) = IF I # {} THEN Min(I) ELSE 0
    BY DEF FirstNamed, SelectInSeq
  <1>2. I \in SUBSET Nat
    BY DEF Listed
  <1>3. \A i \in I : i \in 1..Len(list) /\ list[i].name = name
    OBVIOUS
  <1> HIDE DEF I
  <1>4. Min(I) \in I /\ FirstNamed(list, name) = Min(I)
    BY <1>1, <1>2, MinOfNat
  <1> QED BY <1>3, <1>4

IsLabelList == 
    /\ Listed(m_labels)
    /\ \A k \in 1..Len(m_labels) : \E s, l : m_labels[k] = << s, l >> /\ IsLabelOf(sections, s, l)

LEMMA FindLabelFound ==
    ASSUME IsLabelList, NEW name, FindLabel(name) # << >>
    PROVE  \E s, l : FindLabel(name) = << s, l >> /\ IsLabelOf(sections, s, l)
  <1> DEFINE I == {i \in 1..Len(m_labels) : sections[m_labels[i][1]].labels[m_labels[i][2]].name = name}
             k == IF I # {} THEN Min(I) ELSE 0
  <1>1. FindLabel(name) = IF k = 0 THEN << >> ELSE m_labels[k]
    BY DEF FindLabel, SelectInSeq
  <1>2. I \in SUBSET Nat /\ I \subseteq 1..Len(m_labels)
    BY DEF IsLabelList, Listed
  <1> HIDE DEF I
  <1>3. k # 0 => k \in 1..Len(m_labels)
    BY <1>2, MinOfNat
  <1> HIDE DEF k
  <1>4. k \in 1..Len(m_labels) /\ FindLabel(name) = m_labels[k]
    BY <1>1, <1>3
  <1> QED BY <1>4 DEF IsLabelList

Pointed == IsBlockOf(sections, currentSection, currentLabel, currentBlock)

LEMMA FindSublabelFound ==
    ASSUME IsProgram(sections), Pointed, NEW name, FindSublabel(name) # << >>
    PROVE  \E b : /\ FindSublabel(name) = << currentSection, currentLabel, b >>
                  /\ IsBlockOf(sections, currentSection, currentLabel, b)
                  /\ sections[currentSection].labels[currentLabel].blocks[b].name = name
  <1> DEFINE blocks == sections[currentSection].labels[currentLabel].blocks
             b == FirstNamed(blocks, name)
  <1>1. IsLabelOf(sections, currentSection, currentLabel)
    BY DEF Pointed, IsBlockOf
  <1>2. Listed(blocks)
    BY <1>1, LabelOfProgram DEF IsLabel
  <1>3. FindSublabel(name) = << currentSection, currentLabel, b >> /\ b # 0
    BY DEF FindSublabel
  <1> HIDE DEF b
  <1>4. b \in 1..Len(blocks) /\ blocks[b].name = name
    <2> HIDE DEF blocks
    <2> QED BY <1>2, <1>3, FirstNamedFound DEF b
  <1> QED BY <1>1, <1>3, <1>4 DEF IsBlockOf

LEMMA LabelOfFound ==
    ASSUME IsProgram(sections), Pointed, NEW name, LabelOf(name) # 0
    PROVE  IsLabelOf(sections, currentSection, LabelOf(name))
  <1>1. IsLabelOf(sections, currentSection, currentLabel)
    BY DEF Pointed, IsBlockOf
  <1>2. Listed(sections[currentSection].labels)
    BY <1>1, LabelOfProgram DEF IsSection
  <1>3. LabelOf(name) \in 1..Len(sections[currentSection].labels)
    BY <1>2, FirstNamedFound DEF LabelOf
  <1> QED BY <1>1, <1>3 DEF IsLabelOf

\* Every label has a first block.
LEMMA FirstBlock ==
    ASSUME NEW all, IsProgram(all), NEW s, NEW l, IsLabelOf(all, s, l)
    PROVE  IsBlockOf(all, s, l, 1)
  <1>1. Len(all[s].labels[l].blocks) \in Nat /\ Len(all[s].labels[l].blocks) >= 1
    BY LabelOfProgram DEF IsLabel, Listed
  <1> QED BY <1>1 DEF IsBlockOf

LEMMA FirstLabel ==
    ASSUME NEW all, IsProgram(all), NEW s \in 1..Len(all)
    PROVE  IsLabelOf(all, s, 1)
  <1>1. Len(all[s].labels) \in Nat /\ Len(all[s].labels) >= 1
    BY DEF IsProgram, IsSection, Listed
  <1> QED BY <1>1 DEF IsLabelOf

-----------------------------------------------------------------------------
(* Items.                                                                  *)

\* An instruction is a record with a list of operands, a reference one with a
\* pointer; the rest is free.
IsItem(item) ==
    /\ item.kind = "block" => DOMAIN item = {"kind", "block"}
    /\ item.kind = "ins" =>
          /\ DOMAIN item = {"kind", "ins"}
          /\ DOMAIN item.ins = {"opcode", "operands"}
          /\ Listed(item.ins.operands)
          /\ \A i \in 1..Len(item.ins.operands) : IsOperand(item.ins.operands[i])

AreItems(all) ==
    \A s, l, b : IsBlockOf(all, s, l, b) =>
        \A i \in 1..Len(ItemsOf(all, s, l, b)) : IsItem(ItemsOf(all, s, l, b)[i])

\* A label that is counted, or a block that has a name.
Good(all, place) ==
    \/ \E s, l : /\ place = << s, l >>
                 /\ IsLabelOf(all, s, l)
                 /\ all[s].labels[l].refCount # 0
    \/ \E s, l, b : /\ place = << s, l, b >>
                    /\ IsBlockOf(all, s, l, b)
                    /\ all[s].labels[l].blocks[b].name # Unnamed

IsGood(all, item) == \A place \in PlacesIn(item) : Good(all, place)

\* The items of one program, by the labels and blocks of another.
AreGoodIn(x, all) ==
    \A s, l, b : IsBlockOf(all, s, l, b) =>
        \A i \in 1..Len(ItemsOf(all, s, l, b)) : IsGood(x, ItemsOf(all, s, l, b)[i])

AreGood(all) == AreGoodIn(all, all)

LEMMA GoodPlaceAlike ==
    ASSUME NEW all, NEW new, Alike(all, new), NEW place, Good(all, place)
    PROVE  Good(new, place)
  <1>1. CASE \E s, l : /\ place = << s, l >> /\ IsLabelOf(all, s, l)
                       /\ all[s].labels[l].refCount # 0
    <2>1. PICK s, l : /\ place = << s, l >> /\ IsLabelOf(all, s, l)
                      /\ all[s].labels[l].refCount # 0
      BY <1>1
    <2>2. IsLabelOf(new, s, l) /\ new[s].labels[l].refCount # 0
      BY <2>1 DEF Alike
    <2> QED BY <2>1, <2>2 DEF Good
  <1>2. CASE \E s, l, b : /\ place = << s, l, b >> /\ IsBlockOf(all, s, l, b)
                          /\ all[s].labels[l].blocks[b].name # Unnamed
    <2>1. PICK s, l, b : /\ place = << s, l, b >> /\ IsBlockOf(all, s, l, b)
                         /\ all[s].labels[l].blocks[b].name # Unnamed
      BY <1>2
    <2>2. IsBlockOf(new, s, l, b)
          /\ new[s].labels[l].blocks[b].name = all[s].labels[l].blocks[b].name
      <3>1. \A r, k, c : IsBlockOf(all, r, k, c) =>
               /\ IsBlockOf(new, r, k, c)
               /\ new[r].labels[k].blocks[c].name = all[r].labels[k].blocks[c].name
        BY Zenon DEF Alike
      <3>2. IsBlockOf(all, s, l, b)
        BY <2>1
      <3> QED BY <3>1, <3>2
    <2>3. new[s].labels[l].blocks[b].name # Unnamed
      BY <2>1, <2>2
    <2>4. place = << s, l, b >>
      BY <2>1
    <2> QED BY <2>2, <2>3, <2>4, ZenonT(60) DEF Good
  <1> QED BY <1>1, <1>2 DEF Good

LEMMA GoodAlike ==
    ASSUME NEW all, NEW new, Alike(all, new), NEW item, IsGood(all, item)
    PROVE  IsGood(new, item)
  BY GoodPlaceAlike DEF IsGood

LEMMA AreGoodAlike ==
    ASSUME NEW all, NEW x, NEW y, AreGoodIn(x, all), Alike(x, y)
    PROVE  AreGoodIn(y, all)
  BY GoodAlike DEF AreGoodIn

LEMMA ItemsListed ==
    ASSUME NEW all, IsProgram(all), NEW s, NEW l, NEW b, IsBlockOf(all, s, l, b)
    PROVE  Listed(ItemsOf(all, s, l, b)) /\ Len(ItemsOf(all, s, l, b)) \in Nat
  <1>1. Listed(ItemsOf(all, s, l, b))
    BY BlockOfProgram DEF IsBlock, ItemsOf
  <1> QED BY <1>1 DEF Listed

\* One block has other items, of which all but one are those it had.
LEMMA NewItems ==
    ASSUME NEW all, IsProgram(all), NEW new, NEW s, NEW l, NEW b, NEW items,
           OnlyItems(all, new, s, l, b, items), Alike(all, new),
           NEW n, NEW item, items[n] = item,
           \A i \in 1..Len(items) : i # n => /\ i \in 1..Len(ItemsOf(all, s, l, b))
                                              /\ items[i] = ItemsOf(all, s, l, b)[i],
           IsBlockOf(all, s, l, b)
    PROVE  /\ AreItems(all) /\ IsItem(item) => AreItems(new)
           /\ \A x : AreGoodIn(x, all) /\ IsGood(x, item) => AreGoodIn(x, new)
  <1>1. ASSUME NEW r, NEW k, NEW c, IsBlockOf(new, r, k, c), NEW i \in 1..Len(ItemsOf(new, r, k, c))
        PROVE  \/ ItemsOf(new, r, k, c)[i] = item
               \/ \E j \in 1..Len(ItemsOf(all, r, k, c)) :
                     IsBlockOf(all, r, k, c) /\ ItemsOf(new, r, k, c)[i] = ItemsOf(all, r, k, c)[j]
    <2>1. IsBlockOf(all, r, k, c)
      BY <1>1 DEF Alike
    <2>2. ItemsOf(new, r, k, c) = IF r = s /\ k = l /\ c = b THEN items ELSE ItemsOf(all, r, k, c)
      BY <2>1 DEF OnlyItems
    <2>3. CASE r = s /\ k = l /\ c = b
      <3>1. i \in 1..Len(items) /\ ItemsOf(new, r, k, c) = items
        BY <2>2, <2>3
      <3>2. CASE i = n
        BY <3>1, <3>2
      <3>3. CASE i # n
        BY <2>1, <2>3, <3>1, <3>3
      <3> QED BY <3>2, <3>3
    <2>4. CASE ~(r = s /\ k = l /\ c = b)
      BY <2>1, <2>2, <2>4
    <2> QED BY <2>3, <2>4
  <1>2. ASSUME AreItems(all), IsItem(item)
        PROVE  AreItems(new)
    BY <1>1, <1>2 DEF AreItems
  <1>3. ASSUME NEW x, AreGoodIn(x, all), IsGood(x, item)
        PROVE  AreGoodIn(x, new)
    BY <1>1, <1>3 DEF AreGoodIn
  <1> QED BY <1>2, <1>3

LEMMA SameItems ==
    ASSUME NEW all, NEW new, Alike(all, new),
           \A r, k, c : IsBlockOf(all, r, k, c) => ItemsOf(new, r, k, c) = ItemsOf(all, r, k, c)
    PROVE  /\ AreItems(all) => AreItems(new)
           /\ \A x : AreGoodIn(x, all) => AreGoodIn(x, new)
  <1>1. \A r, k, c : IsBlockOf(new, r, k, c) =>
           IsBlockOf(all, r, k, c) /\ ItemsOf(new, r, k, c) = ItemsOf(all, r, k, c)
    BY DEF Alike
  <1>2. ASSUME AreItems(all)
        PROVE  AreItems(new)
    BY <1>1, <1>2 DEF AreItems
  <1>3. ASSUME NEW x, AreGoodIn(x, all)
        PROVE  AreGoodIn(x, new)
    BY <1>1, <1>3 DEF AreGoodIn
  <1> QED BY <1>2, <1>3

-----------------------------------------------------------------------------
(* The invariant.                                                          *)

Here == ItemsOf(sections, currentSection, currentLabel, currentBlock)

StructureInv ==
    /\ IsProgram(sections)
    /\ Pointed
    /\ IsLabelList
    /\ AreItems(sections)

\* Before the second scan nothing is in the blocks.
Fresh ==
    /\ \A s, l, b : IsBlockOf(sections, s, l, b) => ItemsOf(sections, s, l, b) = << >>
    /\ ~inInstruction /\ ~inOperand /\ currentOperand = 0 /\ currentData = << >>

\* The item is the last of the current block.
AtEnd ==
    /\ Len(Here) >= 1
    /\ currentData = << currentSection, currentLabel, currentBlock, Len(Here) >>

CursorInv ==
    /\ FlagsAgree
    /\ inInstruction => AtEnd /\ Here[Len(Here)].kind = "ins"
    /\ inDirective \in DOMAIN DirectiveItems => currentData # << >>
    /\ inDirective # "" /\ currentData # << >> => AtEnd
    /\ currentOperand # 0 => currentOperand = Len(Here[Len(Here)].ins.operands)

Working == {"simplify", "scan", "parse", "clean"}

ParserInv ==
    /\ pc \in Working => StructureInv
    /\ pc \in {"simplify", "scan"} => Fresh
    /\ pc = "parse" => CursorInv

\* The item of a new one, at the end of the current block.
LEMMA AddItemProperties ==
    ASSUME StructureInv, NEW item, NEW new, new = AddItem(sections, item)
    PROVE  /\ IsProgram(new) /\ Alike(sections, new)
           /\ IsItem(item) => AreItems(new)
           /\ \A x : AreGoodIn(x, sections) /\ IsGood(x, item) => AreGoodIn(x, new)
           /\ LET items == ItemsOf(new, currentSection, currentLabel, currentBlock)
              IN  /\ Len(items) = Len(Here) + 1 /\ Len(Here) \in Nat
                  /\ items[Len(items)] = item
                  /\ NextItem = << currentSection, currentLabel, currentBlock, Len(items) >>
  <1> DEFINE items == Append(Here, item)
             block == WithItems(sections, currentSection, currentLabel, currentBlock, items)
  <1>1. IsProgram(sections) /\ IsBlockOf(sections, currentSection, currentLabel, currentBlock)
        /\ AreItems(sections)
    BY DEF StructureInv, Pointed
  <1>2. new = block
    BY DEF AddItem, WithItems, Here, ItemsOf
  <1>3. Listed(Here) /\ Len(Here) \in Nat
    BY <1>1, ItemsListed DEF Here
  <1>4. /\ Listed(items) /\ Len(items) = Len(Here) + 1
        /\ items[Len(Here) + 1] = item
        /\ \A i \in 1..Len(Here) : items[i] = Here[i]
    BY <1>3, AppendListed
  <1> HIDE DEF items
  <1>5. /\ IsProgram(new) /\ Alike(sections, new)
        /\ OnlyItems(sections, new, currentSection, currentLabel, currentBlock, items)
    BY <1>1, <1>2, <1>4, WithItemsProperties
  <1>6. \A i \in 1..Len(items) : i # Len(items) => i \in 1..Len(Here) /\ items[i] = Here[i]
    BY <1>3, <1>4
  <1>7. /\ AreItems(sections) /\ IsItem(item) => AreItems(new)
        /\ \A x : AreGoodIn(x, sections) /\ IsGood(x, item) => AreGoodIn(x, new)
    BY <1>1, <1>4, <1>5, <1>6, NewItems DEF Here
  <1>8. ItemsOf(new, currentSection, currentLabel, currentBlock) = items
    BY <1>1, <1>5 DEF OnlyItems
  <1>9. NextItem = << currentSection, currentLabel, currentBlock, Len(Here) + 1 >>
    BY FourthAppended DEF NextItem, Current, BlockAt, Here, ItemsOf
  <1> QED BY <1>1, <1>3, <1>4, <1>5, <1>7, <1>8, <1>9

\* The last item of the current block is filled in.
LEMMA SetItemProperties ==
    ASSUME StructureInv, AtEnd, NEW item, NEW new, new = SetItem(sections, currentData, item)
    PROVE  /\ IsProgram(new) /\ Alike(sections, new)
           /\ IsItem(item) => AreItems(new)
           /\ \A x : AreGoodIn(x, sections) /\ IsGood(x, item) => AreGoodIn(x, new)
           /\ LET items == ItemsOf(new, currentSection, currentLabel, currentBlock)
              IN  Len(items) = Len(Here) /\ items[Len(items)] = item
  <1> DEFINE n     == Len(Here)
             items == Put(Here, n, item)
             block == WithItems(sections, currentSection, currentLabel, currentBlock, items)
  <1>1. IsProgram(sections) /\ IsBlockOf(sections, currentSection, currentLabel, currentBlock)
        /\ AreItems(sections)
    BY DEF StructureInv, Pointed
  <1>2. new = block
    BY DEF SetItem, WithItems, Here, ItemsOf, AtEnd, Put
  <1>3. Listed(Here) /\ n \in Nat /\ n \in 1..Len(Here)
    BY <1>1, ItemsListed DEF Here, AtEnd
  <1>4. /\ Listed(items) /\ Len(items) = Len(Here)
        /\ items[n] = item
        /\ \A i \in 1..Len(Here) : i # n => items[i] = Here[i]
    BY <1>3, PutListed
  <1> HIDE DEF items
  <1>5. /\ IsProgram(new) /\ Alike(sections, new)
        /\ OnlyItems(sections, new, currentSection, currentLabel, currentBlock, items)
    BY <1>1, <1>2, <1>4, WithItemsProperties
  <1>6. \A i \in 1..Len(items) : i # n => i \in 1..Len(Here) /\ items[i] = Here[i]
    BY <1>3, <1>4
  <1>7. /\ AreItems(sections) /\ IsItem(item) => AreItems(new)
        /\ \A x : AreGoodIn(x, sections) /\ IsGood(x, item) => AreGoodIn(x, new)
    BY <1>1, <1>4, <1>5, <1>6, NewItems DEF Here
  <1>8. ItemsOf(new, currentSection, currentLabel, currentBlock) = items
    BY <1>1, <1>5 DEF OnlyItems
  <1> QED BY <1>1, <1>4, <1>5, <1>7, <1>8

-----------------------------------------------------------------------------
(* The first scan.                                                         *)

NoItems(all) == \A s, l, b : IsBlockOf(all, s, l, b) => ItemsOf(all, s, l, b) = << >>

Grown(all, new) ==
    /\ IsProgram(new)
    /\ \A s, l : IsLabelOf(all, s, l) => IsLabelOf(new, s, l)
    /\ \A s, l, b : IsBlockOf(all, s, l, b) => IsBlockOf(new, s, l, b)
    /\ NoItems(new)

LEMMA NewBlockProperties ==
    ASSUME NEW name
    PROVE  IsBlock(NewBlock(name)) /\ NewBlock(name).items = << >>
  BY EmptyListed DEF IsBlock, NewBlock

LEMMA NewLabelProperties ==
    ASSUME NEW name
    PROVE  /\ IsLabel(NewLabel(name))
           /\ \A b \in 1..Len(NewLabel(name).blocks) : NewLabel(name).blocks[b].items = << >>
  <1> DEFINE label == NewLabel(name)
  <1>1. /\ DOMAIN label = {"name", "refCount", "blocks"} /\ label.refCount = 0
        /\ label.blocks = << NewBlock(Unnamed) >>
    BY DEF NewLabel
  <1> HIDE DEF label
  <1>2. /\ Listed(label.blocks) /\ Len(label.blocks) = 1
        /\ label.blocks[1] = NewBlock(Unnamed)
    BY <1>1, SingleListed
  <1>3. \A b \in 1..Len(label.blocks) : b = 1
    BY <1>2
  <1> QED BY <1>1, <1>2, <1>3, NewBlockProperties DEF IsLabel, label

LEMMA NewSectionProperties ==
    ASSUME NEW name
    PROVE  /\ IsSection(NewSection(name))
           /\ \A l \in 1..Len(NewSection(name).labels) :
                 \A b \in 1..Len(NewSection(name).labels[l].blocks) :
                    NewSection(name).labels[l].blocks[b].items = << >>
  <1> DEFINE section == NewSection(name)
  <1>1. /\ DOMAIN section = {"name", "org", "labels"}
        /\ section.labels = << NewLabel(Unnamed) >>
    BY DEF NewSection
  <1> HIDE DEF section
  <1>2. /\ Listed(section.labels) /\ Len(section.labels) = 1
        /\ section.labels[1] = NewLabel(Unnamed)
    BY <1>1, SingleListed
  <1>3. \A l \in 1..Len(section.labels) : l = 1
    BY <1>2
  <1> QED BY <1>1, <1>2, <1>3, NewLabelProperties DEF IsSection, section

LEMMA FirstProgram ==
    IsProgram(<< NewSection("text") >>) /\ NoItems(<< NewSection("text") >>)
  <1> DEFINE all == << NewSection("text") >>
  <1>1. Listed(all) /\ Len(all) = 1 /\ all[1] = NewSection("text")
    BY SingleListed
  <1> HIDE DEF all
  <1>2. \A s \in 1..Len(all) : s = 1
    BY <1>1
  <1>3. IsProgram(all)
    BY <1>1, <1>2, NewSectionProperties DEF IsProgram
  <1>4. ASSUME NEW s, NEW l, NEW b, IsBlockOf(all, s, l, b)
        PROVE  ItemsOf(all, s, l, b) = << >>
    <2>1. s = 1 /\ all[s] = NewSection("text")
          /\ l \in 1..Len(all[s].labels) /\ b \in 1..Len(all[s].labels[l].blocks)
      BY <1>1, <1>2, <1>4 DEF IsBlockOf, IsLabelOf
    <2> QED BY <2>1, NewSectionProperties DEF ItemsOf
  <1> QED BY <1>3, <1>4 DEF NoItems, all

LEMMA SectionGrown ==
    ASSUME NEW all, IsProgram(all), NoItems(all), NEW name
    PROVE  Grown(all, Append(all, NewSection(name)))
  <1> DEFINE new == Append(all, NewSection(name))
  <1>1. PICK n \in Nat : n = Len(all) /\ n >= 1
    BY DEF IsProgram, Listed
  <1>2. /\ Listed(new) /\ Len(new) = n + 1
        /\ new[n + 1] = NewSection(name)
        /\ \A s \in 1..n : new[s] = all[s]
    BY <1>1, AppendListed DEF IsProgram
  <1> HIDE DEF new
  <1>3. \A s \in 1..Len(new) : s \in 1..n \/ s = n + 1
    BY <1>2
  <1>4. IsProgram(new)
    <2>1. \A s \in 1..Len(new) : IsSection(new[s])
      BY <1>1, <1>2, <1>3, NewSectionProperties DEF IsProgram
    <2>2. Len(new) >= 1
      BY <1>2
    <2> QED BY <1>2, <2>1, <2>2 DEF IsProgram
  <1>5. /\ \A s, l : IsLabelOf(all, s, l) => IsLabelOf(new, s, l)
        /\ \A s, l, b : IsBlockOf(all, s, l, b) => IsBlockOf(new, s, l, b)
    BY <1>1, <1>2 DEF IsLabelOf, IsBlockOf
  <1>6. ASSUME NEW s, NEW l, NEW b, IsBlockOf(new, s, l, b)
        PROVE  ItemsOf(new, s, l, b) = << >>
    <2>1. CASE s = n + 1
      <3>1. new[s] = NewSection(name) /\ l \in 1..Len(new[s].labels) /\ b \in 1..Len(new[s].labels[l].blocks)
        BY <1>2, <1>6, <2>1 DEF IsBlockOf, IsLabelOf
      <3>2. ItemsOf(new, s, l, b) = NewSection(name).labels[l].blocks[b].items
        BY <3>1 DEF ItemsOf
      <3> QED BY <3>1, <3>2, NewSectionProperties, Zenon
    <2>2. CASE s \in 1..n
      <3>1. new[s] = all[s] /\ s \in 1..Len(all)
        BY <1>1, <1>2, <2>2
      <3>2. IsBlockOf(all, s, l, b)
        BY <1>6, <3>1 DEF IsBlockOf, IsLabelOf
      <3> QED BY <3>1, <3>2 DEF ItemsOf, NoItems
    <2> QED BY <1>3, <1>6, <2>1, <2>2 DEF IsBlockOf, IsLabelOf
  <1> QED BY <1>4, <1>5, <1>6 DEF Grown, NoItems, new

LEMMA LabelGrown ==
    ASSUME NEW all, IsProgram(all), NoItems(all), NEW label, IsLabel(label),
           \A b \in 1..Len(label.blocks) : label.blocks[b].items = << >>,
           NEW s, NEW new, s = Len(all),
           new = [all EXCEPT ![s].labels = Append(@, label)]
    PROVE  Grown(all, new) /\ IsLabelOf(new, s, Len(all[s].labels) + 1)
  <1> DEFINE old     == all[s]
             labels  == Append(old.labels, label)
             section == [old EXCEPT !.labels = labels]
  <1>1. s \in 1..Len(all) /\ IsSection(old) /\ Listed(all)
    BY DEF IsProgram, Listed
  <1>2. new = Put(all, s, section)
    BY DEF Put
  <1>3. PICK n \in Nat : n = Len(old.labels) /\ n >= 1
    BY <1>1 DEF IsSection, Listed
  <1>4. /\ Listed(labels) /\ Len(labels) = n + 1
        /\ labels[n + 1] = label
        /\ \A l \in 1..n : labels[l] = old.labels[l]
    BY <1>1, <1>3, AppendListed DEF IsSection
  <1> HIDE DEF labels
  <1>5. \A l \in 1..Len(labels) : l \in 1..n \/ l = n + 1
    BY <1>4
  <1>6. DOMAIN section = {"name", "org", "labels"} /\ section.labels = labels
    BY <1>1 DEF IsSection
  <1>7. IsSection(section)
    <2>1. \A l \in 1..Len(labels) : IsLabel(labels[l])
      BY <1>1, <1>3, <1>4, <1>5 DEF IsSection
    <2>2. Len(labels) >= 1
      BY <1>4
    <2> QED BY <1>4, <1>6, <2>1, <2>2 DEF IsSection
  <1> HIDE DEF section
  <1>8. /\ Listed(new) /\ Len(new) = Len(all)
        /\ new[s] = section
        /\ \A r \in 1..Len(all) : r # s => new[r] = all[r]
    <2> DEFINE put == Put(all, s, section)
    <2>1. /\ Listed(put) /\ Len(put) = Len(all)
          /\ put[s] = section
          /\ \A r \in 1..Len(all) : r # s => put[r] = all[r]
      BY <1>1, PutListed
    <2> HIDE DEF put
    <2>2. new = put
      BY <1>2 DEF put
    <2> QED BY <2>1, <2>2, Zenon
  <1>9. IsProgram(new)
    BY <1>7, <1>8 DEF IsProgram
  <1>10. \A l \in 1..n : l \in 1..Len(labels)
    BY <1>4
  <1>11. /\ \A r, l : IsLabelOf(all, r, l) => IsLabelOf(new, r, l)
         /\ \A r, l, b : IsBlockOf(all, r, l, b) => IsBlockOf(new, r, l, b)
    <2>1. ASSUME NEW r, NEW l, IsLabelOf(all, r, l)
          PROVE  IsLabelOf(new, r, l) /\ new[r].labels[l] = all[r].labels[l]
      <3>1. CASE r = s
        BY <1>3, <1>4, <1>6, <1>8, <1>10, <2>1, <3>1 DEF IsLabelOf
      <3>2. CASE r # s
        BY <1>8, <2>1, <3>2 DEF IsLabelOf
      <3> QED BY <3>1, <3>2
    <2>2. ASSUME NEW r, NEW l, NEW b, IsBlockOf(all, r, l, b)
          PROVE  IsBlockOf(new, r, l, b)
      <3>1. IsLabelOf(all, r, l) /\ b \in 1..Len(all[r].labels[l].blocks)
        BY <2>2 DEF IsBlockOf
      <3>2. IsLabelOf(all, r, l)
        BY <3>1
      <3>3. IsLabelOf(new, r, l) /\ new[r].labels[l] = all[r].labels[l]
        BY <2>1, <3>2, ZenonT(60)
      <3> QED BY <3>1, <3>3 DEF IsBlockOf
    <2> QED BY <2>1, <2>2
  <1>12. ASSUME NEW r, NEW l, NEW b, IsBlockOf(new, r, l, b)
         PROVE  ItemsOf(new, r, l, b) = << >>
    <2>1. r \in 1..Len(all) /\ l \in 1..Len(new[r].labels) /\ b \in 1..Len(new[r].labels[l].blocks)
      BY <1>8, <1>12 DEF IsBlockOf, IsLabelOf
    <2>2. CASE r = s /\ l = n + 1
      BY <1>4, <1>6, <1>8, <2>1, <2>2 DEF ItemsOf
    <2>3. CASE r = s /\ l \in 1..n
      BY <1>3, <1>4, <1>6, <1>8, <2>1, <2>3 DEF ItemsOf, NoItems, IsBlockOf, IsLabelOf
    <2>4. CASE r # s
      BY <1>8, <2>1, <2>4 DEF ItemsOf, NoItems, IsBlockOf, IsLabelOf
    <2> QED BY <1>5, <1>6, <1>8, <2>1, <2>2, <2>3, <2>4
  <1>13. n + 1 \in 1..Len(labels)
    BY <1>4
  <1>14. IsLabelOf(new, s, n + 1)
    BY <1>1, <1>6, <1>8, <1>13 DEF IsLabelOf
  <1> QED BY <1>3, <1>9, <1>11, <1>12, <1>14 DEF Grown, NoItems

LEMMA BlockGrown ==
    ASSUME NEW all, IsProgram(all), NoItems(all), NEW block, IsBlock(block), block.items = << >>,
           NEW s, NEW l, IsLabelOf(all, s, l), NEW new,
           new = [all EXCEPT ![s].labels[l].blocks = Append(@, block)]
    PROVE  Grown(all, new)
  <1> DEFINE old    == all[s].labels[l]
             blocks == Append(old.blocks, block)
             label  == [old EXCEPT !.blocks = blocks]
  <1>1. new = Relabelled(all, s, l, label)
    BY DEF Relabelled
  <1>2. IsLabel(old)
    BY LabelOfProgram
  <1>3. PICK n \in Nat : n = Len(old.blocks) /\ n >= 1
    BY <1>2 DEF IsLabel, Listed
  <1>4. /\ Listed(blocks) /\ Len(blocks) = n + 1
        /\ blocks[n + 1] = block
        /\ \A b \in 1..n : blocks[b] = old.blocks[b]
    BY <1>2, <1>3, AppendListed DEF IsLabel
  <1> HIDE DEF blocks
  <1>5. /\ \A b \in 1..Len(blocks) : b \in 1..n \/ b = n + 1
        /\ \A b \in 1..n : b \in 1..Len(blocks)
        /\ Len(blocks) >= 1
    BY <1>4
  <1>6. /\ DOMAIN label = {"name", "refCount", "blocks"} /\ label.blocks = blocks
        /\ label.refCount = old.refCount
    BY <1>2 DEF IsLabel
  <1> HIDE DEF label
  <1>7. IsLabel(label)
    BY <1>2, <1>3, <1>4, <1>5, <1>6 DEF IsLabel
  <1>8. IsProgram(new) /\ Replaced(all, new, s, l, label)
    <2>1. /\ IsProgram(Relabelled(all, s, l, label))
          /\ Replaced(all, Relabelled(all, s, l, label), s, l, label)
      BY <1>7, RelabelledProperties
    <2> QED BY <1>1, <2>1, Zenon
  <1>9. \A r, k : IsLabelOf(all, r, k) <=> IsLabelOf(new, r, k)
    BY <1>8 DEF Replaced, IsLabelOf
  <1>10. new[s].labels[l] = label
         /\ \A r, k : IsLabelOf(all, r, k) /\ ~(r = s /\ k = l) => new[r].labels[k] = all[r].labels[k]
    BY <1>8 DEF Replaced, IsLabelOf
  <1>11. ASSUME NEW r, NEW k, NEW b, IsBlockOf(all, r, k, b)
         PROVE  IsBlockOf(new, r, k, b)
    <2>1. CASE r = s /\ k = l
      BY <1>3, <1>5, <1>6, <1>9, <1>10, <1>11, <2>1 DEF IsBlockOf
    <2>2. CASE ~(r = s /\ k = l)
      BY <1>9, <1>10, <1>11, <2>2 DEF IsBlockOf
    <2> QED BY <2>1, <2>2
  <1>12. ASSUME NEW r, NEW k, NEW b, IsBlockOf(new, r, k, b)
         PROVE  ItemsOf(new, r, k, b) = << >>
    <2>1. IsLabelOf(all, r, k) /\ b \in 1..Len(new[r].labels[k].blocks)
      BY <1>9, <1>12 DEF IsBlockOf
    <2>2. CASE ~(r = s /\ k = l)
      <3>1. new[r].labels[k] = all[r].labels[k]
        BY <1>10, <2>1, <2>2
      <3>2. IsBlockOf(all, r, k, b)
        BY <2>1, <3>1 DEF IsBlockOf
      <3>3. ItemsOf(all, r, k, b) = << >>
        BY <3>2 DEF NoItems
      <3> QED BY <3>1, <3>3 DEF ItemsOf
    <2>3. CASE r = s /\ k = l /\ b = n + 1
      BY <1>4, <1>6, <1>10, <2>3 DEF ItemsOf
    <2>4. CASE r = s /\ k = l /\ b \in 1..n
      <3>1. IsBlockOf(all, r, k, b)
        BY <1>3, <2>1, <2>4 DEF IsBlockOf
      <3>2. ItemsOf(new, r, k, b) = ItemsOf(all, r, k, b)
        BY <1>4, <1>6, <1>10, <2>1, <2>4 DEF ItemsOf
      <3> QED BY <3>1, <3>2 DEF NoItems
    <2> QED BY <1>5, <1>6, <1>10, <2>1, <2>2, <2>3, <2>4
  <1> QED BY <1>8, <1>9, <1>11, <1>12 DEF Grown, NoItems

LEMMA StructureUnchanged ==
    ASSUME StructureInv, UNCHANGED << sections, m_labels, currentVars >>
    PROVE  StructureInv'
  BY DEF StructureInv, Pointed, IsLabelList, currentVars

LEMMA NothingIn ==
    ASSUME NEW all, NoItems(all)
    PROVE  AreItems(all) /\ AreGood(all)
  <1>1. \A s, l, b : IsBlockOf(all, s, l, b) => 1..Len(ItemsOf(all, s, l, b)) = {}
    BY EmptyListed DEF NoItems
  <1> QED BY <1>1 DEF AreItems, AreGood, AreGoodIn

LEMMA InitParserInv == Init => ParserInv
  <1> SUFFICES ASSUME Init
               PROVE  ParserInv
    OBVIOUS
  <1>1. sections = << NewSection("text") >> /\ pc = "simplify"
        /\ currentSection = 1 /\ currentLabel = 1 /\ currentBlock = 1 /\ m_labels = << >>
        /\ ~inInstruction /\ ~inOperand /\ currentOperand = 0 /\ currentData = << >>
    BY DEF Init
  <1>2. IsProgram(sections) /\ NoItems(sections)
    BY <1>1, FirstProgram
  <1>3. Len(sections) = 1
    BY <1>1, SingleListed
  <1>4. 1 \in 1..Len(sections)
    BY <1>3
  <1>5. Pointed
    BY <1>1, <1>2, <1>4, FirstLabel, FirstBlock DEF Pointed
  <1>6. IsLabelList
    BY <1>1, EmptyListed DEF IsLabelList
  <1> QED BY <1>1, <1>2, <1>5, <1>6, NothingIn DEF ParserInv, StructureInv, Fresh, NoItems

LEMMA SimplifyParserInv ==
    ASSUME ParserInv, Simplify
    PROVE  ParserInv'
  <1> USE DEF ParserInv, StructureInv, Fresh, Working, Pointed, IsLabelList, currentVars, operandVars
  <1>1. CASE PassToken \/ OpenExpression \/ CollectToken
    BY <1>1 DEF PassToken, OpenExpression, CollectToken, Simplifying
  <1>2. CASE CloseExpression
    BY <1>2 DEF CloseExpression, Simplifying
  <1>3. CASE EndSimplify
    BY <1>3 DEF EndSimplify
  <1> QED BY <1>1, <1>2, <1>3 DEF Simplify

LEMMA ScanGrown ==
    ASSUME ParserInv, pc = "scan", UNCHANGED << currentVars, operandVars >>,
           Grown(sections, sections'), IsLabelList', pc' \in {"scan", "failed"}
    PROVE  ParserInv'
  <1>1. StructureInv'
    BY NothingIn DEF Grown, ParserInv, Working, StructureInv, Pointed, currentVars
  <1>2. Fresh'
    BY DEF ParserInv, Fresh, operandVars, Grown, NoItems
  <1> QED BY <1>1, <1>2 DEF ParserInv

LEMMA ScanParserInv ==
    ASSUME ParserInv, Scan
    PROVE  ParserInv'
  <1>1. CASE EndScan
    <2>1. pc = "scan" /\ StructureInv /\ Fresh
      BY <1>1 DEF EndScan, ParserInv, Working
    <2>2. UNCHANGED << sections, m_labels, currentVars, operandVars, inDirective >>
      BY <1>1 DEF EndScan
    <2>3. StructureInv'
      BY <2>1, <2>2, StructureUnchanged
    <2>4. CASE inDirective # ""
      BY <1>1, <2>3, <2>4 DEF EndScan, ParserInv, Working
    <2>5. CASE inDirective = ""
      <3>1. inDirective \notin DOMAIN DirectiveItems
        BY <2>5 DEF DirectiveItems
      <3>2. pc' = "parse" /\ CursorInv'
        <4>1. pc' = "parse"
          BY <1>1, <2>5 DEF EndScan
        <4>2. inDirective' = "" /\ currentOperand' = 0 /\ ~inInstruction' /\ ~inOperand'
          BY <2>1, <2>2, <2>5 DEF Fresh, operandVars
        <4>3. FlagsAgree'
          BY <4>2 DEF FlagsAgree
        <4>4. inDirective' \notin DOMAIN DirectiveItems
          BY <3>1, <2>2
        <4> QED BY <4>1, <4>2, <4>3, <4>4 DEF CursorInv
      <3> QED BY <2>3, <3>2 DEF ParserInv
    <2> QED BY <2>4, <2>5
  <1>2. CASE ScanDirective \/ ScanOther
    <2>1. pc = "scan" /\ pc' = "scan" /\ StructureInv /\ Fresh
          /\ UNCHANGED << sections, m_labels, currentVars, operandVars >>
      BY <1>2 DEF ScanDirective, ScanOther, Scanning, ParserInv, Working
    <2>2. StructureInv'
      BY <2>1, StructureUnchanged
    <2>3. Fresh'
      BY <2>1 DEF Fresh, operandVars
    <2> QED BY <2>1, <2>2, <2>3 DEF ParserInv
  <1>3. ASSUME ScanSection \/ ScanLabel \/ ScanSublabel
        PROVE  /\ pc = "scan" /\ UNCHANGED << currentVars, operandVars >>
               /\ IsProgram(sections) /\ NoItems(sections) /\ IsLabelList
               /\ pc' \in {"scan", "failed"}
    BY <1>3 DEF ScanSection, ScanLabel, ScanSublabel, Scanning, ParserInv, StructureInv, Fresh, NoItems, Working
  <1>4. CASE ScanSection
    <2>1. CASE Tok.type = "SUBLABEL"
      <3>1. Grown(sections, sections')
        BY <1>3, <1>4, <2>1, SectionGrown DEF ScanSection
      <3>2. IsLabelList'
        BY <1>3, <1>4, <3>1 DEF ScanSection, IsLabelList, Grown
      <3> QED BY <1>3, <1>4, <3>1, <3>2, ScanGrown
    <2>2. CASE Tok.type # "SUBLABEL"
      BY <1>4, <2>2 DEF ScanSection, ParserInv, Working
    <2> QED BY <2>1, <2>2
  <1>5. CASE ScanLabel
    <2> DEFINE s == Len(sections)
               l == Len(sections[s].labels) + 1
    <2>1. sections' = [sections EXCEPT ![s].labels = Append(@, NewLabel(Tok.value))]
          /\ m_labels' = Append(m_labels, << s, l >>)
      BY <1>5, LastListed DEF ScanLabel
    <2>2. IsLabel(NewLabel(Tok.value))
          /\ \A b \in 1..Len(NewLabel(Tok.value).blocks) : NewLabel(Tok.value).blocks[b].items = << >>
      BY NewLabelProperties
    <2>3. Grown(sections, sections') /\ IsLabelOf(sections', s, l)
      BY <1>3, <1>5, <2>1, <2>2, LabelGrown
    <2> HIDE DEF s, l
    <2>4. PICK list : list = Append(m_labels, << s, l >>)
      OBVIOUS
    <2>5. PICK n \in Nat : n = Len(m_labels)
      BY <1>3, <1>5 DEF IsLabelList, Listed
    <2>6. /\ Listed(list) /\ Len(list) = n + 1
          /\ list[n + 1] = << s, l >>
          /\ \A k \in 1..n : list[k] = m_labels[k]
      <3>1. /\ Listed(Append(m_labels, << s, l >>)) /\ Len(Append(m_labels, << s, l >>)) = n + 1
            /\ Append(m_labels, << s, l >>)[n + 1] = << s, l >>
            /\ \A k \in 1..n : Append(m_labels, << s, l >>)[k] = m_labels[k]
        BY <1>3, <1>5, <2>5, AppendListed DEF IsLabelList
      <3> QED BY <2>4, <3>1
    <2>7. \A k \in 1..(n + 1) : k \in 1..n \/ k = n + 1
      OBVIOUS
    <2>8. \A k \in 1..(n + 1) : \E r, i : list[k] = << r, i >> /\ IsLabelOf(sections', r, i)
      BY <1>3, <1>5, <2>3, <2>5, <2>6, <2>7 DEF IsLabelList, Grown
    <2>9. IsLabelList'
      BY <2>1, <2>4, <2>6, <2>8 DEF IsLabelList
    <2> QED BY <1>3, <1>5, <2>3, <2>9, ScanGrown
  <1>6. CASE ScanSublabel
    <2> DEFINE s == Len(sections)
               l == Len(sections[s].labels)
    <2>1. sections' = [sections EXCEPT ![s].labels[l].blocks = Append(@, NewBlock(Tok.value))]
          /\ m_labels' = m_labels
      BY <1>6, LastListed DEF ScanSublabel, LastLabel
    <2>2. IsLabelOf(sections, s, l)
      <3>1. s \in Nat /\ s >= 1 /\ s \in 1..Len(sections)
        BY <1>3, <1>6 DEF IsProgram, Listed
      <3>2. IsSection(sections[s])
        BY <1>3, <1>6, <3>1 DEF IsProgram
      <3>3. l \in Nat /\ l >= 1
        BY <3>2 DEF IsSection, Listed
      <3> QED BY <3>1, <3>3 DEF IsLabelOf
    <2>3. Grown(sections, sections')
      BY <1>3, <1>6, <2>1, <2>2, NewBlockProperties, BlockGrown
    <2>4. IsLabelList'
      BY <1>3, <1>6, <2>1, <2>3 DEF IsLabelList, Grown
    <2> QED BY <1>3, <1>6, <2>3, <2>4, ScanGrown
  <1> QED BY <1>1, <1>2, <1>4, <1>5, <1>6 DEF Scan

-----------------------------------------------------------------------------
(* The second scan.                                                        *)

\* The parser is not asked for a sub-label without a name.
NamedToken == Tok.type = "SUBLABEL" => Tok.value # Unnamed

Preserved == ParserInv' /\ (NamedToken /\ AreGood(sections) => AreGood(sections)')

LEMMA AlikeAlike ==
    ASSUME NEW x, NEW y, NEW z, Alike(x, y), Alike(y, z)
    PROVE  Alike(x, z)
  BY DEF Alike

LEMMA GoodStep ==
    ASSUME AreGood(sections), NEW new, Alike(sections, new), NEW item, IsGood(new, item),
           \A x : AreGoodIn(x, sections) /\ IsGood(x, item) => AreGoodIn(x, new)
    PROVE  AreGood(new)
  BY AreGoodAlike DEF AreGood

LEMMA StructureStep ==
    ASSUME StructureInv, IsProgram(sections'), Alike(sections, sections'), AreItems(sections'),
           m_labels' = m_labels, UNCHANGED currentVars
    PROVE  StructureInv'
  <1>1. Pointed'
    BY DEF StructureInv, Pointed, Alike, currentVars
  <1>2. IsLabelList'
    BY DEF StructureInv, IsLabelList, Alike
  <1> QED BY <1>1, <1>2 DEF StructureInv

LEMMA ParsingContext ==
    ASSUME ParserInv, NEW types, Parsing(types)
    PROVE  /\ StructureInv /\ CursorInv /\ FlagsAgree /\ pc = "parse" /\ pc' = "parse" /\ m_labels' = m_labels
           /\ inOperand => inInstruction
           /\ inInstruction => inDirective = ""
           /\ currentOperand # 0 => inOperand
           /\ Tok.type \in types
  BY DEF ParserInv, Parsing, Working, CursorInv, FlagsAgree

\* Between two statements.
LEMMA CursorIdle ==
    ASSUME ~inInstruction', ~inOperand', currentOperand' = 0, inDirective' = ""
    PROVE  CursorInv'
  <1>1. inDirective' \notin DOMAIN DirectiveItems
    BY DEF DirectiveItems
  <1>2. FlagsAgree'
    BY DEF FlagsAgree
  <1> QED BY <1>1, <1>2 DEF CursorInv

LEMMA WorkingParserInv ==
    ASSUME StructureInv', CursorInv', pc' = "parse"
    PROVE  ParserInv'
  BY DEF ParserInv

LEMMA PlainItem ==
    ASSUME NEW item, item.kind \in {"awaited", "raw", "align", "skip"}
    PROVE  IsItem(item) /\ \A all : IsGood(all, item)
  BY DEF IsItem, IsGood, PlacesIn

LEMMA BlockItem ==
    ASSUME NEW place
    PROVE  /\ IsItem([kind |-> "block", block |-> place])
           /\ \A all : Good(all, place) => IsGood(all, [kind |-> "block", block |-> place])
  BY DEF IsItem, IsGood, PlacesIn

LEMMA StartDirectiveStep ==
    ASSUME ParserInv, StartDirective
    PROVE  Preserved
  <1>1. StructureInv /\ pc' = "parse" /\ m_labels' = m_labels
        /\ ~inOperand /\ currentOperand = 0
    BY ParsingContext DEF StartDirective
  <1>2. ~inInstruction' /\ ~inOperand' /\ currentOperand' = 0 /\ inDirective' = Tok.value
        /\ UNCHANGED currentVars
    BY <1>1 DEF StartDirective
  <1>3. FlagsAgree'
    BY <1>2 DEF FlagsAgree
  <1>4. CASE Tok.value \in DOMAIN DirectiveItems
    <2> DEFINE item == Awaited
               items == ItemsOf(sections', currentSection, currentLabel, currentBlock)
    <2>1. sections' = AddItem(sections, item) /\ currentData' = NextItem
      BY <1>4 DEF StartDirective
    <2>2. IsItem(item) /\ IsGood(sections', item)
      BY PlainItem DEF Awaited
    <2> HIDE DEF item
    <2>3. /\ IsProgram(sections') /\ Alike(sections, sections')
          /\ AreItems(sections')
          /\ \A x : AreGoodIn(x, sections) /\ IsGood(x, item) => AreGoodIn(x, sections')
          /\ Len(items) = Len(Here) + 1 /\ Len(Here) \in Nat
          /\ NextItem = << currentSection, currentLabel, currentBlock, Len(items) >>
      BY <1>1, <2>1, <2>2, AddItemProperties
    <2>4. StructureInv'
      BY <1>1, <1>2, <2>3, StructureStep
    <2>5. items = Here'
      BY <1>2 DEF Here, currentVars
    <2> HIDE DEF items
    <2>6. AtEnd'
      <3>1. Len(items) >= 1
        BY <2>3
      <3> QED BY <1>2, <2>1, <2>3, <2>5, <3>1 DEF AtEnd, currentVars
    <2>7. CursorInv'
      <3>1. currentData' # << >>
        BY <2>1, <2>3
      <3> QED BY <1>2, <1>3, <2>6, <3>1 DEF CursorInv
    <2>8. AreGood(sections) => AreGood(sections')
      BY <2>2, <2>3, GoodStep
    <2> QED BY <1>1, <2>4, <2>7, <2>8, WorkingParserInv DEF Preserved
  <1>5. CASE Tok.value \notin DOMAIN DirectiveItems
    <2>1. sections' = sections /\ currentData' = << >>
      BY <1>5 DEF StartDirective
    <2>2. StructureInv'
      BY <1>1, <1>2, <2>1, StructureUnchanged
    <2>3. CursorInv'
      BY <1>2, <1>3, <1>5, <2>1 DEF CursorInv
    <2> QED BY <1>1, <2>1, <2>2, <2>3, WorkingParserInv DEF Preserved
  <1> QED BY <1>4, <1>5

\* The argument of a directive: afterwards nothing waits.
LEMMA ArgumentContext ==
    ASSUME ParserInv, NEW types, Argument(types)
    PROVE  /\ StructureInv /\ CursorInv /\ pc' = "parse" /\ m_labels' = m_labels
           /\ CursorInv'
           /\ currentOperand = 0
           /\ Tok.type \in types
  <1>1. Parsing(types) /\ inDirective # "" /\ inDirective' = ""
        /\ UNCHANGED << currentOperand, inInstruction, inOperand >>
    BY DEF Argument
  <1>2. /\ StructureInv /\ CursorInv /\ pc' = "parse" /\ m_labels' = m_labels
        /\ ~inInstruction /\ ~inOperand /\ currentOperand = 0 /\ Tok.type \in types
    BY <1>1, ParsingContext
  <1> QED BY <1>1, <1>2, CursorIdle

\* The directive has an item, which is filled in.
LEMMA FillStep ==
    ASSUME StructureInv, CursorInv, inDirective \in DOMAIN DirectiveItems, NEW item, IsItem(item),
           NEW new, new = SetItem(sections, currentData, item)
    PROVE  /\ IsProgram(new) /\ Alike(sections, new) /\ AreItems(new)
           /\ \A x : AreGoodIn(x, sections) /\ IsGood(x, item) => AreGoodIn(x, new)
  <1>1. inDirective # ""
    BY DEF DirectiveItems
  <1>2. AtEnd
    BY <1>1 DEF CursorInv
  <1> QED BY <1>2, SetItemProperties

LEMMA PlainFillStep ==
    ASSUME ParserInv, NEW types, Argument(types), inDirective \in DOMAIN DirectiveItems, UNCHANGED currentVars,
           NEW item, item.kind \in {"raw", "align", "skip"}, Fill(item)
    PROVE  Preserved
  <1>1. /\ StructureInv /\ CursorInv /\ pc' = "parse" /\ m_labels' = m_labels /\ CursorInv'
    BY ArgumentContext
  <1>2. IsItem(item) /\ IsGood(sections', item)
    BY PlainItem
  <1>3. sections' = SetItem(sections, currentData, item)
    BY DEF Fill
  <1>4. /\ IsProgram(sections') /\ Alike(sections, sections') /\ AreItems(sections')
        /\ \A x : AreGoodIn(x, sections) /\ IsGood(x, item) => AreGoodIn(x, sections')
    BY <1>1, <1>2, <1>3, FillStep
  <1>6. AreGood(sections) => AreGood(sections')
    BY <1>2, <1>4, GoodStep
  <1>5. StructureInv'
    BY <1>1, <1>4, StructureStep
  <1> QED BY <1>1, <1>5, <1>6, WorkingParserInv DEF Preserved

LEMMA TextStep ==
    ASSUME ParserInv, Text
    PROVE  Preserved
  <1>1. PICK item : item.kind = "raw" /\ Fill(item)
    BY DEF Text
  <1>2. inDirective \in DOMAIN DirectiveItems /\ Argument({"STRING"}) /\ UNCHANGED currentVars
    BY DEF Text, TextFits, DirectiveItems
  <1> QED BY <1>1, <1>2, PlainFillStep

LEMMA DatumStep ==
    ASSUME ParserInv, Datum
    PROVE  Preserved
  <1>1. PICK item : item.kind \in {"raw", "align", "skip"} /\ Fill(item)
    <2> DEFINE item == CASE inDirective = "align" -> [kind |-> "align", to |-> Tok.value]
                         [] inDirective = "skip"  -> [kind |-> "skip", by |-> Tok.value]
                         [] OTHER -> [kind |-> "raw", bytes |-> Digits(Tok.value, DirectiveItems[inDirective])]
    <2>1. Fill(item)
      BY DEF Datum
    <2>2. item.kind \in {"raw", "align", "skip"}
      <3>1. CASE inDirective = "align"
        BY <3>1
      <3>2. CASE inDirective = "skip"
        BY <3>2
      <3>3. CASE inDirective \notin {"align", "skip"}
        BY <3>3
      <3> QED BY <3>1, <3>2, <3>3
    <2> HIDE DEF item
    <2> QED BY <2>1, <2>2
  <1>2. inDirective \in DOMAIN DirectiveItems /\ Argument({"NUMBER"}) /\ UNCHANGED currentVars
    BY DEF Datum, DatumFits, DirectiveItems
  <1> QED BY <1>1, <1>2, PlainFillStep

LEMMA LabelDatumStep ==
    ASSUME ParserInv, LabelDatum
    PROVE  Preserved
  <1> DEFINE item == [kind |-> "block", block |-> FindLabel(Tok.value)]
             new  == SetItem(sections, currentData, item)
  <1>1. /\ StructureInv /\ CursorInv /\ pc' = "parse" /\ m_labels' = m_labels /\ CursorInv'
    BY ArgumentContext DEF LabelDatum
  <1>2. /\ inDirective \in DOMAIN DirectiveItems /\ FindLabel(Tok.value) # << >> /\ UNCHANGED currentVars
        /\ sections' = Counted(new, FindLabel(Tok.value))
    BY DEF LabelDatum, NameFits, DatumFits, DirectiveItems
  <1>3. IsItem(item) /\ \A all : Good(all, FindLabel(Tok.value)) => IsGood(all, item)
    BY BlockItem
  <1>4. PICK s, l : FindLabel(Tok.value) = << s, l >> /\ IsLabelOf(sections, s, l)
    BY <1>1, <1>2, FindLabelFound DEF StructureInv
  <1> HIDE DEF item
  <1>5. /\ IsProgram(new) /\ Alike(sections, new) /\ AreItems(new)
        /\ \A x : AreGoodIn(x, sections) /\ IsGood(x, item) => AreGoodIn(x, new)
    BY <1>1, <1>2, <1>3, FillStep
  <1> HIDE DEF new
  <1>6. IsLabelOf(new, s, l)
    BY <1>4, <1>5 DEF Alike
  <1>7. /\ IsProgram(sections') /\ Alike(new, sections')
        /\ AreItems(sections')
        /\ \A x : AreGoodIn(x, new) => AreGoodIn(x, sections')
        /\ sections'[s].labels[l].refCount # 0
    BY <1>2, <1>4, <1>5, <1>6, CountedProperties, SameItems
  <1>8. Alike(sections, sections')
    BY <1>5, <1>7, AlikeAlike
  <1>9. StructureInv'
    BY <1>1, <1>2, <1>7, <1>8, StructureStep
  <1>10. IsGood(sections', item)
    <2>1. IsLabelOf(sections', s, l)
      BY <1>6, <1>7 DEF Alike
    <2>2. Good(sections', FindLabel(Tok.value))
      BY <1>4, <1>7, <2>1 DEF Good
    <2> QED BY <1>3, <2>2
  <1>11. AreGood(sections) => AreGood(sections')
    BY <1>5, <1>7, <1>8, <1>10, GoodStep
  <1> QED BY <1>1, <1>9, <1>11, WorkingParserInv DEF Preserved

LEMMA SublabelDatumStep ==
    ASSUME ParserInv, SublabelDatum
    PROVE  Preserved
  <1> DEFINE item == [kind |-> "block", block |-> FindSublabel(Tok.value)]
  <1>1. /\ StructureInv /\ CursorInv /\ pc' = "parse" /\ m_labels' = m_labels /\ CursorInv'
        /\ Tok.type \in {"SUBLABEL"}
    BY ArgumentContext DEF SublabelDatum
  <1>2. /\ inDirective \in DOMAIN DirectiveItems /\ FindSublabel(Tok.value) # << >> /\ UNCHANGED currentVars
        /\ sections' = SetItem(sections, currentData, item)
    BY DEF SublabelDatum, NameFits, DatumFits, DirectiveItems, Fill
  <1>3. IsItem(item) /\ \A all : Good(all, FindSublabel(Tok.value)) => IsGood(all, item)
    BY BlockItem
  <1> HIDE DEF item
  <1>4. /\ IsProgram(sections') /\ Alike(sections, sections') /\ AreItems(sections')
        /\ \A x : AreGoodIn(x, sections) /\ IsGood(x, item) => AreGoodIn(x, sections')
    BY <1>1, <1>2, <1>3, FillStep
  <1>5. StructureInv'
    BY <1>1, <1>2, <1>4, StructureStep
  <1>6. ASSUME NamedToken, AreGood(sections)
        PROVE  AreGood(sections')
    <2>1. Good(sections, FindSublabel(Tok.value))
      BY <1>1, <1>2, <1>6, FindSublabelFound DEF StructureInv, NamedToken, Good
    <2>2. IsGood(sections', item)
      BY <1>3, <1>4, <2>1, GoodAlike
    <2> QED BY <1>4, <1>6, <2>2, GoodStep
  <1> QED BY <1>1, <1>5, <1>6, WorkingParserInv DEF Preserved

LEMMA SelectSectionStep ==
    ASSUME ParserInv, SelectSection
    PROVE  Preserved
  <1>1. /\ StructureInv /\ pc' = "parse" /\ m_labels' = m_labels /\ CursorInv'
    BY ArgumentContext DEF SelectSection
  <1>2. /\ currentSection' = currentSection + 1 /\ currentLabel' = 1 /\ currentBlock' = 1
        /\ sections' = sections /\ currentSection < Len(sections)
    BY DEF SelectSection, SectionFits
  <1>3. PICK n \in Nat : n = Len(sections)
    BY <1>1 DEF StructureInv, IsProgram, Listed
  <1>4. currentSection \in 1..n
    BY <1>1, <1>3 DEF StructureInv, Pointed, IsBlockOf, IsLabelOf
  <1>5. currentSection + 1 \in 1..n
    BY <1>2, <1>3, <1>4
  <1>6. IsBlockOf(sections, currentSection + 1, 1, 1)
    BY <1>1, <1>3, <1>5, FirstLabel, FirstBlock DEF StructureInv
  <1>7. StructureInv'
    BY <1>1, <1>2, <1>6 DEF StructureInv, Pointed, IsLabelList
  <1> QED BY <1>1, <1>2, <1>7, WorkingParserInv DEF Preserved

LEMMA SetOriginStep ==
    ASSUME ParserInv, SetOrigin
    PROVE  Preserved
  <1> DEFINE s       == currentSection
             section == [sections[s] EXCEPT !.org = Tok.value]
             put     == Put(sections, s, section)
  <1>1. /\ StructureInv /\ pc' = "parse" /\ m_labels' = m_labels /\ CursorInv'
    BY ArgumentContext DEF SetOrigin
  <1>2. sections' = put /\ UNCHANGED currentVars
    BY DEF SetOrigin, Put
  <1>3. IsProgram(sections) /\ Listed(sections) /\ s \in 1..Len(sections) /\ IsSection(sections[s])
    BY <1>1 DEF StructureInv, Pointed, IsBlockOf, IsLabelOf, IsProgram
  <1>4. DOMAIN section = {"name", "org", "labels"} /\ section.labels = sections[s].labels
    BY <1>3 DEF IsSection
  <1>5. IsSection(section)
    BY <1>3, <1>4 DEF IsSection
  <1> HIDE DEF section
  <1>6. /\ Listed(put) /\ Len(put) = Len(sections)
        /\ put[s] = section
        /\ \A r \in 1..Len(sections) : r # s => put[r] = sections[r]
    BY <1>3, PutListed
  <1> HIDE DEF put
  <1>7. IsProgram(put)
    BY <1>3, <1>5, <1>6 DEF IsProgram
  <1>8. \A r \in 1..Len(sections) : put[r].labels = sections[r].labels
    BY <1>4, <1>6
  <1>9. /\ \A r, k : IsLabelOf(put, r, k) <=> IsLabelOf(sections, r, k)
        /\ \A r, k : IsLabelOf(sections, r, k) => put[r].labels[k] = sections[r].labels[k]
    BY <1>6, <1>8 DEF IsLabelOf
  <1>10. Alike(sections, put)
    BY <1>9 DEF Alike, IsBlockOf
  <1>11. \A r, k, c : IsBlockOf(sections, r, k, c) => ItemsOf(put, r, k, c) = ItemsOf(sections, r, k, c)
    BY <1>9 DEF ItemsOf, IsBlockOf
  <1>12. AreItems(put) /\ \A x : AreGoodIn(x, sections) => AreGoodIn(x, put)
    BY <1>1, <1>10, <1>11, SameItems DEF StructureInv
  <1>13. StructureInv'
    BY <1>1, <1>2, <1>7, <1>10, <1>12, StructureStep
  <1>14. AreGood(sections) => AreGood(sections')
    BY <1>2, <1>10, <1>12, AreGoodAlike DEF AreGood
  <1> QED BY <1>1, <1>13, <1>14, WorkingParserInv DEF Preserved

\* The item stays, and whatever else a cursor points to.
LEMMA SameSectionsStep ==
    ASSUME StructureInv, pc' = "parse", UNCHANGED << sections, m_labels >>, Pointed', CursorInv'
    PROVE  Preserved
  <1>1. StructureInv'
    BY DEF StructureInv, IsLabelList
  <1>2. AreGood(sections) => AreGood(sections')
    OBVIOUS
  <1> QED BY <1>1, <1>2, WorkingParserInv DEF Preserved

LEMMA CommaStep ==
    ASSUME ParserInv, Comma
    PROVE  Preserved
  <1>1. /\ StructureInv /\ CursorInv /\ pc' = "parse" /\ m_labels' = m_labels
        /\ inInstruction => inDirective = ""
    BY ParsingContext DEF Comma
  <1>2. /\ inInstruction /\ inInstruction' = inInstruction /\ inDirective = ""
        /\ UNCHANGED << sections, currentVars, currentData, currentOperand, inDirective >>
        /\ inOperand' = TRUE
    BY DEF Comma
  <1>3. Pointed'
    BY <1>1, <1>2 DEF StructureInv, Pointed, currentVars
  <1>4. FlagsAgree'
    BY <1>2 DEF FlagsAgree
  <1>5. CursorInv'
    BY <1>1, <1>2, <1>4 DEF CursorInv, AtEnd, Here, currentVars
  <1> QED BY <1>1, <1>2, <1>3, <1>5, SameSectionsStep

LEMMA StartLabelStep ==
    ASSUME ParserInv, StartLabel
    PROVE  Preserved
  <1>1. /\ StructureInv /\ pc' = "parse" /\ m_labels' = m_labels
        /\ ~inOperand /\ currentOperand = 0
    BY ParsingContext DEF StartLabel
  <1>2. /\ currentSection' = currentSection /\ currentLabel' = LabelOf(Tok.value) /\ currentBlock' = 1
        /\ sections' = sections /\ LabelOf(Tok.value) # 0
        /\ ~inInstruction' /\ inOperand' = inOperand /\ currentOperand' = currentOperand /\ inDirective' = ""
    BY DEF StartLabel
  <1>3. IsBlockOf(sections, currentSection, LabelOf(Tok.value), 1)
    BY <1>1, <1>2, LabelOfFound, FirstBlock DEF StructureInv
  <1>4. Pointed'
    BY <1>2, <1>3 DEF Pointed
  <1>5. CursorInv'
    BY <1>1, <1>2, CursorIdle
  <1> QED BY <1>1, <1>2, <1>4, <1>5, SameSectionsStep

LEMMA StartSublabelStep ==
    ASSUME ParserInv, StartSublabel
    PROVE  Preserved
  <1>1. /\ StructureInv /\ pc' = "parse" /\ m_labels' = m_labels
        /\ ~inOperand /\ currentOperand = 0
    BY ParsingContext DEF StartSublabel
  <1>2. /\ currentSection' = currentSection /\ currentLabel' = currentLabel
        /\ currentBlock' = FindSublabel(Tok.value)[3] /\ FindSublabel(Tok.value) # << >>
        /\ sections' = sections
        /\ ~inInstruction' /\ inOperand' = inOperand /\ currentOperand' = currentOperand /\ inDirective' = ""
    BY DEF StartSublabel
  <1>3. PICK b : /\ FindSublabel(Tok.value) = << currentSection, currentLabel, b >>
                 /\ IsBlockOf(sections, currentSection, currentLabel, b)
    BY <1>1, <1>2, FindSublabelFound DEF StructureInv
  <1>4. Pointed'
    <2>1. PICK place : place = FindSublabel(Tok.value)
      OBVIOUS
    <2>2. place[3] = b
      BY <1>3, <2>1
    <2>3. currentBlock' = b
      BY <1>2, <2>1, <2>2
    <2> QED BY <1>2, <1>3, <2>3 DEF Pointed
  <1>5. CursorInv'
    BY <1>1, <1>2, CursorIdle
  <1> QED BY <1>1, <1>2, <1>4, <1>5, SameSectionsStep

LEMMA NewInstruction ==
    ASSUME NEW opcode, NEW item, item = [kind |-> "ins", ins |-> [opcode |-> opcode, operands |-> << >>]]
    PROVE  /\ item.kind = "ins" /\ IsItem(item)
           /\ Len(item.ins.operands) = 0
           /\ \A all : IsGood(all, item)
  <1>1. /\ DOMAIN item = {"kind", "ins"} /\ DOMAIN item.ins = {"opcode", "operands"}
        /\ item.kind = "ins" /\ item.ins.operands = << >>
    OBVIOUS
  <1>2. Listed(item.ins.operands) /\ Len(item.ins.operands) = 0 /\ DOMAIN item.ins.operands = {}
    BY <1>1, EmptyListed, ListedDomain
  <1>3. PlacesIn(item) = {}
    BY <1>1, <1>2 DEF PlacesIn
  <1> QED BY <1>1, <1>2, <1>3 DEF IsItem, IsGood

LEMMA StartInstructionStep ==
    ASSUME ParserInv, StartInstruction
    PROVE  Preserved
  <1> DEFINE items == ItemsOf(sections', currentSection, currentLabel, currentBlock)
  <1>1. StructureInv /\ pc' = "parse" /\ m_labels' = m_labels
        /\ ~inOperand /\ currentOperand = 0
    BY ParsingContext DEF StartInstruction
  <1>2. PICK item : /\ item = [kind |-> "ins", ins |-> [opcode |-> GetOpcode(Tok.value), operands |-> << >>]]
                    /\ sections' = AddItem(sections, item)
    BY DEF StartInstruction
  <1>3. /\ currentData' = NextItem /\ inInstruction' = inOperand' /\ UNCHANGED currentVars
        /\ currentOperand' = currentOperand /\ inDirective = "" /\ inDirective' = inDirective
    BY DEF StartInstruction
  <1>4. IsItem(item) /\ item.kind = "ins" /\ IsGood(sections', item)
    BY <1>2, NewInstruction
  <1>5. /\ IsProgram(sections') /\ Alike(sections, sections')
        /\ AreItems(sections')
        /\ \A x : AreGoodIn(x, sections) /\ IsGood(x, item) => AreGoodIn(x, sections')
        /\ Len(items) = Len(Here) + 1 /\ Len(Here) \in Nat
        /\ items[Len(items)] = item
        /\ NextItem = << currentSection, currentLabel, currentBlock, Len(items) >>
    BY <1>1, <1>2, <1>4, AddItemProperties
  <1>6. StructureInv'
    BY <1>1, <1>3, <1>5, StructureStep
  <1>7. items = Here'
    BY <1>3 DEF Here, currentVars
  <1> HIDE DEF items
  <1>8. AtEnd' /\ Here'[Len(Here')].kind = "ins"
    <2>1. Len(items) >= 1
      BY <1>5
    <2> QED BY <1>3, <1>4, <1>5, <1>7, <2>1 DEF AtEnd, currentVars
  <1>9. CursorInv'
    <2>1. FlagsAgree'
      BY <1>1, <1>3 DEF FlagsAgree
    <2>2. inDirective' \notin DOMAIN DirectiveItems
      BY <1>3 DEF DirectiveItems
    <2> QED BY <1>1, <1>3, <1>8, <2>1, <2>2 DEF CursorInv
  <1>10. AreGood(sections) => AreGood(sections')
    BY <1>4, <1>5, GoodStep
  <1> QED BY <1>1, <1>6, <1>9, <1>10, WorkingParserInv DEF Preserved

LEMMA InstructionPlaces ==
    ASSUME NEW item, item.kind = "ins"
    PROVE  \A place \in PlacesIn(item) :
             \E i \in DOMAIN item.ins.operands : place \in PlacesOf(item.ins.operands[i])
  BY DEF PlacesIn

Rewritten(item, k, op) ==
    [item EXCEPT !.ins.operands = IF k = 0 THEN Append(@, op) ELSE [@ EXCEPT ![k] = op]]

OperandIn(item, k) == IF k = 0 THEN NoOperand ELSE item.ins.operands[k]
PositionIn(item, k) == IF k = 0 THEN Len(item.ins.operands) + 1 ELSE k

\* The last operand of an instruction changes, or one comes after it.
LEMMA ChangedOperand ==
    ASSUME NEW item, IsItem(item), item.kind = "ins", NEW k, k \in {0, Len(item.ins.operands)},
           NEW op, NEW more, Points(op, OperandIn(item, k), more)
    PROVE  /\ IsItem(Rewritten(item, k, op)) /\ Rewritten(item, k, op).kind = "ins"
           /\ Len(Rewritten(item, k, op).ins.operands) = PositionIn(item, k)
           /\ PlacesIn(Rewritten(item, k, op)) \subseteq PlacesIn(item) \cup more
  <1>a. PICK old, position, new :
           old = OperandIn(item, k) /\ position = PositionIn(item, k) /\ new = Rewritten(item, k, op)
    OBVIOUS
  <1>b. /\ old = IF k = 0 THEN NoOperand ELSE item.ins.operands[k]
        /\ position = IF k = 0 THEN Len(item.ins.operands) + 1 ELSE k
        /\ Points(op, old, more)
    BY <1>a DEF OperandIn, PositionIn
  <1> DEFINE operands == item.ins.operands
  <1>1. PICK n \in Nat : n = Len(operands)
    BY DEF IsItem, Listed
  <1>2. Listed(operands) /\ \A i \in 1..n : IsOperand(operands[i])
    BY <1>1 DEF IsItem
  <1>3. PICK list : list = IF k = 0 THEN Append(operands, op) ELSE Put(operands, k, op)
    OBVIOUS
  <1>4. /\ DOMAIN new = {"kind", "ins"} /\ DOMAIN new.ins = {"opcode", "operands"}
        /\ new.kind = "ins" /\ new.ins.operands = list
    BY <1>a, <1>3 DEF IsItem, Put, Rewritten
  <1> HIDE DEF operands
  <1>5. /\ Listed(list) /\ Len(list) = position /\ position \in Nat
        /\ list[position] = op
        /\ \A i \in 1..position : i # position => i \in 1..n /\ list[i] = operands[i]
    <2>1. CASE k = 0
      <3>1. /\ Listed(list) /\ Len(list) = n + 1 /\ list[n + 1] = op
            /\ \A i \in 1..n : list[i] = operands[i]
        BY <1>1, <1>2, <1>3, <2>1, AppendListed
      <3>2. position = n + 1
        BY <1>b, <1>1, <2>1 DEF operands
      <3> QED BY <3>1, <3>2
    <2>2. CASE k # 0
      <3>1. position = n /\ n # 0 /\ k = n
        BY <1>b, <1>1, <2>2 DEF operands
      <3>2. list = Put(operands, n, op)
        BY <1>3, <2>2, <3>1
      <3>3. /\ Listed(list) /\ Len(list) = n
            /\ n \in 1..n => list[n] = op
            /\ \A i \in 1..n : i # n => list[i] = operands[i]
        BY <1>1, <1>2, <3>2, PutListed
      <3> QED BY <3>1, <3>3
    <2> QED BY <2>1, <2>2
  <1>6. PlacesOf(op) \subseteq PlacesIn(item) \cup more /\ IsOperand(op)
    <2>1. CASE k = 0
      BY <1>b, <2>1, NoOperandPoints DEF Points
    <2>2. CASE k # 0
      <3>1. k \in 1..n /\ old = operands[k]
        BY <1>b, <1>1, <2>2 DEF operands
      <3>2. k \in DOMAIN operands
        BY <1>1, <1>2, <3>1, ListedDomain
      <3>3. PlacesOf(old) \subseteq PlacesIn(item)
        BY <3>1, <3>2 DEF PlacesIn, operands
      <3> QED BY <1>b, <3>3 DEF Points
    <2> QED BY <2>1, <2>2
  <1>7. ASSUME NEW i \in 1..Len(list)
        PROVE  list[i] = op \/ (i \in 1..n /\ list[i] = operands[i])
    <2>1. i \in 1..position
      BY <1>5
    <2> QED BY <1>5, <2>1, Zenon
  <1>8. IsItem(new)
    BY <1>2, <1>4, <1>5, <1>6, <1>7 DEF IsItem
  <1>9. \A place \in PlacesIn(new) : \E i \in 1..Len(list) : place \in PlacesOf(list[i])
    <2>1. DOMAIN list = 1..Len(list)
      BY <1>5, ListedDomain
    <2>2. \A place \in PlacesIn(new) :
             \E i \in DOMAIN new.ins.operands : place \in PlacesOf(new.ins.operands[i])
      BY <1>4, InstructionPlaces
    <2> QED BY <1>4, <2>1, <2>2
  <1>10. \A i \in 1..n : PlacesOf(operands[i]) \subseteq PlacesIn(item)
    <2>1. DOMAIN operands = 1..n
      BY <1>1, <1>2, ListedDomain
    <2> QED BY <2>1 DEF PlacesIn, operands
  <1>11. ASSUME NEW place \in PlacesIn(new)
         PROVE  place \in PlacesIn(item) \cup more
    <2>1. PICK i \in 1..Len(list) : place \in PlacesOf(list[i])
      BY <1>9
    <2> QED BY <1>6, <1>7, <1>10, <2>1
  <1>12. /\ IsItem(new) /\ new.kind = "ins" /\ Len(new.ins.operands) = position
         /\ PlacesIn(new) \subseteq PlacesIn(item) \cup more
    BY <1>4, <1>5, <1>8, <1>11
  <1> QED BY <1>a, <1>12, Zenon

LEMMA OperandTokenStep ==
    ASSUME ParserInv, OperandToken
    PROVE  Preserved
  <1> DEFINE op       == Continued(CurrentOperand)
             operands == CurrentItem.ins.operands
             position == IF currentOperand = 0 THEN Len(operands) + 1 ELSE currentOperand
             new      == [CurrentItem EXCEPT !.ins.operands =
                              IF currentOperand = 0 THEN Append(operands, op)
                              ELSE [operands EXCEPT ![position] = op]]
             changed  == SetItem(sections, currentData, new)
             items    == ItemsOf(sections', currentSection, currentLabel, currentBlock)
  <1>1. /\ StructureInv /\ CursorInv /\ pc' = "parse" /\ m_labels' = m_labels
        /\ inInstruction /\ inOperand /\ inDirective = "" /\ Tok.type \in OperandTokens
    BY ParsingContext DEF OperandToken
  <1>2. /\ op # BadOperand
        /\ sections' = IF Tok.type = "LABEL" THEN Counted(changed, FindLabel(Tok.value)) ELSE changed
        /\ currentOperand' = IF Ends(op) THEN 0 ELSE position
        /\ inOperand' = ~Ends(op)
        /\ UNCHANGED << currentVars, currentData, inDirective, inInstruction >>
    BY DEF OperandToken
  <1>3. AtEnd /\ Here[Len(Here)].kind = "ins"
        /\ (currentOperand # 0 => currentOperand = Len(Here[Len(Here)].ins.operands))
    BY <1>1 DEF CursorInv
  <1>4. CurrentItem = Here[Len(Here)]
    BY <1>3 DEF AtEnd, CurrentItem, BlockAt, Here, ItemsOf
  <1>5. IsItem(CurrentItem) /\ CurrentItem.kind = "ins"
    <2>1. IsBlockOf(sections, currentSection, currentLabel, currentBlock) /\ IsProgram(sections)
      BY <1>1 DEF StructureInv, Pointed
    <2>2. Len(Here) \in Nat /\ Len(Here) >= 1
      BY <1>3, <2>1, ItemsListed DEF Here, AtEnd
    <2>3. Len(Here) \in 1..Len(Here)
      BY <2>2
    <2> QED BY <1>1, <1>3, <1>4, <2>1, <2>3 DEF StructureInv, AreItems, Here
  <1>6. currentOperand \in {0, Len(operands)}
    BY <1>3, <1>4
  <1>7. CurrentOperand = IF currentOperand = 0 THEN NoOperand ELSE operands[currentOperand]
    BY DEF CurrentOperand
  <1>8. IsOperand(CurrentOperand)
    <2>1. Len(operands) \in Nat /\ \A i \in 1..Len(operands) : IsOperand(operands[i])
      BY <1>5 DEF IsItem, Listed
    <2>2. currentOperand # 0 => currentOperand \in 1..Len(operands)
      BY <1>6, <2>1
    <2> QED BY <1>7, <2>1, <2>2, NoOperandPoints
  <1>9. Points(op, CurrentOperand, Mentioned)
    BY <1>1, <1>8, ContinuedPoints
  <1> HIDE DEF op
  <1>10. /\ IsItem(new) /\ new.kind = "ins"
         /\ Len(new.ins.operands) = position
         /\ PlacesIn(new) \subseteq PlacesIn(CurrentItem) \cup Mentioned
    <2> HIDE DEF operands
    <2>1. PICK item, k, given, more :
             item = CurrentItem /\ k = currentOperand /\ given = op /\ more = Mentioned
      OBVIOUS
    <2>2. /\ IsItem(item) /\ item.kind = "ins" /\ k \in {0, Len(item.ins.operands)}
          /\ Points(given, OperandIn(item, k), more)
      BY <1>5, <1>6, <1>7, <1>9, <2>1 DEF operands, OperandIn
    <2>3. /\ PositionIn(item, k) = position
          /\ Rewritten(item, k, given) = new
      BY <2>1 DEF operands, PositionIn, Rewritten
    <2> HIDE DEF new, position
    <2>4. /\ IsItem(Rewritten(item, k, given)) /\ Rewritten(item, k, given).kind = "ins"
          /\ Len(Rewritten(item, k, given).ins.operands) = PositionIn(item, k)
          /\ PlacesIn(Rewritten(item, k, given)) \subseteq PlacesIn(item) \cup more
      BY <2>2, ChangedOperand
    <2> QED BY <2>1, <2>3, <2>4
  <1> HIDE DEF new
  <1>11. /\ IsProgram(changed) /\ Alike(sections, changed) /\ AreItems(changed)
         /\ \A x : AreGoodIn(x, sections) /\ IsGood(x, new) => AreGoodIn(x, changed)
         /\ Len(ItemsOf(changed, currentSection, currentLabel, currentBlock)) = Len(Here)
         /\ ItemsOf(changed, currentSection, currentLabel, currentBlock)[Len(Here)] = new
    BY <1>1, <1>3, <1>10, SetItemProperties
  <1> HIDE DEF changed
  <1>12. IsBlockOf(changed, currentSection, currentLabel, currentBlock)
    BY <1>1, <1>11 DEF StructureInv, Pointed, Alike
  <1>13. /\ IsProgram(sections') /\ Alike(changed, sections') /\ AreItems(sections')
         /\ \A x : AreGoodIn(x, changed) => AreGoodIn(x, sections')
         /\ items = ItemsOf(changed, currentSection, currentLabel, currentBlock)
         /\ Tok.type = "LABEL" => Good(sections', FindLabel(Tok.value))
    <2>1. CASE Tok.type = "LABEL"
      <3>1. FindLabel(Tok.value) # << >>
        BY <1>2, <2>1 DEF op, Continued, WithReference
      <3>2. PICK s, l : FindLabel(Tok.value) = << s, l >> /\ IsLabelOf(sections, s, l)
        BY <1>1, <3>1, FindLabelFound DEF StructureInv
      <3>3. IsLabelOf(changed, s, l)
        BY <1>11, <3>2 DEF Alike
      <3>4. sections' = Counted(changed, << s, l >>)
        BY <1>2, <2>1, <3>2
      <3>5. /\ IsProgram(sections') /\ Alike(changed, sections') /\ AreItems(sections')
            /\ \A x : AreGoodIn(x, changed) => AreGoodIn(x, sections')
            /\ items = ItemsOf(changed, currentSection, currentLabel, currentBlock)
            /\ sections'[s].labels[l].refCount # 0
        BY <1>11, <1>12, <3>3, <3>4, CountedProperties, SameItems
      <3>6. IsLabelOf(sections', s, l)
        BY <3>3, <3>5 DEF Alike
      <3>7. Good(sections', FindLabel(Tok.value))
        BY <3>2, <3>5, <3>6 DEF Good
      <3> QED BY <3>5, <3>7
    <2>2. CASE Tok.type # "LABEL"
      <3>1. sections' = changed
        BY <1>2, <2>2
      <3>2. Alike(changed, changed)
        BY DEF Alike
      <3> QED BY <1>11, <2>2, <3>1, <3>2
    <2> QED BY <2>1, <2>2
  <1>14. Alike(sections, sections')
    BY <1>11, <1>13, AlikeAlike
  <1>15. StructureInv'
    BY <1>1, <1>2, <1>13, <1>14, StructureStep
  <1>16. items = Here'
    BY <1>2 DEF Here, currentVars
  <1> HIDE DEF items
  <1>17. Len(Here') = Len(Here) /\ Here'[Len(Here')] = new
    BY <1>11, <1>13, <1>16
  <1>18. AtEnd'
    BY <1>2, <1>3, <1>17 DEF AtEnd, currentVars
  <1>19. CursorInv'
    <2>1. FlagsAgree'
      BY <1>1, <1>2 DEF FlagsAgree
    <2>2. inDirective' = "" /\ inDirective' \notin DOMAIN DirectiveItems
      BY <1>1, <1>2 DEF DirectiveItems
    <2>3. currentOperand' # 0 => currentOperand' = Len(new.ins.operands)
      BY <1>2, <1>10
    <2> QED BY <1>10, <1>17, <1>18, <2>1, <2>2, <2>3 DEF CursorInv
  <1>20. ASSUME NamedToken, AreGood(sections)
         PROVE  AreGood(sections')
    <2>1. IsGood(sections, CurrentItem)
      <3>1. IsBlockOf(sections, currentSection, currentLabel, currentBlock) /\ IsProgram(sections)
        BY <1>1 DEF StructureInv, Pointed
      <3>2. Len(Here) \in Nat /\ Len(Here) >= 1
        BY <1>3, <3>1, ItemsListed DEF Here, AtEnd
      <3>3. Len(Here) \in 1..Len(Here)
        BY <3>2
      <3> QED BY <1>4, <1>20, <3>1, <3>3 DEF AreGood, AreGoodIn, Here
    <2>2. IsGood(sections', CurrentItem)
      BY <1>14, <2>1, GoodAlike
    <2>3. \A place \in Mentioned : Good(sections', place)
      <3>1. CASE Tok.type = "LABEL"
        BY <1>13, <3>1 DEF Mentioned
      <3>2. CASE Tok.type = "SUBLABEL"
        <4>1. FindSublabel(Tok.value) # << >>
          BY <1>2, <3>2 DEF op, Continued, WithReference
        <4>2. PICK b : /\ FindSublabel(Tok.value) = << currentSection, currentLabel, b >>
                       /\ IsBlockOf(sections, currentSection, currentLabel, b)
                       /\ sections[currentSection].labels[currentLabel].blocks[b].name = Tok.value
          BY <1>1, <4>1, FindSublabelFound DEF StructureInv
        <4>3. Tok.value # Unnamed
          BY <1>20, <3>2 DEF NamedToken
        <4>4. Good(sections, FindSublabel(Tok.value))
          BY <4>2, <4>3 DEF Good
        <4>5. Good(sections', FindSublabel(Tok.value))
          BY <1>14, <4>4, GoodPlaceAlike
        <4> QED BY <3>2, <4>5 DEF Mentioned
      <3>3. CASE Tok.type \notin {"LABEL", "SUBLABEL"}
        BY <3>3 DEF Mentioned
      <3> QED BY <3>1, <3>2, <3>3
    <2>4. IsGood(sections', new)
      BY <1>10, <2>2, <2>3 DEF IsGood
    <2>5. AreGoodIn(sections', sections)
      BY <1>14, <1>20, AreGoodAlike DEF AreGood
    <2> QED BY <1>11, <1>13, <2>4, <2>5 DEF AreGood
  <1> QED BY <1>1, <1>15, <1>19, <1>20, WorkingParserInv DEF Preserved

LEMMA EndOperandStep ==
    ASSUME ParserInv, EndOperand
    PROVE  Preserved
  <1>1. /\ StructureInv /\ CursorInv /\ pc' = "parse" /\ m_labels' = m_labels
    BY ParsingContext DEF EndOperand
  <1>2. /\ inInstruction /\ inInstruction' = inInstruction /\ inDirective = ""
        /\ UNCHANGED << sections, currentVars, currentData, inDirective >>
        /\ currentOperand' = 0 /\ ~inOperand'
    BY DEF EndOperand
  <1>3. Pointed'
    BY <1>1, <1>2 DEF StructureInv, Pointed, currentVars
  <1>4. FlagsAgree'
    BY <1>2 DEF FlagsAgree
  <1>5. CursorInv'
    BY <1>1, <1>2, <1>4 DEF CursorInv, AtEnd, Here, currentVars
  <1> QED BY <1>1, <1>2, <1>3, <1>5, SameSectionsStep

LEMMA IgnoreTokenStep ==
    ASSUME ParserInv, IgnoreToken
    PROVE  Preserved
  <1>1. PICK types : Parsing(types)
    BY DEF IgnoreToken
  <1>2. /\ StructureInv /\ CursorInv /\ FlagsAgree /\ pc = "parse" /\ pc' = "parse" /\ m_labels' = m_labels
    BY <1>1, ParsingContext
  <1>3. UNCHANGED << sections, currentVars, operandVars, inDirective >>
    BY DEF IgnoreToken
  <1>4. Pointed'
    BY <1>2, <1>3 DEF StructureInv, Pointed, currentVars
  <1>5. FlagsAgree'
    BY <1>2, <1>3 DEF FlagsAgree, operandVars
  <1>6. CursorInv'
    BY <1>2, <1>3, <1>5 DEF CursorInv, AtEnd, Here, currentVars, operandVars
  <1> QED BY <1>2, <1>3, <1>4, <1>6, SameSectionsStep

\* The last steps change neither the program nor the pointers.
LEMMA LastSteps ==
    ASSUME ParserInv, Refuse \/ EndParse
    PROVE  Preserved
  <1>1. StructureInv /\ pc' \in {"failed", "clean"}
        /\ UNCHANGED << sections, m_labels, currentVars >>
    BY DEF Refuse, EndParse, ParserInv, Working
  <1>2. StructureInv'
    BY <1>1, StructureUnchanged
  <1>3. ParserInv'
    BY <1>1, <1>2 DEF ParserInv
  <1> QED BY <1>1, <1>3 DEF Preserved

LEMMA ParseStep ==
    ASSUME ParserInv, Parse
    PROVE  Preserved
  BY StartDirectiveStep, TextStep, SelectSectionStep, SetOriginStep, DatumStep, LabelDatumStep,
     SublabelDatumStep, CommaStep, StartLabelStep, StartSublabelStep, StartInstructionStep,
     OperandTokenStep, EndOperandStep, IgnoreTokenStep, LastSteps DEF Parse

LEMMA CleanUpParserInv ==
    ASSUME ParserInv, CleanUp
    PROVE  ParserInv'
  BY DEF CleanUp, ParserInv, Working

LEMMA IdleParserInv ==
    ASSUME ParserInv, UNCHANGED vars
    PROVE  ParserInv'
  <1>1. UNCHANGED << pc, sections, m_labels, currentVars, operandVars, inDirective >>
    BY DEF vars
  <1>2. ASSUME StructureInv PROVE StructureInv'
    BY <1>1, <1>2, StructureUnchanged
  <1>3. ASSUME Fresh PROVE Fresh'
    BY <1>1, <1>3 DEF Fresh, operandVars
  <1>4. ASSUME CursorInv PROVE CursorInv'
    BY <1>1, <1>4 DEF CursorInv, FlagsAgree, AtEnd, Here, currentVars, operandVars
  <1> QED BY <1>1, <1>2, <1>3, <1>4 DEF ParserInv

LEMMA NextParserInv ==
    ASSUME ParserInv, [Next]_vars
    PROVE  ParserInv'
  BY SimplifyParserInv, ScanParserInv, ParseStep, CleanUpParserInv, IdleParserInv DEF Next, Preserved

\* The lists are well formed, and the cursors of the second scan are where they say.
THEOREM CursorInvariance == Spec => []ParserInv
  BY InitParserInv, NextParserInv, PTL DEF Spec

LEMMA CursorFresh ==
    ASSUME ParserInv
    PROVE  PointersFresh
  <1> SUFFICES ASSUME pc = "parse"
               PROVE  PointersFresh
    BY DEF PointersFresh, FlagsAgree
  <1>1. CursorInv /\ FlagsAgree
    BY DEF ParserInv, CursorInv
  <1>2. ASSUME AtEnd
        PROVE  /\ SubSeq(currentData, 1, 3) = Current
               /\ currentData[4] = Len(BlockAt(Current).items)
               /\ CurrentItem = Here[Len(Here)]
    <2>1. BlockAt(Current).items = Here
      BY DEF BlockAt, Current, Here, ItemsOf
    <2>2. PICK n : n = Len(Here)
      OBVIOUS
    <2>3. currentData = << currentSection, currentLabel, currentBlock, n >>
      BY <1>2, <2>2 DEF AtEnd
    <2>4. SubSeq(currentData, 1, 3) = << currentSection, currentLabel, currentBlock >>
      BY <2>3, FirstThree
    <2>5. /\ currentData[1] = currentSection /\ currentData[2] = currentLabel
          /\ currentData[3] = currentBlock /\ currentData[4] = n
      BY <2>3
    <2>6. CurrentItem = Here[n]
      BY <2>5 DEF CurrentItem, BlockAt, Here, ItemsOf
    <2> QED BY <2>1, <2>2, <2>4, <2>5, <2>6 DEF Current
  <1>3. currentOperand # 0 => inInstruction
    BY <1>1 DEF FlagsAgree
  <1>4. inInstruction => AtEnd /\ CurrentItem.kind = "ins"
    BY <1>1, <1>2 DEF CursorInv
  <1>5. currentOperand # 0 => currentOperand = Len(CurrentItem.ins.operands)
    BY <1>1, <1>2, <1>3, <1>4 DEF CursorInv
  <1>6. inDirective # "" /\ currentData # << >> => AtEnd
    BY <1>1 DEF CursorInv
  <1> QED BY <1>1, <1>2, <1>4, <1>5, <1>6 DEF PointersFresh

\* Whatever the tokens, operands and arguments are written into the item that was
\* begun last, at the end of the block the parser is in.
THEOREM PointersCorrect == Spec => []PointersFresh
  <1>1. ParserInv => PointersFresh
    BY CursorFresh
  <1> QED BY <1>1, CursorInvariance, PTL

-----------------------------------------------------------------------------
(* Closing up.                                                             *)

LEMMA NaturalInduction ==
    ASSUME NEW T, 0 \in T, \A n \in Nat : n \in T => n + 1 \in T
    PROVE  Nat \subseteq T
  <1> DEFINE Less == {p \in Nat \X Nat : p[1] < p[2]}
             Outside == Nat \ T
  <1>1. IsWellFoundedOn(Less, Nat)
    BY NatLessThanWellFounded, Zenon DEF OpToRel
  <1>2. \A x, y \in Nat : y < x => << y, x >> \in Less
    OBVIOUS
  <1> SUFFICES ASSUME Outside # {}
               PROVE  FALSE
    OBVIOUS
  <1>3. Outside \in SUBSET Nat
    OBVIOUS
  <1>4. PICK x \in Outside : \A y \in Outside : << y, x >> \notin Less
    <2> HIDE DEF Less, Outside
    <2> QED BY <1>1, <1>3, WFMin
  <1> HIDE DEF Less
  <1>5. x \in Nat /\ x # 0
    OBVIOUS
  <1>6. x - 1 \in Nat /\ x - 1 < x /\ x = (x - 1) + 1
    BY <1>5
  <1>7. x - 1 \in Outside
    BY <1>6
  <1>8. << x - 1, x >> \in Less
    BY <1>2, <1>5, <1>6
  <1> QED BY <1>4, <1>7, <1>8

\* Every place up to the number of what is kept is one's place.
HasPlaces(kept) == \A i \in 1..Cardinality(kept) : \E x \in kept : Place(kept, x) = i

LEMMA PlacesTaken ==
    ASSUME NEW n \in Nat, NEW kept \in SUBSET (1..n)
    PROVE  HasPlaces(kept)
  <1> DEFINE T == {m \in Nat : \A Q \in SUBSET (1..m) : HasPlaces(Q)}
  <1>1. 0 \in T
    <2>1. ASSUME NEW S \in SUBSET (1..0)
          PROVE  HasPlaces(S)
      <3>1. S = {}
        OBVIOUS
      <3>2. Cardinality(S) = 0
        BY <3>1, FS_EmptySet
      <3> QED BY <3>2 DEF HasPlaces
    <2> QED BY <2>1
  <1>2. ASSUME NEW m \in Nat, \A Q \in SUBSET (1..m) : HasPlaces(Q),
               NEW S \in SUBSET (1..(m + 1))
        PROVE  HasPlaces(S)
    <2>1. CASE m + 1 \notin S
      <3>1. S \in SUBSET (1..m)
        BY <2>1
      <3> QED BY <1>2, <3>1
    <2>2. CASE m + 1 \in S
      <3>1. PICK R : R = S \ {m + 1}
        OBVIOUS
      <3>2. R \in SUBSET (1..m)
        BY <3>1
      <3>3. S = R \cup {m + 1} /\ m + 1 \notin R
        BY <2>2, <3>1
      <3>4. HasPlaces(R)
        BY <1>2, <3>2, Zenon
      <3>5. IsFiniteSet(R)
        <4>1. 1 \in Int /\ m \in Int
          OBVIOUS
        <4>2. IsFiniteSet(1..m)
          BY <4>1, FS_Interval
        <4> QED BY <3>2, <4>2, FS_Subset, Zenon
      <3>6. PICK c \in Nat : c = Cardinality(R)
        BY <3>5, FS_CardinalityType
      <3>7. Cardinality(S) = c + 1
        BY <3>3, <3>5, <3>6, FS_AddElement
      <3>8. ASSUME NEW i \in 1..(c + 1)
            PROVE  \E x \in S : Place(S, x) = i
        <4>1. CASE i = c + 1
          <5>1. {y \in S : y <= m + 1} = S
            <6>1. \A y \in S : y <= m + 1
              BY <1>2
            <6> QED BY <6>1
          <5>2. Place(S, m + 1) = i
            BY <3>7, <4>1, <5>1 DEF Place
          <5> QED BY <2>2, <5>2
        <4>2. CASE i # c + 1
          <5>1. i \in 1..c
            BY <4>2
          <5>2. PICK x \in R : Place(R, x) = i
            BY <3>4, <3>6, <5>1 DEF HasPlaces
          <5>3. {y \in S : y <= x} = {y \in R : y <= x}
            BY <3>2, <3>3
          <5>4. Place(S, x) = i /\ x \in S
            BY <3>3, <5>2, <5>3 DEF Place
          <5> QED BY <5>4
        <4> QED BY <4>1, <4>2
      <3> QED BY <3>7, <3>8 DEF HasPlaces
    <2> QED BY <2>1, <2>2
  <1>3. \A m \in Nat : m \in T => m + 1 \in T
    BY <1>2
  <1> HIDE DEF T
  <1>4. Nat \subseteq T
    BY <1>1, <1>3, NaturalInduction
  <1> QED BY <1>4 DEF T

LEMMA InOrderKept ==
    ASSUME NEW n \in Nat, NEW kept \in SUBSET (1..n), NEW i \in 1..Cardinality(kept)
    PROVE  InOrder(kept)[i] \in kept
  <1>1. \E x \in kept : Place(kept, x) = i
    BY PlacesTaken DEF HasPlaces
  <1>2. InOrder(kept)[i] = CHOOSE x \in kept : Place(kept, x) = i
    BY DEF InOrder
  <1> QED BY <1>1, <1>2

\* What a pointer should lead to is kept.
LEMMA GoodMoves ==
    ASSUME IsProgram(sections), NEW place, Good(sections, place)
    PROVE  Moved(place) # Dangling
  <1>1. ASSUME NEW a, NEW b, NEW c
        PROVE  << a, b, c >> # << >>
    OBVIOUS
  <1>2. CASE \E s, l : /\ place = << s, l >> /\ IsLabelOf(sections, s, l)
                       /\ sections[s].labels[l].refCount # 0
    <2>1. PICK s, l : /\ place = << s, l >> /\ IsLabelOf(sections, s, l)
                      /\ sections[s].labels[l].refCount # 0
      BY <1>2
    <2>2. 1 \in 1..Len(sections[s].labels[l].blocks)
      BY <2>1, FirstBlock DEF IsBlockOf
    <2>3. 1 \in KeptBlocks(s, l)
      BY <2>1, <2>2 DEF KeptBlocks
    <2>4. Len(place) = 2 /\ place[1] = s /\ place[2] = l
      BY <2>1
    <2>5. Moved(place) = << Place(KeptSections, s), Place(KeptLabels(s), l), 1 >>
      BY <2>3, <2>4 DEF Moved
    <2> QED BY <1>1, <2>5 DEF Dangling
  <1>3. CASE \E s, l, b : /\ place = << s, l, b >> /\ IsBlockOf(sections, s, l, b)
                          /\ sections[s].labels[l].blocks[b].name # Unnamed
    <2>1. PICK s, l, b : /\ place = << s, l, b >> /\ IsBlockOf(sections, s, l, b)
                         /\ sections[s].labels[l].blocks[b].name # Unnamed
      BY <1>3
    <2>2. b \in KeptBlocks(s, l)
      BY <2>1 DEF KeptBlocks, IsBlockOf
    <2>3. Len(place) = 3 /\ place[1] = s /\ place[2] = l /\ place[3] = b
      BY <2>1
    <2>4. Moved(place) = << Place(KeptSections, s), Place(KeptLabels(s), l), Place(KeptBlocks(s, l), b) >>
      BY <2>2, <2>3 DEF Moved
    <2> QED BY <1>1, <2>4 DEF Dangling
  <1> QED BY <1>2, <1>3 DEF Good

\* Every operand leads where it led.
LEMMA MovedOperandPlaces ==
    ASSUME NEW op, IsOperand(op)
    PROVE  \A place \in PlacesOf(MovedOperand(op)) : \E old \in PlacesOf(op) : place = Moved(old)
  <1>1. DOMAIN op = {"type", "size", "data"}
    BY DEF IsOperand
  <1>2. CASE Named(op.type)
    <2>1. MovedOperand(op) = [op EXCEPT !.data = Moved(@)]
      BY <1>2 DEF MovedOperand, Named
    <2>2. MovedOperand(op).type = op.type /\ MovedOperand(op).data = Moved(op.data)
      BY <1>1, <2>1
    <2>3. PlacesOf(MovedOperand(op)) = {Moved(op.data)} /\ PlacesOf(op) = {op.data}
      BY <1>2, <2>2 DEF PlacesOf, Named
    <2> QED BY <2>3
  <1>3. CASE op.type = "COMPLEX"
    <2>1. IsComplex(op.data) /\ ~Named(op.type)
      BY <1>3 DEF IsOperand, Named
    <2>2. PICK data : data = [part \in {"base", "index", "offset"} |->
              IF Named(op.data[part].type) THEN [op.data[part] EXCEPT !.data = Moved(@)]
              ELSE [op.data[part] EXCEPT !.sign = /\ part = "offset" /\ op.data.offset.type = "REGISTER"
                                                  /\ op.data.sign]]
      OBVIOUS
    <2>3. MovedOperand(op) = [op EXCEPT !.data = data]
      BY <1>3, <2>1, <2>2 DEF MovedOperand
    <2>4. MovedOperand(op).type = "COMPLEX" /\ MovedOperand(op).data = data
      BY <1>1, <1>3, <2>3
    <2>5. ASSUME NEW part \in Parts
          PROVE  /\ data[part].type = op.data[part].type
                 /\ Named(op.data[part].type) => data[part].data = Moved(op.data[part].data)
      <3>1. DOMAIN op.data[part] = {"type", "data", "sign"}
        BY <2>1 DEF IsComplex, IsPart
      <3>2. data[part] =
              IF Named(op.data[part].type) THEN [op.data[part] EXCEPT !.data = Moved(@)]
              ELSE [op.data[part] EXCEPT !.sign = /\ part = "offset" /\ op.data.offset.type = "REGISTER"
                                                  /\ op.data.sign]
        BY <2>2 DEF Parts
      <3>3. CASE Named(op.data[part].type)
        BY <3>1, <3>2, <3>3
      <3>4. CASE ~Named(op.data[part].type)
        BY <3>1, <3>2, <3>4
      <3> QED BY <3>3, <3>4
    <2>6. \A place \in PlacesOf(MovedOperand(op)) :
             \E part \in Parts : Named(data[part].type) /\ place = data[part].data
      <3>1. ~Named(MovedOperand(op).type)
        BY <2>4 DEF Named
      <3> QED BY <2>4, <3>1 DEF PlacesOf, Parts
    <2>7. \A part \in Parts : Named(op.data[part].type) => op.data[part].data \in PlacesOf(op)
      BY <1>3, <2>1 DEF PlacesOf, Parts
    <2> QED BY <2>5, <2>6, <2>7
  <1>4. CASE ~Named(op.type) /\ op.type # "COMPLEX"
    <2>1. MovedOperand(op) = op
      BY <1>4 DEF MovedOperand
    <2>2. PlacesOf(op) = {}
      BY <1>4 DEF PlacesOf
    <2> QED BY <2>1, <2>2
  <1> QED BY <1>2, <1>3, <1>4

LEMMA MovedItemPlaces ==
    ASSUME NEW item, IsItem(item)
    PROVE  \A place \in PlacesIn(MovedItem(item)) : \E old \in PlacesIn(item) : place = Moved(old)
  <1>1. CASE item.kind = "ins"
    <2>1. /\ DOMAIN item = {"kind", "ins"} /\ DOMAIN item.ins = {"opcode", "operands"}
          /\ Listed(item.ins.operands)
          /\ \A i \in 1..Len(item.ins.operands) : IsOperand(item.ins.operands[i])
      BY <1>1 DEF IsItem
    <2>2. PICK operands : operands = item.ins.operands
      OBVIOUS
    <2>3. DOMAIN operands = 1..Len(operands)
      BY <2>1, <2>2, ListedDomain
    <2>4. PICK moved : moved = [i \in DOMAIN operands |-> MovedOperand(operands[i])]
      OBVIOUS
    <2>5. MovedItem(item) = [item EXCEPT !.ins.operands = moved]
      BY <1>1, <2>2, <2>4 DEF MovedItem
    <2>6. MovedItem(item).kind = "ins" /\ MovedItem(item).ins.operands = moved
      BY <1>1, <2>1, <2>5
    <2>7. \A place \in PlacesIn(MovedItem(item)) : \E i \in DOMAIN moved : place \in PlacesOf(moved[i])
      BY <2>6, InstructionPlaces
    <2>8. \A i \in DOMAIN operands : PlacesOf(operands[i]) \subseteq PlacesIn(item)
      BY <1>1, <2>2 DEF PlacesIn
    <2>9. ASSUME NEW place \in PlacesIn(MovedItem(item))
          PROVE  \E old \in PlacesIn(item) : place = Moved(old)
      <3>1. PICK i \in DOMAIN moved : place \in PlacesOf(moved[i])
        BY <2>7
      <3>2. i \in DOMAIN operands /\ moved[i] = MovedOperand(operands[i])
        BY <2>4
      <3>3. IsOperand(operands[i])
        BY <2>1, <2>2, <2>3, <3>2
      <3>4. PICK old \in PlacesOf(operands[i]) : place = Moved(old)
        BY <3>1, <3>2, <3>3, MovedOperandPlaces
      <3> QED BY <2>8, <3>2, <3>4
    <2> QED BY <2>9
  <1>2. CASE item.kind = "block"
    <2>1. DOMAIN item = {"kind", "block"}
      BY <1>2 DEF IsItem
    <2>2. MovedItem(item) = [item EXCEPT !.block = Moved(@)]
      BY <1>2 DEF MovedItem
    <2>3. MovedItem(item).kind = "block" /\ MovedItem(item).block = Moved(item.block)
      BY <1>2, <2>1, <2>2
    <2> QED BY <1>2, <2>3 DEF PlacesIn
  <1>3. CASE item.kind \notin {"ins", "block"}
    <2>1. MovedItem(item) = item
      BY <1>3 DEF MovedItem
    <2>2. PlacesIn(item) = {}
      BY <1>3 DEF PlacesIn
    <2> QED BY <2>1, <2>2
  <1> QED BY <1>1, <1>2, <1>3

\* Every item of the cleaned program is one of the program before.
LEMMA CleanedItems ==
    ASSUME IsProgram(sections),
           NEW i \in DOMAIN Cleaned, NEW j \in DOMAIN Cleaned[i].labels,
           NEW k \in DOMAIN Cleaned[i].labels[j].blocks,
           NEW n \in DOMAIN Cleaned[i].labels[j].blocks[k].items
    PROVE  \E s, l, b : /\ IsBlockOf(sections, s, l, b)
                        /\ n \in 1..Len(ItemsOf(sections, s, l, b))
                        /\ Cleaned[i].labels[j].blocks[k].items[n] = MovedItem(ItemsOf(sections, s, l, b)[n])
  <1>1. Len(sections) \in Nat /\ KeptSections \in SUBSET (1..Len(sections))
    BY DEF KeptSections, IsProgram, Listed
  <1>2. i \in 1..Cardinality(KeptSections) /\ Cleaned[i] = CleanedSection(InOrder(KeptSections)[i])
    BY DEF Cleaned
  <1>3. PICK s : s = InOrder(KeptSections)[i]
    OBVIOUS
  <1>4. s \in KeptSections
    BY <1>1, <1>2, <1>3, InOrderKept
  <1>5. s \in 1..Len(sections)
    BY <1>1, <1>4
  <1>6. IsSection(sections[s])
    BY <1>5 DEF IsProgram
  <1>7. Len(sections[s].labels) \in Nat /\ KeptLabels(s) \in SUBSET (1..Len(sections[s].labels))
    BY <1>6 DEF KeptLabels, IsSection, Listed
  <1>8. j \in 1..Cardinality(KeptLabels(s))
        /\ Cleaned[i].labels[j] = CleanedLabel(s, InOrder(KeptLabels(s))[j])
    BY <1>2, <1>3 DEF CleanedSection
  <1>9. PICK l : l = InOrder(KeptLabels(s))[j]
    OBVIOUS
  <1>10. l \in KeptLabels(s)
    BY <1>7, <1>8, <1>9, InOrderKept
  <1>11. IsLabelOf(sections, s, l)
    BY <1>5, <1>7, <1>10 DEF IsLabelOf
  <1>12. IsLabel(sections[s].labels[l])
    BY <1>11, LabelOfProgram
  <1>13. Len(sections[s].labels[l].blocks) \in Nat
         /\ KeptBlocks(s, l) \in SUBSET (1..Len(sections[s].labels[l].blocks))
    BY <1>12 DEF KeptBlocks, IsLabel, Listed
  <1>14. k \in 1..Cardinality(KeptBlocks(s, l))
         /\ Cleaned[i].labels[j].blocks[k]
              = CleanedBlock(sections[s].labels[l].blocks[InOrder(KeptBlocks(s, l))[k]])
    <2>1. PICK kept : kept = KeptBlocks(s, l)
      OBVIOUS
    <2>2. CleanedLabel(s, l).blocks =
             [c \in 1..Cardinality(kept) |-> CleanedBlock(sections[s].labels[l].blocks[InOrder(kept)[c]])]
      BY <2>1 DEF CleanedLabel
    <2>3. Cleaned[i].labels[j].blocks = CleanedLabel(s, l).blocks
      BY <1>8, <1>9, Zenon
    <2>4. k \in 1..Cardinality(kept)
          /\ Cleaned[i].labels[j].blocks[k] = CleanedBlock(sections[s].labels[l].blocks[InOrder(kept)[k]])
      BY <2>2, <2>3
    <2> QED BY <2>1, <2>4
  <1>15. PICK b : b = InOrder(KeptBlocks(s, l))[k]
    OBVIOUS
  <1>16. b \in KeptBlocks(s, l)
    BY <1>13, <1>14, <1>15, InOrderKept
  <1>17. IsBlockOf(sections, s, l, b)
    BY <1>11, <1>13, <1>16 DEF IsBlockOf
  <1>18. n \in 1..Len(ItemsOf(sections, s, l, b))
         /\ Cleaned[i].labels[j].blocks[k].items[n] = MovedItem(ItemsOf(sections, s, l, b)[n])
    <2>1. PICK block : block = sections[s].labels[l].blocks[b]
      OBVIOUS
    <2>2. CleanedBlock(block).items = [c \in 1..Len(block.items) |-> MovedItem(block.items[c])]
      BY DEF CleanedBlock
    <2>3. Cleaned[i].labels[j].blocks[k].items = CleanedBlock(block).items
      BY <1>14, <1>15, <2>1, Zenon
    <2>4. n \in 1..Len(block.items)
          /\ Cleaned[i].labels[j].blocks[k].items[n] = MovedItem(block.items[n])
      BY <2>2, <2>3
    <2> QED BY <2>1, <2>4 DEF ItemsOf
  <1> QED BY <1>17, <1>18

LEMMA CleanUpSurvive ==
    ASSUME StructureInv, AreGood(sections), CleanUp
    PROVE  ReferencesSurvive'
  <1>1. sections' = Cleaned
    BY DEF CleanUp
  <1>2. ASSUME NEW i \in DOMAIN Cleaned, NEW j \in DOMAIN Cleaned[i].labels,
               NEW k \in DOMAIN Cleaned[i].labels[j].blocks,
               NEW n \in DOMAIN Cleaned[i].labels[j].blocks[k].items
        PROVE  Dangling \notin PlacesIn(Cleaned[i].labels[j].blocks[k].items[n])
    <2>1. PICK s, l, b : /\ IsBlockOf(sections, s, l, b)
                         /\ n \in 1..Len(ItemsOf(sections, s, l, b))
                         /\ Cleaned[i].labels[j].blocks[k].items[n] = MovedItem(ItemsOf(sections, s, l, b)[n])
      BY CleanedItems DEF StructureInv
    <2>2. PICK item : item = ItemsOf(sections, s, l, b)[n]
      OBVIOUS
    <2>3. IsItem(item) /\ IsGood(sections, item)
      BY <2>1, <2>2 DEF StructureInv, AreItems, AreGood, AreGoodIn
    <2>4. ASSUME NEW place \in PlacesIn(MovedItem(item))
          PROVE  place # Dangling
      <3>1. PICK old \in PlacesIn(item) : place = Moved(old)
        BY <2>3, MovedItemPlaces
      <3>2. Good(sections, old)
        BY <2>3 DEF IsGood
      <3> QED BY <3>1, <3>2, GoodMoves DEF StructureInv
    <2> QED BY <2>1, <2>2, <2>4
  <1> QED BY <1>1, <1>2 DEF ReferencesSurvive

-----------------------------------------------------------------------------
(* Nothing that is pointed to is deleted.                                  *)

\* The tokens are those of a source, or the values of its expressions.
IsNamed(token) == token.type = "SUBLABEL" => token.value # Unnamed

TokensInv ==
    /\ source \in Sources
    /\ index \in Nat \ {0}
    /\ Listed(m_tokens)
    /\ \A k \in 1..Len(m_tokens) : IsNamed(m_tokens[k])

ReferenceInv ==
    /\ ParserInv
    /\ TokensInv
    /\ pc \in Working => AreGood(sections)
    /\ ReferencesSurvive

\* The lexer takes a dot alone for a sub-label, and its name is empty then.
NamedSources(Tokens) ==
    /\ \A src \in Sources : src.tokens \in Seq(Tokens)
    /\ \A token \in Tokens : IsNamed(token)

LEMMA AppendNamed ==
    ASSUME NEW tokens, Listed(tokens), \A k \in 1..Len(tokens) : IsNamed(tokens[k]),
           NEW token, IsNamed(token)
    PROVE  /\ Listed(Append(tokens, token))
           /\ \A k \in 1..Len(Append(tokens, token)) : IsNamed(Append(tokens, token)[k])
  <1>1. PICK n \in Nat : n = Len(tokens)
    BY DEF Listed
  <1>2. PICK list : list = Append(tokens, token)
    OBVIOUS
  <1>3. /\ Listed(list) /\ Len(list) = n + 1 /\ list[n + 1] = token
        /\ \A k \in 1..n : list[k] = tokens[k]
    BY <1>1, <1>2, AppendListed
  <1>4. ASSUME NEW k \in 1..(n + 1)
        PROVE  IsNamed(list[k])
    <2>1. CASE k = n + 1
      BY <1>3, <2>1
    <2>2. CASE k # n + 1
      <3>1. k \in 1..n
        BY <2>2
      <3> QED BY <1>1, <1>3, <3>1
    <2> QED BY <2>1, <2>2
  <1> QED BY <1>2, <1>3, <1>4

LEMMA TokensStep ==
    ASSUME NEW Tokens, NamedSources(Tokens), TokensInv, [Next]_vars
    PROVE  TokensInv'
  <1>1. CASE Simplifying
    <2>1. /\ index \in Nat \ {0} /\ index <= Len(source.tokens) /\ source' = source /\ index' = index + 1
          /\ source \in Sources
      BY <1>1 DEF Simplifying, TokensInv
    <2>2. source.tokens \in Seq(Tokens)
      BY <2>1 DEF NamedSources
    <2>3. Token \in Tokens
      BY <2>1, <2>2 DEF Token
    <2>4. IsNamed(Token)
      BY <2>3 DEF NamedSources
    <2>5. \/ m_tokens' = m_tokens
          \/ \E token : IsNamed(token) /\ m_tokens' = Append(m_tokens, token)
      <3>1. CASE PassToken
        BY <2>4, <3>1 DEF PassToken
      <3>2. CASE OpenExpression \/ CollectToken
        BY <3>2 DEF OpenExpression, CollectToken
      <3>3. CASE CloseExpression
        <4>1. PICK value : \/ m_tokens' = m_tokens
                           \/ m_tokens' = Append(m_tokens, [type |-> "NUMBER", value |-> value])
          BY <3>3 DEF CloseExpression
        <4>2. IsNamed([type |-> "NUMBER", value |-> value])
          BY DEF IsNamed
        <4> QED BY <4>1, <4>2
      <3>4. CASE EndSimplify
        BY <3>4 DEF EndSimplify, simplifyVars
      <3>5. pc = "simplify"
        BY <1>1 DEF Simplifying
      <3>6. CASE Scan \/ Parse \/ CleanUp
        BY <3>5, <3>6 DEF Scan, ScanDirective, ScanSection, ScanLabel, ScanSublabel, ScanOther, EndScan, Scanning,
           Parse, Parsing, StartDirective, Argument, Text, SelectSection, SetOrigin, Datum, LabelDatum,
           SublabelDatum, Comma, StartLabel, StartSublabel, StartInstruction, OperandToken, EndOperand,
           IgnoreToken, Refuse, EndParse, CleanUp
      <3>7. CASE UNCHANGED vars
        BY <3>7 DEF vars, simplifyVars
      <3> QED BY <3>1, <3>2, <3>3, <3>4, <3>6, <3>7 DEF Next, Simplify
    <2>6. Listed(m_tokens') /\ \A k \in 1..Len(m_tokens') : IsNamed(m_tokens'[k])
      BY <2>5, AppendNamed DEF TokensInv
    <2> QED BY <2>1, <2>6 DEF TokensInv
  <1>2. CASE ~Simplifying
    <2>1. /\ source' = source /\ m_tokens' = m_tokens
          /\ index' \in {index, index + 1, 1}
      <3>1. CASE Simplify
        BY <1>2, <3>1 DEF Simplify, PassToken, OpenExpression, CollectToken, CloseExpression, EndSimplify, simplifyVars
      <3>2. CASE Scan
        BY <3>2 DEF Scan, ScanDirective, ScanSection, ScanLabel, ScanSublabel, ScanOther, EndScan, Scanning, simplifyVars
      <3>3. CASE Parse
        BY <3>3 DEF Parse, Parsing, StartDirective, Argument, Text, SelectSection, SetOrigin, Datum, LabelDatum,
           SublabelDatum, Comma, StartLabel, StartSublabel, StartInstruction, OperandToken, EndOperand,
           IgnoreToken, Refuse, EndParse, simplifyVars
      <3>4. CASE CleanUp \/ UNCHANGED vars
        BY <3>4 DEF CleanUp, vars, simplifyVars
      <3> QED BY <3>1, <3>2, <3>3, <3>4 DEF Next
    <2> QED BY <2>1 DEF TokensInv
  <1> QED BY <1>1, <1>2

LEMMA InitReference == Init => ReferenceInv
  <1> SUFFICES ASSUME Init
               PROVE  ReferenceInv
    OBVIOUS
  <1>1. ParserInv
    BY InitParserInv
  <1>2. NoItems(sections)
    BY FirstProgram DEF Init
  <1>3. AreGood(sections)
    BY <1>2, NothingIn
  <1>4. TokensInv
    <2>1. Listed(m_tokens) /\ Len(m_tokens) = 0 /\ source \in Sources /\ index = 1
      BY EmptyListed DEF Init
    <2>2. 1..Len(m_tokens) = {}
      BY <2>1
    <2> QED BY <2>1, <2>2 DEF TokensInv
  <1>5. ReferencesSurvive
    BY DEF Init, ReferencesSurvive
  <1> QED BY <1>1, <1>3, <1>4, <1>5 DEF ReferenceInv

LEMMA NextReference ==
    ASSUME NEW Tokens, NamedSources(Tokens), ReferenceInv, [Next]_vars
    PROVE  ReferenceInv'
  <1>1. ParserInv /\ ParserInv' /\ TokensInv /\ TokensInv'
    BY NextParserInv, TokensStep DEF ReferenceInv
  <1>2. ASSUME pc' \in {"simplify", "scan"}
        PROVE  AreGood(sections')
    <2>1. NoItems(sections')
      BY <1>1, <1>2 DEF ParserInv, Fresh, NoItems
    <2> QED BY <2>1, NothingIn
  <1>3. CASE Simplify
    BY <1>1, <1>2, <1>3 DEF ReferenceInv, ReferencesSurvive, Working, Simplify, PassToken, OpenExpression, CollectToken,
       CloseExpression, EndSimplify, Simplifying
  <1>4. CASE Scan
    <2>1. CASE EndScan
      <3>1. pc = "scan" /\ sections' = sections /\ pc' \in {"parse", "failed"}
        BY <2>1 DEF EndScan
      <3> QED BY <1>1, <3>1 DEF ReferenceInv, ReferencesSurvive, Working
    <2>2. CASE ~EndScan
      <3>1. pc' \in {"scan", "failed"}
        BY <1>4, <2>2 DEF Scan, ScanDirective, ScanSection, ScanLabel, ScanSublabel, ScanOther, Scanning
      <3> QED BY <1>1, <1>2, <3>1 DEF ReferenceInv, ReferencesSurvive, Working
    <2> QED BY <2>1, <2>2
  <1>5. CASE Parse
    <2>1. pc = "parse" /\ pc' \in {"parse", "clean", "failed"}
      BY <1>5 DEF Parse, Parsing, StartDirective, Argument, Text, SelectSection, SetOrigin, Datum, LabelDatum,
         SublabelDatum, Comma, StartLabel, StartSublabel, StartInstruction, OperandToken, EndOperand,
         IgnoreToken, Refuse, EndParse
    <2>2. AreGood(sections)
      BY <2>1 DEF ReferenceInv, Working
    <2>3. CASE EndParse \/ Refuse
      BY <1>1, <2>1, <2>2, <2>3 DEF EndParse, Refuse, ReferenceInv, ReferencesSurvive
    <2>4. CASE ~(EndParse \/ Refuse)
      <3>1. index <= Len(m_tokens)
        BY <1>5, <2>4 DEF Parse, Parsing, StartDirective, Argument, Text, SelectSection, SetOrigin, Datum,
           LabelDatum, SublabelDatum, Comma, StartLabel, StartSublabel, StartInstruction, OperandToken,
           EndOperand, IgnoreToken
      <3>2. index \in 1..Len(m_tokens)
        BY <1>1, <3>1 DEF TokensInv, Listed
      <3>3. NamedToken
        BY <1>1, <3>2 DEF TokensInv, NamedToken, IsNamed, Tok
      <3>4. AreGood(sections)'
        BY <1>1, <1>5, <2>2, <3>3, ParseStep DEF Preserved
      <3> QED BY <1>1, <2>1, <3>4 DEF ReferenceInv, ReferencesSurvive
    <2> QED BY <2>3, <2>4
  <1>6. CASE CleanUp
    <2>1. pc = "clean" /\ pc' \in {"failed", "done"}
      BY <1>6 DEF CleanUp
    <2>2. StructureInv /\ AreGood(sections)
      BY <1>1, <2>1 DEF ReferenceInv, ParserInv, Working
    <2>3. ReferencesSurvive'
      BY <1>6, <2>2, CleanUpSurvive
    <2> QED BY <1>1, <2>1, <2>3 DEF ReferenceInv, Working
  <1>7. CASE UNCHANGED vars
    BY <1>1, <1>7 DEF ReferenceInv, ReferencesSurvive, vars
  <1> QED BY <1>3, <1>4, <1>5, <1>6, <1>7 DEF Next

\* Whatever tokens are accepted, no operand and no directive points to what the
\* parser deletes at the end, as long as no sub-label is named by nothing.
THEOREM ReferencesKept ==
    ASSUME NEW Tokens, NamedSources(Tokens)
    PROVE  Spec => []ReferencesSurvive
  <1>1. Init => ReferenceInv
    BY InitReference
  <1>2. ReferenceInv /\ [Next]_vars => ReferenceInv'
    BY NextReference
  <1>3. ReferenceInv => ReferencesSurvive
    BY DEF ReferenceInv
  <1> QED BY <1>1, <1>2, <1>3, PTL DEF Spec
=============================================================================
