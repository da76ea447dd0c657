------------------------------ MODULE Linking -------------------------------
(***************************************************************************)
(* What assembling a program means.  Its sections stand where they ask to, *)
(* or behind the one before; the blocks of a section stand one after the   *)
(* other; and wherever the program names a block, the bytes are those of   *)
(* its address.  How the addresses are found is not said: the assembler is *)
(* shown to implement this.                                                *)
(***************************************************************************)
EXTENDS Program

CONSTANT Stale

None == << >>

VARIABLES program, format, where, image, output, refused

vars == << program, format, where, image, output, refused >>

----------------------------------------------------------------------------

Accepted(item) ==
    CASE item.kind = "ins"   -> Encodable(item.ins)
      [] item.kind = "align" -> PowerOfTwo(item.to)
      [] OTHER               -> TRUE

Acceptable(p) ==
    \A s \in 1 .. Len(p) : \A i \in 1 .. Len(Enumerated(p, s)) : Accepted(Enumerated(p, s)[i])

\* The bytes of an instruction, with an address wherever it names a block.
Addressed(enc, at) ==
    [x \in 1 .. Len(enc.bytes) |->
        LET over == {j \in enc.jumps : x - j.at \in 1 .. 8}
        IN  IF over = {} THEN enc.bytes[x]
            ELSE LET j == CHOOSE j \in over : TRUE
                 IN  AddressBytes(at[j.block])[x - j.at]]

\* The bytes of an item at `address`, where block b stands at at[b].
ItemBytes(item, address, at) ==
    CASE item.kind = "ins"   -> Addressed(EncodeInstruction(item.ins, Stale), at)
      [] item.kind = "raw"   -> item.bytes
      [] item.kind = "block" -> AddressBytes(at[item.block])
      [] item.kind = "align" -> Nops((-address) % item.to)
      [] item.kind = "skip"  -> Nops(item.by)
      [] OTHER               -> << >>

\* The items of a section stand one after the other from its start, and a block
\* stands where its items begin.
Placed(items, section, at) ==
    LET place[i \in 1 .. Len(items) + 1] ==
            IF i = 1 THEN section.start
            ELSE place[i - 1] + Len(ItemBytes(items[i - 1], place[i - 1], at))
    IN  /\ section.bytes = FlattenSeq([i \in 1 .. Len(items) |-> ItemBytes(items[i], place[i], at)])
        /\ \A i \in 1 .. Len(items) : items[i].kind = "begin" => at[items[i].block] = place[i]

Linked(p, at, sections) ==
    /\ DOMAIN sections = 1 .. Len(p)
    /\ DOMAIN at = ToSet(AllBlocks(p))
    /\ \A s \in 1 .. Len(p) :
          /\ sections[s].start = CASE p[s].org # NoOrg -> p[s].org
                                   [] p[s].org = NoOrg /\ s = 1 -> 0
                                   [] OTHER -> sections[s - 1].start + Len(sections[s - 1].bytes)
          /\ Placed(Enumerated(p, s), sections[s], at)

\* A flat file keeps only the bytes.  An executable keeps the name, the place
\* and the access of every section, and begins with the first.
FileOf(p, f, sections) ==
    IF f = "BINARY" THEN << FlattenSeq([s \in 1 .. Len(p) |-> sections[s].bytes]) >>
    ELSE << sections[1].start,
            [s \in 1 .. Len(p) |-> << {p[s].name.text}, sections[s].start, sections[s].bytes,
                                      Access(p[s].name.text) >>] >>

----------------------------------------------------------------------------

\* The program and the format may be any, and stay.
Init ==
    /\ format \in {"BINARY", "ELF"}
    /\ where = None
    /\ image = None
    /\ output = None
    /\ refused = FALSE

\* The addresses and the bytes are any that fit each other.
Link ==
    /\ image = None /\ ~refused
    /\ Acceptable(program)
    /\ Linked(program, where', image')
    /\ UNCHANGED << program, format, output, refused >>

WriteFile ==
    /\ image # None /\ output = None
    /\ output' = FileOf(program, format, image)
    /\ UNCHANGED << program, format, where, image, refused >>

Refuse ==
    /\ image = None /\ ~refused
    /\ ~Acceptable(program)
    /\ refused' = TRUE
    /\ UNCHANGED << program, format, where, image, output >>

Spec == Init /\ [][Link \/ WriteFile \/ Refuse]_vars
=============================================================================
