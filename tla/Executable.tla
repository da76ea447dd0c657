----------------------------- MODULE Executable -----------------------------
(***************************************************************************)
(* LibExec: the ELF file of an assembled program.  The headers point into  *)
(* the file by byte offsets that are worked out in three passes over the   *)
(* sections, before and while the file is written.  A file is a sequence   *)
(* of chunks, each of a length; what matters is that every pointer leads   *)
(* to the chunk it is meant for.                                           *)
(***************************************************************************)
EXTENDS Integers, Sequences, SequencesExt

EhdrSize == 64
PhdrSize == 56
ShdrSize == 64
StrtabName == [text |-> ".shstrtab", length |-> 9]

Length(file) ==
    LET sum[i \in 0 .. Len(file)] == IF i = 0 THEN 0 ELSE sum[i - 1] + file[i].length
    IN  sum[Len(file)]

\* What ftell returns before chunk i is written.
At(file, i) == Length(SubSeq(file, 1, i - 1))

\* SetData leaves the two sizes and the data at zero when there are no bytes.
ProgramSection(address, bytes, flags) ==
    [vaddr |-> address, data |-> bytes, filesz |-> Len(bytes), align |-> 1, flags |-> flags]

Section(name, address, size, flags) ==
    [name |-> name, addr |-> address, size |-> size, flags |-> flags]

AlignUp(offset, align) == offset + ((-offset) % align)

\* The offset of each program section, counted on from the program headers.
DataOffsets(progs) ==
    LET offset[i \in 1 .. Len(progs)] ==
            AlignUp(IF i = 1 THEN EhdrSize + PhdrSize * Len(progs)
                             ELSE offset[i - 1] + progs[i - 1].filesz, progs[i].align)
    IN  offset

Padded(chunks, position, prog, offset) ==
    chunks \o (IF position < offset THEN << [kind |-> "padding", length |-> offset - position] >>
               ELSE << >>)
           \o << [kind |-> "data", length |-> prog.filesz, data |-> prog.data] >>

\* The names: a null byte, then each name that is not empty with a null byte.
NameOffsets(sections) ==
    LET offset[i \in 1 .. Len(sections) + 1] ==
            IF i = 1 THEN 1
            ELSE offset[i - 1] + IF sections[i - 1].name.length > 0
                                 THEN sections[i - 1].name.length + 1 ELSE 0
    IN  offset

NameChunks(names) ==
    << [kind |-> "name", length |-> 1, text |-> ""] >>
       \o FlattenSeq([i \in 1 .. Len(names) |->
              IF names[i].length > 0
              THEN << [kind |-> "name", length |-> names[i].length + 1, text |-> names[i].text] >>
              ELSE << >>])

\* The section headers follow the data; the header of the string table is the
\* last of them, and the string table is the last chunk.
WriteToStream(entry, progs, sections) ==
    LET n       == Len(sections)
        offsets == DataOffsets(progs)
        phdrs   == [i \in 1 .. Len(progs) |->
                       [kind |-> "phdr", length |-> PhdrSize, offset |-> offsets[i],
                        vaddr |-> progs[i].vaddr, filesz |-> progs[i].filesz, flags |-> progs[i].flags]]
        head    == << [kind |-> "ehdr", length |-> EhdrSize, entry |-> entry] >> \o phdrs
        written[i \in 0 .. Len(progs)] ==
            IF i = 0 THEN head
            ELSE Padded(written[i - 1], Length(written[i - 1]), progs[i], offsets[i])
        body    == written[Len(progs)]
        shoff   == Length(body)
        names   == NameOffsets(sections)
        strings == names[n + 1] + 10
        null    == << [kind |-> "shdr", length |-> ShdrSize, name |-> 0, addr |-> 0, offset |-> 0,
                       size |-> 0, flags |-> ""] >>
        shdrs   == [i \in 1 .. n |->
                       [kind |-> "shdr", length |-> ShdrSize, name |-> names[i],
                        addr |-> sections[i].addr, size |-> sections[i].size,
                        flags |-> sections[i].flags,
                        offset |-> sections[i].addr - progs[i].vaddr + offsets[i]]]
        strtab  == << [kind |-> "shdr", length |-> ShdrSize, name |-> strings - 10, addr |-> 0,
                       offset |-> shoff + ShdrSize * (n + 2), size |-> strings, flags |-> ""] >>
        file    == body \o null \o shdrs \o strtab
                        \o NameChunks(Append([i \in 1 .. n |-> sections[i].name], StrtabName))
    IN  [file EXCEPT ![1] = [kind |-> "ehdr", length |-> EhdrSize, entry |-> entry,
                             phoff |-> EhdrSize, phnum |-> Len(progs),
                             shoff |-> shoff, shnum |-> n + 2, shstrndx |-> n + 1]]

----------------------------------------------------------------------------
(* What a reader of the file finds, following its pointers. *)

\* The chunk of that kind and length at the offset, `missing` if there is none.
Chunk(file, offset, kind, length, missing) ==
    LET at == {i \in 1 .. Len(file) : /\ At(file, i) = offset
                                      /\ file[i].kind = kind /\ file[i].length = length}
    IN  IF at = {} THEN missing ELSE file[CHOOSE i \in at : \A j \in at : i <= j]

Headers(file, offset, number, size, kind) ==
    [i \in 1 .. number |-> Chunk(file, offset + (i - 1) * size, kind, size, << >>)]

Loaded(file) ==
    LET ehdr   == file[1]
        phdrs  == Headers(file, ehdr.phoff, ehdr.phnum, PhdrSize, "phdr")
        shdrs  == Headers(file, ehdr.shoff, ehdr.shnum, ShdrSize, "shdr")
        strtab == shdrs[ehdr.shstrndx + 1]
        Names(shdr) == {file[i].text : i \in {j \in 1 .. Len(file) :
                           file[j].kind = "name" /\ At(file, j) = strtab.offset + shdr.name}}
        Data(phdr)  == Chunk(file, phdr.offset, "data", phdr.filesz, [data |-> "?"]).data
    IN  << ehdr.entry,
           [i \in 1 .. ehdr.phnum |->
               IF /\ phdrs[i].flags = shdrs[i + 1].flags
                  /\ phdrs[i].vaddr = shdrs[i + 1].addr
                  /\ phdrs[i].offset = shdrs[i + 1].offset
                  /\ phdrs[i].filesz = shdrs[i + 1].size
                  /\ strtab.offset + strtab.size = Length(file)
                  /\ Names(strtab) = {StrtabName.text}
               THEN << Names(shdrs[i + 1]), phdrs[i].vaddr, Data(phdrs[i]), phdrs[i].flags >>
               ELSE << "?" >>] >>
=============================================================================
