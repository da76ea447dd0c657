--------------------------- MODULE VirtualMemory ---------------------------
(***************************************************************************)
(* The page walk of VirtualMMU, the checks and the buffers that go through *)
(* it, and SyncRegisters, which makes and changes a VirtualMMU             *)
(* (src/Emulator/src/MMU/VirtualMMU.cpp:35-151, 172-295,                   *)
(*  src/Emulator/src/Emulator.cpp:450-489).                                *)
(*                                                                         *)
(* The unit of addresses is one page table entry, 8 bytes.  An iteration   *)
(* of the loop in TranslateAddress is a step.  Physical memory holds what  *)
(* the guest wrote before: the entry at an address is chosen when it is    *)
(* first read, and again after Rewrite.  Nothing writes to a table while   *)
(* it is walked.                                                           *)
(*                                                                         *)
(* A definition marked "Mutant" is a faulty variant of the one after it.   *)
(***************************************************************************)
EXTENDS Integers, Functions

CONSTANTS
    Bits,      \* of the page number that one level takes
    BasePage,  \* the units of the smallest page
    AddressMod,\* one more than the largest address
    BitOr(_, _),  \* of two numbers, bit by bit
    Mapped,    \* the units of physical memory that can be read
    Mode,      \* the values of PageTranslateMode
    Entry,     \* the page table entries the guest writes
    Control,   \* the values it writes to CR0
    Root,      \* the values it writes to CR3
    Address,   \* the addresses it uses
    Length,    \* the units it reads or writes at once
    Operations \* how many operations it does (a bound)

ASSUME VirtualAssumption ==
    /\ Bits \in Nat \ {0} /\ BasePage \in Nat \ {0} /\ AddressMod \in Nat \ {0}
    /\ Mode \subseteq {"read", "write", "execute"}
    /\ Mapped \subseteq Nat /\ Root \subseteq Nat
    /\ Entry \subseteq [present : BOOLEAN, grants : SUBSET Mode,
                        user : BOOLEAN, lowest : BOOLEAN, frame : Nat]
    /\ Control \subseteq [protected : BOOLEAN, paging : BOOLEAN,
                          shift : {0, 2, 4}, levels : 3..5]
    /\ Address \subseteq 0..(AddressMod - 1) /\ Length \subseteq Nat \ {0}
    /\ Operations \in Nat

\* Powers of two are positive (arithmetic that the provers do not have).
ASSUME PowerAssumption == \A n \in 0..(2 * Bits) : 2^n \in Nat \ {0}

\* Without low bits in the number, | with one below them is +.
ASSUME OrAssumption ==
    \A e \in Entry, c \in Control :
        LET number == e.frame \div 2^c.shift
        IN  /\ BitOr(number, 0) = number
            /\ \A i \in 1..2 : number % 2^(Bits * i) = 0 =>
                   \A low \in 0..(2^(Bits * i) - 1) : BitOr(number, low) = number + low

VARIABLES
    cr3,       \* CR3, and whether it is dirty
    dirty,
    protected, \* g_privilegeMode
    paging,    \* g_isPagingEnabled
    mmu,       \* g_virtualMMU: m_pageTableRoot, m_pageSize, m_pageTableLevelCount
    user,      \* g_isInUserMode
    memory,    \* the entries that have been read
    job,       \* the access under way
    safe,      \* the argument of TranslateAddress: it is only checked
    at,        \* the address that is translated
    level,     \* i of the loop
    table,     \* the entry that was read last
    pc,        \* "idle" or "walk"
    outcome,   \* how the last access ended
    done       \* the number of operations so far

regs  == <<cr3, dirty, protected, paging, mmu>>
walk  == <<safe, at, level, table, pc>>
walkVars == <<regs, user, memory, job, walk, outcome, done>>

-----------------------------------------------------------------------------
(* Addresses.                                                              *)

PageUnits == BasePage * 2^mmu.shift
PageOf(a) == a \div PageUnits
AlignDown(a) == a - (a % PageUnits)
AlignUp(a) == AlignDown((a + PageUnits - 1) % AddressMod)

\* The index into the table of level i.
Index(a, i) == (PageOf(a) \div 2^(Bits * (mmu.levels - i - 1))) % 2^Bits

\* The first byte of the page that e points to, with the low bits of the page
\* number from.
Physical(e, from, a) ==
    BitOr(e.frame \div 2^mmu.shift, from) * PageUnits + (a % PageUnits)

\* Mutant: the tests pass over the user bit.
AllowsAnyone(e, m) == e.present /\ m \in e.grants

\* The tests of an entry.
Allows(e, m) ==
    /\ e.present
    /\ m \in e.grants
    /\ protected /\ user => e.user

-----------------------------------------------------------------------------
(* The guest: control registers, privilege, tables.                        *)

NoOutcome == [kind |-> "none", at |-> 0]

Operates == pc = "idle" /\ done < Operations /\ done' = done + 1

Unchecked == UNCHANGED <<job, walk>> /\ outcome' = NoOutcome

\* A write to CR0 and SyncRegisters after it.  The tables change only when
\* paging is switched; CR3 is read then, dirty or not.
WriteCR0(c) ==
    /\ Operates
    /\ ~(protected /\ user)
    /\ IF c.paging # paging /\ c.paging /\ c.shift = 4 /\ c.levels = 5
       THEN \* INVALID_INSTRUCTION
            /\ protected' = (c.protected /\ protected)
            /\ UNCHANGED <<paging, mmu, dirty>>
       ELSE /\ protected' = c.protected
            /\ paging' = c.paging
            /\ IF c.paging # paging /\ c.paging
               THEN /\ mmu' = [root |-> cr3, shift |-> c.shift, levels |-> c.levels]
                    /\ dirty' = FALSE
               ELSE IF dirty /\ c.paging
               THEN /\ mmu' = [mmu EXCEPT !.root = cr3]
                    /\ dirty' = FALSE
               ELSE UNCHANGED <<mmu, dirty>>
    /\ Unchecked /\ UNCHANGED <<cr3, user, memory>>

\* A write to CR3 and SyncRegisters after it.
WriteCR3(r) ==
    /\ Operates
    /\ ~(protected /\ user)
    /\ cr3' = r
    /\ IF paging
       THEN mmu' = [mmu EXCEPT !.root = r] /\ dirty' = FALSE
       ELSE dirty' = TRUE /\ UNCHANGED mmu
    /\ Unchecked /\ UNCHANGED <<protected, paging, user, memory>>

\* Module Interrupts has the instructions that do it.
ChangeUser ==
    /\ Operates
    /\ protected
    /\ user' = ~user
    /\ Unchecked /\ UNCHANGED <<regs, memory>>

\* The guest writes to the table entry at u.
Rewrite(u) ==
    /\ Operates
    /\ u \in DOMAIN memory
    /\ memory' = Restrict(memory, DOMAIN memory \ {u})
    /\ Unchecked /\ UNCHANGED <<regs, user>>

-----------------------------------------------------------------------------
(* Access and validation.                                                  *)

Translate(a, only) ==
    /\ at' = a
    /\ level' = 0
    /\ safe' = only

\* Mutant: the pages end at the one that holds the first byte behind the
\* buffer.
CheckedPagesDown(a, n) == {AlignDown(a), AlignDown((a + n) % AddressMod)}

\* The pages the loop of a Validate function translates, from the first one
\* on: none if the end wraps around.
CheckedPages(a, n) ==
    {k * PageUnits : k \in PageOf(a)..(PageOf(AlignUp((a + n) % AddressMod)) - 1)}

\* ValidateRead, ValidateWrite or ValidateExecute, and the access after it.
Load(a, n, m) ==
    /\ Operates
    /\ paging
    /\ job' = [at |-> a, length |-> n, mode |-> m, checked |-> TRUE]
    /\ IF CheckedPages(a, n) = {} THEN Translate(a, FALSE)
                                  ELSE Translate(AlignDown(a), TRUE)
    /\ pc' = "walk"
    /\ outcome' = NoOutcome
    /\ UNCHANGED <<regs, user, memory, table>>

\* ReadBuffer, WriteBuffer, or a read or write of one size.
Access(a, n, m) ==
    /\ Operates
    /\ paging
    /\ job' = [at |-> a, length |-> n, mode |-> m, checked |-> FALSE]
    /\ Translate(a, FALSE)
    /\ pc' = "walk"
    /\ outcome' = NoOutcome
    /\ UNCHANGED <<regs, user, memory, table>>

End(kind, u) ==
    /\ outcome' = [kind |-> kind, at |-> u]
    /\ pc' = "idle"
    /\ UNCHANGED <<job, safe, at, level>>

\* TranslateAddress returns the physical address p.
Return(p) ==
    IF ~safe THEN End("physical", p)
    ELSE /\ IF at + PageUnits \in CheckedPages(job.at, job.length)
            THEN Translate(at + PageUnits, TRUE)
            ELSE Translate(job.at, FALSE)
         /\ UNCHANGED <<job, pc, outcome>>

-----------------------------------------------------------------------------
(* TranslateAddress, an iteration of its loop at a time.                   *)

\* Where the entry of this level lies: GetNextTableLevel.  Tables lie at
\* multiples of the smallest page.
Slot == (IF level = 0 THEN mmu.root ELSE table.frame * BasePage) + Index(at, level)

Walks == pc = "walk" /\ UNCHANGED <<regs, user, done>>

\* The entry of the level above is a page.
LargePage ==
    /\ Walks
    /\ level > 0 /\ table.lowest
    /\ Return(Physical(table, PageOf(at) % 2^(Bits * (level - 1)), at))
    /\ UNCHANGED <<memory, table>>

Reads == Walks /\ ~(level > 0 /\ table.lowest)

\* PHYS_MEM_VIOLATION, which safe does not prevent.
Unmapped ==
    /\ Reads
    /\ Slot \notin Mapped
    /\ End("unmapped", Slot)
    /\ UNCHANGED <<memory, table>>

Fetch ==
    /\ Reads
    /\ Slot \in Mapped
    /\ \E e \in Entry :
          /\ Slot \in DOMAIN memory => e = memory[Slot]
          /\ memory' = [u \in DOMAIN memory \cup {Slot} |->
                           IF u = Slot THEN e ELSE memory[u]]
          /\ table' = e

Deny ==
    /\ Fetch
    /\ ~Allows(table', job.mode)
    /\ End(IF safe THEN "refused" ELSE "violation", IF safe THEN 0 ELSE at)

Descend ==
    /\ Fetch
    /\ Allows(table', job.mode)
    /\ level < mmu.levels - 1
    /\ level' = level + 1
    /\ UNCHANGED <<job, safe, at, pc, outcome>>

LastLevel ==
    /\ Fetch
    /\ Allows(table', job.mode)
    /\ level = mmu.levels - 1
    /\ Return(Physical(table', 0, at))

-----------------------------------------------------------------------------
WalkInit ==
    /\ cr3 = 0 /\ dirty = FALSE
    /\ protected = FALSE /\ paging = FALSE
    /\ mmu = [root |-> 0, shift |-> 0, levels |-> 3]
    /\ user = FALSE
    /\ memory = [u \in {} |-> 0]
    /\ job = [at |-> 0, length |-> 1, mode |-> CHOOSE m \in Mode : TRUE, checked |-> FALSE]
    /\ safe = FALSE /\ at = 0 /\ level = 0
    /\ table = [present |-> FALSE, grants |-> {}, user |-> FALSE,
                lowest |-> FALSE, frame |-> 0]
    /\ pc = "idle"
    /\ outcome = NoOutcome
    /\ done = 0

Guest ==
    \/ \E c \in Control : WriteCR0(c)
    \/ \E r \in Root : WriteCR3(r)
    \/ ChangeUser
    \/ \E u \in DOMAIN memory : Rewrite(u)
    \/ \E a \in Address, n \in Length, m \in Mode : Load(a, n, m) \/ Access(a, n, m)

TranslateAddress == LargePage \/ Unmapped \/ Deny \/ Descend \/ LastLevel

WalkNext == Guest \/ TranslateAddress

WalkSpec == WalkInit /\ [][WalkNext]_walkVars

-----------------------------------------------------------------------------
(* Properties.                                                             *)

WalkTypeOK ==
    /\ cr3 \in Root \cup {0} /\ {dirty, protected, paging, user, safe} \subseteq BOOLEAN
    /\ mmu \in [root : Root \cup {0}, shift : {0, 2, 4}, levels : 3..5]
    /\ DOMAIN memory \subseteq Mapped
    /\ \A u \in DOMAIN memory : memory[u] \in Entry
    /\ job \in [at : Address \cup {0}, length : Length \cup {1}, mode : Mode,
                checked : BOOLEAN]
    /\ at \in 0..(AddressMod - 1)
    /\ level \in 0..4 /\ (pc = "walk" => level < mmu.levels)
    /\ pc \in {"idle", "walk"}
    /\ outcome.kind \in {"none", "physical", "unmapped", "refused", "violation"}
    /\ done \in 0..Operations

\* The entries that let an access with m of the current privilege pass.
Granting(m) == {e \in Entry : e.present /\ m \in e.grants
                               /\ (e.user \/ ~user \/ ~protected)}

\* Where the walk for a finds the entry of each level, as far as memory tells.
Slots(a) ==
    LET slots[i \in 0..(mmu.levels - 1)] ==
            (IF i = 0 THEN mmu.root
             ELSE IF slots[i - 1] \in DOMAIN memory THEN memory[slots[i - 1]].frame * BasePage
             ELSE 0) + Index(a, i)
    IN  slots

\* What the tables say of the address a: the levels are followed from the
\* first one on, and the first of them that decides does so.  A page at level
\* i spans the pages of all indices below it.
Reference(a, m) ==
    LET slots    == Slots(a)
        Span(i) == PageUnits * 2^(Bits * (mmu.levels - 1 - i))
        Passes(i) == /\ slots[i] \in Mapped /\ slots[i] \in DOMAIN memory
                     /\ memory[slots[i]] \in Granting(m)
                     /\ ~memory[slots[i]].lowest /\ i < mmu.levels - 1
        i == CHOOSE i \in 0..(mmu.levels - 1) : ~Passes(i) /\ \A j \in 0..(i - 1) : Passes(j)
        u == slots[i]
    IN  IF u \notin Mapped
        THEN [kind |-> "unmapped", at |-> u, level |-> i]
        ELSE IF u \notin DOMAIN memory
        THEN [kind |-> "unread", at |-> u, level |-> i]
        ELSE IF memory[u] \notin Granting(m)
        THEN [kind |-> "violation", at |-> a, level |-> i]
        ELSE LET number == memory[u].frame \div 2^mmu.shift
             IN  [kind |-> "physical", level |-> i, number |-> number,
                  at |-> number * PageUnits + (a % Span(i))]

\* The pages whose address TranslateAddress computes right: those of the last
\* level, and the large ones of the middle level, for which the ten bits per
\* level counted from either end are as many, if they begin at a multiple of
\* their size.
Exact(r) ==
    \/ r.level = mmu.levels - 1
    \/ mmu.levels = 2 * r.level + 1 /\ r.number % 2^(Bits * r.level) = 0

Agrees(r, p) == r.kind = "physical" /\ (Exact(r) => r.at = p)

\* A buffer that stays in its page is read and written where the tables say,
\* unit by unit; an access that the tables deny, or whose tables are not
\* mapped, ends with the exception and the address of the first level that
\* says so (TranslateAddress).
Final == pc = "idle" /\ outcome.kind # "none"

AccessAsTabled ==
    Final /\ ~job.checked =>
        IF outcome.kind = "physical"
        THEN \A k \in 0..(job.length - 1) :
                PageOf(job.at + k) = PageOf(job.at) =>
                    Agrees(Reference(job.at + k, job.mode), outcome.at + k)
        ELSE LET r == Reference(job.at, job.mode)
             IN  outcome = [kind |-> r.kind, at |-> r.at]

\* An access that was validated first is refused exactly when the tables deny
\* a page that the buffer touches: it never raises PAGING_VIOLATION, and it
\* is never refused for a page beside the buffer (ValidateRead, ValidateWrite,
\* ValidateExecute).
Touched == {AlignDown(job.at + k) : k \in 0..(job.length - 1)}

ValidatesAsTabled ==
    Final /\ job.checked /\ job.at + job.length + PageUnits <= AddressMod =>
        LET denying == {p \in Touched : Reference(p, job.mode).kind # "physical"}
            first   == CHOOSE p \in denying : \A q \in denying : p <= q
            r       == Reference(first, job.mode)
        IN  IF denying = {} THEN outcome.kind = "physical"
            ELSE IF r.kind = "violation" THEN outcome.kind = "refused"
            ELSE outcome = [kind |-> "unmapped", at |-> r.at]

\* Under paging the walk starts from the table that CR3 names, however CR0 and
\* CR3 were written before: a write to CR3 is taken over at once, or is still
\* dirty when paging is switched on (SyncRegisters).
RootInUse == paging => mmu.root = cr3

\* No entry is passed, on the way down or as the page itself, that is not
\* present, does not grant the access or is closed to the user: a large page is
\* returned before the tests of its level (VirtualMMU.cpp:227), so the tests of
\* the level above must have been about the same entry, for the same access and
\* in the same mode (TranslateAddress).
OnlyAllowed ==
    [][LargePage \/ LastLevel \/ Descend => Allows(table', job.mode)]_walkVars

\* Not an invariant: a buffer that goes on in another page is read there.
\* ReadBuffer and WriteBuffer translate the address of its first byte only.
BufferAsTabled ==
    Final /\ outcome.kind = "physical" =>
        \A k \in 0..(job.length - 1) :
            Reference(job.at + k, job.mode).kind = "unread"
            \/ Agrees(Reference(job.at + k, job.mode), outcome.at + k)

\* Not an invariant: every large page begins where its entry says and is as
\* large as its level makes it (docs/design.md:202).
LargePagesExact ==
    Final /\ outcome.kind = "physical" =>
        outcome.at = Reference(job.at, job.mode).at
=============================================================================
