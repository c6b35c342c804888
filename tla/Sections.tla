------------------------------ MODULE Sections ------------------------------
(***************************************************************************)
(* The section table of p16as (src/src/sections.cpp, sections.h).  A        *)
(* section is an entry of `table`; the C++ section number k is the index   *)
(* k + 1 here.  base_address and the address-ordered list belong to the    *)
(* location phase and are in module Locator.                               *)
(***************************************************************************)
EXTENDS Naturals, Sequences

CONSTANTS
  Names,                    \* the section names a program may use
  Blocks,                   \* the byte strings a caller appends or writes
  Sizes,                    \* the sizes a statement reserves
  MaxSize                   \* bound: bytes a section may reach

Byte == 0 .. 255
Filler == 85                \* 0x55, what reserved bytes hold until written

ASSUME NamesAssumption == ".text" \in Names
ASSUME BlocksAssumption == Blocks \subseteq Seq(Byte)
ASSUME SizesAssumption == Sizes \subseteq Nat /\ MaxSize \in Nat

VARIABLES
  table,                    \* Seq of [name, flags, contents]
  current_section           \* index in table of the section being filled

vars == <<table, current_section>>

Flags == {"LOADABLE", "BSS", "none"}

Section == [name : Names, flags : Flags, contents : Seq(Byte)]

\* The flags set_section derives from a name: .bss is marked, .stack gets no
\* flag, any other section is loaded in memory.
FlagsOf(name) == CASE name = ".bss"   -> "BSS"
                   [] name = ".stack" -> "none"
                   [] OTHER           -> "LOADABLE"

NewSection(name) ==
  [name |-> name, flags |-> FlagsOf(name), contents |-> <<>>]

-----------------------------------------------------------------------------
\* Contents of one section.

Larger(m, n) == IF m >= n THEN m ELSE n

\* write8/16/32, write_block and fill: the vector grows to cover the bytes
\* written (resize fills the gap with zeros) and never shrinks.
WriteAt(contents, offset, block) ==
  [i \in 1 .. Larger(Len(contents), offset + Len(block)) |->
     IF i > offset /\ i <= offset + Len(block) THEN block[i - offset]
     ELSE IF i <= Len(contents) THEN contents[i]
     ELSE 0]

Repeat(byte, n) == [i \in 1 .. n |-> byte]

-----------------------------------------------------------------------------
\* State of the table when main calls the parser: set_section(".text") has run.
Init == /\ table = <<NewSection(".text")>>
        /\ current_section = 1

\* Mutant: bytes already in the only section are not looked at.
OnlyOneSection == Len(table) = 1

\* The table holds one section and nothing has been put in it.
OnlyAnEmptySection == Len(table) = 1 /\ table[1].contents = <<>>

\* Mutant: the renamed section keeps the flags of its old name.
RenameKeepingFlags(name) ==
  /\ OnlyAnEmptySection
  /\ table' = [table EXCEPT ![1].name = name]
  /\ UNCHANGED current_section

\* That section takes the new name and the new flags.
RenameFirst(name) ==
  /\ OnlyAnEmptySection
  /\ table' = [table EXCEPT ![1].name = name, ![1].flags = FlagsOf(name)]
  /\ UNCHANGED current_section

\* The first entry with the name becomes current: the section is resumed.
Reenter(name) ==
  /\ ~OnlyAnEmptySection
  /\ \E s \in DOMAIN table :
       /\ table[s].name = name
       /\ \A t \in 1 .. s - 1 : table[t].name # name
       /\ current_section' = s
  /\ UNCHANGED table

\* Mutant: the number of the new section is read after it was added.
CreateOffByOne(name) ==
  /\ ~OnlyAnEmptySection
  /\ \A s \in DOMAIN table : table[s].name # name
  /\ table' = Append(table, NewSection(name))
  /\ current_section' = Len(table) + 2

\* Another name adds an entry, which becomes current.
Create(name) ==
  /\ ~OnlyAnEmptySection
  /\ \A s \in DOMAIN table : table[s].name # name
  /\ table' = Append(table, NewSection(name))
  /\ current_section' = Len(table) + 1

SetSection(name) == RenameFirst(name) \/ Reenter(name) \/ Create(name)

\* Sections::write8/16/32, write_block, fill on the section number s.
WriteBlock(s, offset, block) ==
  /\ table' = [table EXCEPT ![s].contents = WriteAt(@, offset, block)]
  /\ UNCHANGED current_section

\* Mutant: the last byte is overwritten.
AppendOverLast(block) ==
  LET size == Len(table[current_section].contents)
  IN  WriteBlock(current_section, IF size = 0 THEN 0 ELSE size - 1, block)

\* append8, append16, append_block: write at the end of the current section.
AppendBlock(block) ==
  WriteBlock(current_section, Len(table[current_section].contents), block)

\* A statement's constructor reserves its bytes in the current section.
Increase(size) == AppendBlock(Repeat(Filler, size))

-----------------------------------------------------------------------------
Room(size) == Len(table[current_section].contents) + size <= MaxSize

\* Directives and constructors act on the current section; later writes go to
\* bytes a constructor reserved, in any section.
Next ==
  \/ \E name \in Names : SetSection(name)
  \/ \E size \in Sizes : Room(size) /\ Increase(size)
  \/ \E block \in Blocks : Room(Len(block)) /\ AppendBlock(block)
  \/ \E s \in DOMAIN table, block \in Blocks :
       \E offset \in 0 .. Len(table[s].contents) :
         /\ offset + Len(block) <= Len(table[s].contents)
         /\ WriteBlock(s, offset, block)

Spec == Init /\ [][Next]_vars

-----------------------------------------------------------------------------
TypeOK == /\ table \in Seq(Section)
          /\ current_section \in DOMAIN table

\* The search in set_section, the -s addresses and the listing all find a
\* section by name: no two entries may share one, and an entry's flags must be
\* those of the name it carries now, not of a name it had before.
TableWellFormed ==
  /\ \A s, t \in DOMAIN table : table[s].name = table[t].name => s = t
  /\ \A s \in DOMAIN table : table[s].flags = FlagsOf(table[s].name)

\* Statements keep a section number and an offset for the whole run: a section
\* that holds bytes keeps its number and its name, and never shrinks.
NumbersAreStable ==
  [][\A s \in DOMAIN table :
       table[s].contents # <<>> =>
         /\ s \in DOMAIN table'
         /\ table'[s].name = table[s].name
         /\ Len(table'[s].contents) >= Len(table[s].contents)]_vars

\* Refinement mapping: the body of a name is what the entry of that name
\* holds, and nothing when there is no such entry.
BodyIn(tb, name) ==
  IF \E s \in DOMAIN tb : tb[s].name = name
  THEN tb[CHOOSE s \in DOMAIN tb : tb[s].name = name].contents
  ELSE <<>>

Store == INSTANCE SectionStore
           WITH body <- [name \in Names |-> BodyIn(table, name)],
                here <- table[current_section].name

\* The table keeps one body per section name, appends only to the section
\* selected last and resumes a section where it stopped, however the first
\* entry is renamed (sections.cpp 134-164).
StoreSpec == Store!Spec
=============================================================================
