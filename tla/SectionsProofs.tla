--------------------------- MODULE SectionsProofs ---------------------------
(***************************************************************************)
(* Proofs about Sections, for every set of names, blocks and sizes: the    *)
(* table stays well formed, section numbers stay meaningful, and the table *)
(* implements SectionStore.                                                *)
(***************************************************************************)
EXTENDS Sections, TLAPS

\* A write yields bytes again, no fewer than before, and none but the bytes
\* written changes: what the map of the contents relies on.
LEMMA WriteAtType ==
  ASSUME NEW c \in Seq(Byte), NEW o \in Nat, NEW b \in Seq(Byte)
  PROVE  /\ WriteAt(c, o, b) \in Seq(Byte)
         /\ Len(WriteAt(c, o, b)) = Larger(Len(c), o + Len(b))
         /\ Larger(Len(c), o + Len(b)) \in Nat
         /\ \A i \in 1 .. Len(c) :
              (i <= o \/ i > o + Len(b)) => WriteAt(c, o, b)[i] = c[i]
<1> DEFINE n == Larger(Len(c), o + Len(b))
<1>1. /\ n \in Nat
      /\ n >= Len(c)
      /\ n >= o + Len(b)
  BY DEF Larger
<1>2. ASSUME NEW i \in 1 .. n
      PROVE  (IF i > o /\ i <= o + Len(b) THEN b[i - o]
              ELSE IF i <= Len(c) THEN c[i] ELSE 0) \in Byte
  <2>1. CASE i > o /\ i <= o + Len(b)
    <3>1. i - o \in 1 .. Len(b)
      BY <2>1, <1>1
    <3> QED BY <3>1, <2>1
  <2>2. CASE ~(i > o /\ i <= o + Len(b)) /\ i <= Len(c)
    <3>1. c[i] \in Byte
      BY <2>2, <1>1
    <3> QED BY <3>1, <2>2
  <2>3. CASE ~(i > o /\ i <= o + Len(b)) /\ ~(i <= Len(c))
    BY <2>3 DEF Byte
  <2> QED BY <2>1, <2>2, <2>3
<1>3. WriteAt(c, o, b) \in [1 .. n -> Byte]
  BY <1>2 DEF WriteAt
<1>4. WriteAt(c, o, b) \in Seq(Byte) /\ Len(WriteAt(c, o, b)) = n
  BY <1>1, <1>3
<1>5. ASSUME NEW i \in 1 .. Len(c), i <= o \/ i > o + Len(b)
      PROVE  WriteAt(c, o, b)[i] = c[i]
  BY <1>1, <1>5 DEF WriteAt
<1> QED BY <1>1, <1>4, <1>5

\* Filler bytes and caller blocks are bytes.
LEMMA RepeatType ==
  ASSUME NEW k \in Nat
  PROVE  Repeat(Filler, k) \in Seq(Byte) /\ Len(Repeat(Filler, k)) = k
<1>1. Repeat(Filler, k) \in [1 .. k -> Byte]
  BY DEF Repeat, Filler, Byte
<1> QED BY <1>1

\* The shape of a table after an entry is read, replaced or added.
LEMMA EntryType ==
  ASSUME NEW tb \in Seq(Section), NEW s \in DOMAIN tb
  PROVE  tb[s] \in Section
<1>1. s \in 1 .. Len(tb)
  OBVIOUS
<1> QED BY <1>1

LEMMA ReplaceEntry ==
  ASSUME NEW tb \in Seq(Section), NEW s \in DOMAIN tb, NEW e \in Section
  PROVE  LET new == [tb EXCEPT ![s] = e]
         IN  /\ new \in Seq(Section)
             /\ DOMAIN new = DOMAIN tb
             /\ new[s] = e
             /\ \A t \in DOMAIN tb : t # s => new[t] = tb[t]
OBVIOUS

LEMMA AddEntry ==
  ASSUME NEW tb \in Seq(Section), NEW e \in Section
  PROVE  LET new == Append(tb, e)
         IN  /\ new \in Seq(Section)
             /\ DOMAIN new = DOMAIN tb \cup {Len(tb) + 1}
             /\ new[Len(tb) + 1] = e
             /\ \A t \in DOMAIN tb : t # Len(tb) + 1 /\ new[t] = tb[t]
<1>1. DOMAIN tb = 1 .. Len(tb) /\ Len(tb) \in Nat
  OBVIOUS
<1>2. /\ Append(tb, e) \in Seq(Section)
      /\ Len(Append(tb, e)) = Len(tb) + 1
      /\ Append(tb, e)[Len(tb) + 1] = e
      /\ \A t \in 1 .. Len(tb) : Append(tb, e)[t] = tb[t]
  OBVIOUS
<1>3. DOMAIN Append(tb, e) = 1 .. Len(tb) + 1
  BY <1>2
<1> QED BY <1>1, <1>2, <1>3

\* Whatever name a directive gives, the new entry is a section.
LEMMA NewSectionType ==
  ASSUME NEW name \in Names
  PROVE  NewSection(name) \in Section /\ FlagsOf(name) \in Flags
<1>1. FlagsOf(name) \in Flags
  BY DEF FlagsOf, Flags
<1> QED BY <1>1 DEF NewSection, Section

-----------------------------------------------------------------------------
IInv == TypeOK /\ TableWellFormed

\* The three ways set_section ends, as facts about the next state.
LEMMA SetSectionInv ==
  ASSUME IInv, NEW name \in Names, SetSection(name)
  PROVE  IInv'
<1> USE DEF IInv, TypeOK, TableWellFormed
<1>1. CASE RenameFirst(name)
  <2>1. FlagsOf(name) \in Flags
    BY NewSectionType
  <2>2. Len(table) = 1 /\ 1 \in DOMAIN table
    BY <1>1 DEF RenameFirst, OnlyAnEmptySection
  <2> DEFINE e == [table[1] EXCEPT !.name = name, !.flags = FlagsOf(name)]
  <2>3. table' = [table EXCEPT ![1] = e]
    BY <1>1 DEF RenameFirst
  <2>4. table[1] \in Section
    BY <2>2, EntryType
  <2>5. e \in Section /\ e.name = name /\ e.flags = FlagsOf(name)
    BY <2>1, <2>4 DEF Section
  <2>6. table' \in Seq(Section) /\ DOMAIN table' = DOMAIN table /\ table'[1] = e
    BY <2>2, <2>3, <2>5, ReplaceEntry
  <2>7. \A s \in DOMAIN table' : s = 1
    BY <2>2, <2>6
  <2>8. current_section' = current_section
    BY <1>1 DEF RenameFirst
  <2> QED BY <2>5, <2>6, <2>7, <2>8
<1>2. CASE Reenter(name)
  BY <1>2 DEF Reenter
<1>3. CASE Create(name)
  <2> DEFINE e == NewSection(name)
  <2>1. e \in Section /\ e.name = name /\ e.flags = FlagsOf(name)
    BY NewSectionType DEF NewSection
  <2>2. table' = Append(table, e) /\ current_section' = Len(table) + 1
    BY <1>3 DEF Create
  <2>3. /\ table' \in Seq(Section)
        /\ DOMAIN table' = DOMAIN table \cup {Len(table) + 1}
        /\ \A s \in DOMAIN table : s # Len(table) + 1 /\ table'[s] = table[s]
        /\ table'[Len(table) + 1] = e
    BY <2>1, <2>2, AddEntry
  <2>4. \A s \in DOMAIN table : table[s].name # name
    BY <1>3 DEF Create
  <2> HIDE DEF e
  <2> QED BY <2>1, <2>2, <2>3, <2>4
<1> QED BY <1>1, <1>2, <1>3 DEF SetSection

\* Every write goes through WriteBlock: it changes the contents of one entry.
LEMMA WriteBlockInv ==
  ASSUME IInv, NEW s \in DOMAIN table, NEW o \in Nat, NEW b \in Seq(Byte),
         WriteBlock(s, o, b)
  PROVE  /\ IInv'
         /\ DOMAIN table' = DOMAIN table
         /\ current_section' = current_section
         /\ table'[s].contents = WriteAt(table[s].contents, o, b)
         /\ \A t \in DOMAIN table : /\ table'[t].name = table[t].name
                                    /\ t # s => table'[t] = table[t]
<1> USE DEF IInv, TypeOK, TableWellFormed
<1> DEFINE e == [table[s] EXCEPT !.contents = WriteAt(table[s].contents, o, b)]
<1>1. table[s] \in Section
  BY EntryType
<1>2. WriteAt(table[s].contents, o, b) \in Seq(Byte)
  BY <1>1, WriteAtType DEF Section
<1>3. /\ e \in Section
      /\ e.name = table[s].name
      /\ e.flags = table[s].flags
      /\ e.contents = WriteAt(table[s].contents, o, b)
  BY <1>1, <1>2 DEF Section
<1>4. table' = [table EXCEPT ![s] = e] /\ current_section' = current_section
  BY DEF WriteBlock
<1> HIDE DEF e
<1>5. /\ table' \in Seq(Section)
      /\ DOMAIN table' = DOMAIN table
      /\ table'[s] = e
      /\ \A t \in DOMAIN table : t # s => table'[t] = table[t]
  BY <1>3, <1>4, ReplaceEntry
<1> QED BY <1>3, <1>4, <1>5

LEMMA NextInv == IInv /\ [Next]_vars => IInv'
<1> SUFFICES ASSUME IInv, [Next]_vars
             PROVE  IInv'
  OBVIOUS
<1> USE DEF IInv
<1>1. ASSUME NEW name \in Names, SetSection(name)
      PROVE  IInv'
  BY <1>1, SetSectionInv
<1>2. ASSUME NEW b \in Seq(Byte), AppendBlock(b)
      PROVE  IInv'
  <2>1. Len(table[current_section].contents) \in Nat
    BY EntryType DEF TypeOK, Section
  <2> QED BY <1>2, <2>1, WriteBlockInv DEF AppendBlock, TypeOK
<1>3. ASSUME NEW size \in Sizes, Increase(size)
      PROVE  IInv'
  BY <1>3, <1>2, RepeatType, SizesAssumption DEF Increase
<1>4. ASSUME NEW s \in DOMAIN table, NEW b \in Blocks,
             NEW o \in 0 .. Len(table[s].contents), WriteBlock(s, o, b)
      PROVE  IInv'
  BY <1>4, WriteBlockInv, BlocksAssumption
<1>5. CASE UNCHANGED vars
  BY <1>5 DEF vars, TypeOK, TableWellFormed
<1> QED BY <1>1, <1>2, <1>3, <1>4, <1>5, BlocksAssumption DEF Next

LEMMA InitInv == Init => IInv
<1> SUFFICES ASSUME Init PROVE IInv
  OBVIOUS
<1> DEFINE e == NewSection(".text")
<1>1. e \in Section /\ e.flags = FlagsOf(e.name)
  BY NewSectionType, NamesAssumption DEF NewSection
<1>2. table = <<e>> /\ current_section = 1
  BY DEF Init
<1> HIDE DEF e
<1>3. table \in Seq(Section) /\ DOMAIN table = {1} /\ table[1] = e
  BY <1>1, <1>2
<1> QED BY <1>1, <1>2, <1>3 DEF IInv, TypeOK, TableWellFormed

\* The table holds sections and the current section is one of its entries,
\* after a rename, a return to an old section and a new one alike.
THEOREM CurrentSectionExists == Spec => []TypeOK
<1>1. IInv => TypeOK
  BY DEF IInv
<1> QED BY <1>1, InitInv, NextInv, PTL DEF Spec

\* No two sections ever share a name, and every section carries the flags of
\* its present name, whatever sequence of directives the program holds.
THEOREM TableStaysWellFormed == Spec => []TableWellFormed
<1>1. IInv => TableWellFormed
  BY DEF IInv
<1> QED BY <1>1, InitInv, NextInv, PTL DEF Spec

-----------------------------------------------------------------------------
\* What a step may never do to a section that holds bytes.
StableStep ==
  \A s \in DOMAIN table :
    table[s].contents # <<>> =>
      /\ s \in DOMAIN table'
      /\ table'[s].name = table[s].name
      /\ Len(table'[s].contents) >= Len(table[s].contents)

LEMMA WriteBlockStable ==
  ASSUME IInv, NEW s \in DOMAIN table, NEW o \in Nat, NEW b \in Seq(Byte),
         WriteBlock(s, o, b)
  PROVE  StableStep
<1>1. \A t \in DOMAIN table : table[t].contents \in Seq(Byte)
  BY EntryType DEF IInv, TypeOK, Section
<1>2. Len(table'[s].contents) >= Len(table[s].contents)
  BY <1>1, WriteBlockInv, WriteAtType DEF Larger
<1>3. \A t \in DOMAIN table : Len(table[t].contents) \in Nat
  BY <1>1
<1> QED BY <1>2, <1>3, WriteBlockInv DEF StableStep

LEMMA StableStepHolds == IInv /\ [Next]_vars => StableStep \/ UNCHANGED vars
<1> SUFFICES ASSUME IInv, Next
             PROVE  StableStep
  OBVIOUS
<1>0. \A s \in DOMAIN table : Len(table[s].contents) \in Nat
  BY EntryType DEF IInv, TypeOK, Section
<1>1. ASSUME NEW name \in Names, SetSection(name)
      PROVE  StableStep
  <2>1. CASE RenameFirst(name)
    <3>1. \A s \in DOMAIN table : table[s].contents = <<>>
      BY <2>1 DEF RenameFirst, OnlyAnEmptySection, IInv, TypeOK
    <3> QED BY <3>1 DEF StableStep
  <2>2. CASE Reenter(name)
    BY <2>2, <1>0 DEF Reenter, StableStep
  <2>3. CASE Create(name)
    <3>1. NewSection(name) \in Section
      BY NewSectionType
    <3>2. \A s \in DOMAIN table : s \in DOMAIN table' /\ table'[s] = table[s]
      BY <2>3, <3>1, AddEntry DEF Create, IInv, TypeOK
    <3> QED BY <3>2, <1>0 DEF StableStep
  <2> QED BY <1>1, <2>1, <2>2, <2>3 DEF SetSection
<1>2. ASSUME NEW b \in Seq(Byte), AppendBlock(b)
      PROVE  StableStep
  BY <1>0, <1>2, WriteBlockStable DEF AppendBlock, IInv, TypeOK
<1>3. ASSUME NEW size \in Sizes, Increase(size)
      PROVE  StableStep
  BY <1>3, <1>2, RepeatType, SizesAssumption DEF Increase
<1>4. ASSUME NEW s \in DOMAIN table, NEW b \in Blocks,
             NEW o \in 0 .. Len(table[s].contents), WriteBlock(s, o, b)
      PROVE  StableStep
  BY <1>4, WriteBlockStable, BlocksAssumption
<1> QED BY <1>1, <1>2, <1>3, <1>4, BlocksAssumption DEF Next

\* A section that holds bytes keeps its number and name and never shrinks, so
\* the (section, offset) a statement recorded stays meaningful to the end.
THEOREM SectionNumbersAreStable == Spec => NumbersAreStable
<1>1. IInv /\ [Next]_vars => [StableStep]_vars
  BY StableStepHolds
<1>2. Spec => []IInv
  BY InitInv, NextInv, PTL DEF Spec
<1>3. Spec => [][StableStep]_vars
  BY <1>1, <1>2, PTL DEF Spec
<1> QED BY <1>3 DEF NumbersAreStable, StableStep

-----------------------------------------------------------------------------
\* The refinement of SectionStore.

UniqueNames(tb) == \A s, t \in DOMAIN tb : tb[s].name = tb[t].name => s = t

body == [name \in Names |-> BodyIn(table, name)]
here == table[current_section].name

\* With unique names, the body of a name is what its only entry holds.
LEMMA BodyInEntry ==
  ASSUME NEW tb, UniqueNames(tb), NEW s \in DOMAIN tb
  PROVE  BodyIn(tb, tb[s].name) = tb[s].contents
<1>1. (CHOOSE t \in DOMAIN tb : tb[t].name = tb[s].name) = s
  BY DEF UniqueNames
<1> QED BY <1>1 DEF BodyIn

LEMMA BodyInNoEntry ==
  ASSUME NEW tb, NEW name, \A s \in DOMAIN tb : tb[s].name # name
  PROVE  BodyIn(tb, name) = <<>>
BY DEF BodyIn

\* Two tables whose entries agree on names agree on the bodies of the names
\* whose entries hold the same bytes.
LEMMA BodyInSame ==
  ASSUME NEW tb, NEW tc, UniqueNames(tb), UniqueNames(tc),
         DOMAIN tc = DOMAIN tb,
         \A s \in DOMAIN tb : tc[s].name = tb[s].name,
         NEW name,
         \A s \in DOMAIN tb : tb[s].name = name => tc[s].contents = tb[s].contents
  PROVE  BodyIn(tc, name) = BodyIn(tb, name)
<1>1. CASE \E s \in DOMAIN tb : tb[s].name = name
  <2>1. PICK s \in DOMAIN tb : tb[s].name = name
    BY <1>1
  <2> QED BY <2>1, BodyInEntry
<1>2. CASE \A s \in DOMAIN tb : tb[s].name # name
  BY <1>2, BodyInNoEntry
<1> QED BY <1>1, <1>2

\* A write changes the body of one name, into the written contents.
LEMMA WriteBlockBody ==
  ASSUME IInv, NEW s \in DOMAIN table, NEW o \in Nat, NEW b \in Seq(Byte),
         WriteBlock(s, o, b)
  PROVE  LET n == table[s].name
             c == WriteAt(table[s].contents, o, b)
         IN  /\ n \in Names
             /\ body[n] = table[s].contents
             /\ body' = [body EXCEPT ![n] = c]
             /\ here' = here
<1> DEFINE n == table[s].name
           c == WriteAt(table[s].contents, o, b)
<1>0. UniqueNames(table) /\ UniqueNames(table')
  BY WriteBlockInv DEF IInv, TableWellFormed, UniqueNames
<1>1. /\ DOMAIN table' = DOMAIN table
      /\ current_section' = current_section
      /\ table'[s].contents = c
      /\ \A t \in DOMAIN table : /\ table'[t].name = table[t].name
                                 /\ t # s => table'[t] = table[t]
  BY WriteBlockInv
<1>2. n \in Names /\ current_section \in DOMAIN table
  BY EntryType DEF IInv, TypeOK, Section
<1>3. body[n] = table[s].contents
  BY <1>0, <1>2, BodyInEntry DEF body
<1>4. BodyIn(table', n) = c
  <2>1. s \in DOMAIN table' /\ table'[s].name = n
    BY <1>1
  <2>2. BodyIn(table', table'[s].name) = table'[s].contents
    BY <1>0, <2>1, BodyInEntry
  <2> QED BY <2>1, <2>2, <1>1
<1>5. ASSUME NEW m \in Names, m # n
      PROVE  BodyIn(table', m) = BodyIn(table, m)
  <2>1. \A t \in DOMAIN table : table[t].name = m => table'[t].contents = table[t].contents
    BY <1>1, <1>5
  <2> HIDE DEF n, c
  <2> QED BY <1>0, <1>1, <2>1, BodyInSame
<1>6. body' = [name \in Names |-> BodyIn(table', name)]
  BY DEF body
<1>7. body' = [body EXCEPT ![n] = c]
  <2> HIDE DEF n, c
  <2> QED BY <1>2, <1>4, <1>5, <1>6 DEF body
<1>8. here' = here
  BY <1>1, <1>2 DEF here
<1> QED BY <1>2, <1>3, <1>7, <1>8

\* A section directive selects a body and leaves all bodies as they are.
LEMMA SetSectionBody ==
  ASSUME IInv, NEW name \in Names, SetSection(name)
  PROVE  body' = body /\ here' = name
<1>0. UniqueNames(table) /\ UniqueNames(table')
  BY SetSectionInv DEF IInv, TableWellFormed, UniqueNames
<1>1. body' = [n \in Names |-> BodyIn(table', n)]
  BY DEF body
<1>2. CASE RenameFirst(name)
  <2> DEFINE e == [table[1] EXCEPT !.name = name, !.flags = FlagsOf(name)]
  <2>1. Len(table) = 1 /\ DOMAIN table = {1} /\ table[1].contents = <<>>
    BY <1>2 DEF RenameFirst, OnlyAnEmptySection, IInv, TypeOK
  <2>2. table[1] \in Section
    BY <2>1, EntryType DEF IInv, TypeOK
  <2>3. e \in Section /\ e.contents = <<>> /\ e.name = name
    BY <2>1, <2>2, NewSectionType DEF Section
  <2>4. table' = [table EXCEPT ![1] = e] /\ current_section' = current_section
    BY <1>2 DEF RenameFirst
  <2> HIDE DEF e
  <2>5. DOMAIN table' = {1} /\ table'[1] = e
    BY <2>1, <2>3, <2>4, ReplaceEntry DEF IInv, TypeOK
  <2>6. \A n : BodyIn(table, n) = <<>>
    BY <2>1, <1>0, BodyInEntry, BodyInNoEntry
  <2>7. \A n : BodyIn(table', n) = <<>>
    BY <2>3, <2>5, <1>0, BodyInEntry, BodyInNoEntry
  <2>8. current_section = 1
    BY <2>1 DEF IInv, TypeOK
  <2> QED BY <1>1, <2>3, <2>4, <2>5, <2>6, <2>7, <2>8 DEF body, here
<1>3. CASE Reenter(name)
  BY <1>3 DEF Reenter, body, here
<1>4. CASE Create(name)
  <2> DEFINE e == NewSection(name)
  <2>1. e \in Section /\ e.name = name /\ e.contents = <<>>
    BY NewSectionType DEF NewSection
  <2>2. table' = Append(table, e) /\ current_section' = Len(table) + 1
    BY <1>4 DEF Create
  <2>3. /\ DOMAIN table' = DOMAIN table \cup {Len(table) + 1}
        /\ table'[Len(table) + 1] = e
        /\ \A t \in DOMAIN table : table'[t] = table[t]
    BY <2>1, <2>2, AddEntry DEF IInv, TypeOK
  <2>4. \A s \in DOMAIN table : table[s].name # name
    BY <1>4 DEF Create
  <2> HIDE DEF e
  <2>5. ASSUME NEW n \in Names
        PROVE  BodyIn(table', n) = BodyIn(table, n)
    <3>1. CASE n = name
      <4>1. BodyIn(table, n) = <<>>
        BY <3>1, <2>4, BodyInNoEntry
      <4>2. BodyIn(table', table'[Len(table) + 1].name) = table'[Len(table) + 1].contents
        BY <2>3, <1>0, BodyInEntry
      <4> QED BY <3>1, <4>1, <4>2, <2>1, <2>3
    <3>2. CASE \E s \in DOMAIN table : table[s].name = n
      <4>1. PICK s \in DOMAIN table : table[s].name = n
        BY <3>2
      <4>2. BodyIn(table, table[s].name) = table[s].contents
        BY <1>0, BodyInEntry
      <4>3. s \in DOMAIN table' /\ table'[s] = table[s]
        BY <2>3
      <4>4. BodyIn(table', table'[s].name) = table'[s].contents
        BY <1>0, <4>3, BodyInEntry
      <4> QED BY <4>1, <4>2, <4>3, <4>4
    <3>3. CASE n # name /\ \A s \in DOMAIN table : table[s].name # n
      <4>1. \A s \in DOMAIN table' : table'[s].name # n
        BY <3>3, <2>1, <2>3
      <4> QED BY <3>3, <4>1, BodyInNoEntry
    <3> QED BY <3>1, <3>2, <3>3
  <2> QED BY <1>1, <2>1, <2>2, <2>3, <2>5 DEF body, here
<1> QED BY <1>2, <1>3, <1>4 DEF SetSection

\* Appending extends the body of the selected name; the old bytes stay.
LEMMA AppendBlockExtends ==
  ASSUME IInv, NEW b \in Seq(Byte), AppendBlock(b)
  PROVE  Store!Extend
<1> DEFINE c == table[current_section].contents
           d == WriteAt(c, Len(c), b)
<1>1. c \in Seq(Byte) /\ Len(c) \in Nat /\ current_section \in DOMAIN table
  <2>1. current_section \in DOMAIN table /\ table[current_section] \in Section
    BY EntryType DEF IInv, TypeOK
  <2>2. c \in Seq(Byte)
    BY <2>1 DEF Section
  <2> QED BY <2>1, <2>2
<1>2. /\ d \in Seq(Byte)
      /\ Len(c) <= Len(d)
      /\ \A i \in 1 .. Len(c) : d[i] = c[i]
  <2> HIDE DEF c
  <2>1. /\ d \in Seq(Byte)
        /\ Len(d) = Larger(Len(c), Len(c) + Len(b))
        /\ \A i \in 1 .. Len(c) : i <= Len(c) => d[i] = c[i]
    BY <1>1, WriteAtType
  <2>2. Larger(Len(c), Len(c) + Len(b)) >= Len(c)
    BY <1>1 DEF Larger
  <2> QED BY <2>1, <2>2
<1>3. WriteBlock(current_section, Len(c), b)
  BY DEF AppendBlock
<1>4. /\ here \in Names
      /\ body[here] = c
      /\ body' = [body EXCEPT ![here] = d]
      /\ here' = here
  BY <1>1, <1>3, WriteBlockBody DEF here
<1>5. body'[here] = d
  <2> HIDE DEF d
  <2>1. here \in DOMAIN body
    BY <1>4 DEF body
  <2> QED BY <1>4, <2>1
<1> HIDE DEF c, d
<1>6. Store!OnlyBody(here)
  BY <1>2, <1>4, <1>5 DEF Store!OnlyBody, Store!Byte, Byte, body, here
<1> QED BY <1>2, <1>4, <1>5, <1>6 DEF Store!Extend, body, here

\* A write inside the bytes reserved patches the body of that name.
LEMMA WriteBlockPatches ==
  ASSUME IInv, NEW s \in DOMAIN table, NEW b \in Seq(Byte), NEW o \in Nat,
         o + Len(b) <= Len(table[s].contents), WriteBlock(s, o, b)
  PROVE  \E n \in Names : Store!Patch(n)
<1> DEFINE c == table[s].contents
           d == WriteAt(c, o, b)
           n == table[s].name
<1>1. c \in Seq(Byte) /\ Len(c) \in Nat
  <2>1. table[s] \in Section
    BY EntryType DEF IInv, TypeOK
  <2>2. c \in Seq(Byte)
    BY <2>1 DEF Section
  <2> QED BY <2>2
<1>2. d \in Seq(Byte) /\ Len(d) = Len(c)
  <2> HIDE DEF d
  <2>1. d \in Seq(Byte) /\ Len(d) = Larger(Len(c), o + Len(b))
    BY <1>1, WriteAtType DEF d
  <2> QED BY <1>1, <2>1 DEF Larger
<1>3. /\ n \in Names
      /\ body[n] = c
      /\ body' = [body EXCEPT ![n] = d]
      /\ here' = here
  BY WriteBlockBody
<1> HIDE DEF c, d, n
<1>4. body'[n] = d
  <2>1. n \in DOMAIN body
    BY <1>3 DEF body
  <2> QED BY <1>3, <2>1
<1>5. Store!OnlyBody(n)
  BY <1>2, <1>3, <1>4 DEF Store!OnlyBody, Store!Byte, Byte, body
<1>6. Store!Patch(n)
  BY <1>2, <1>3, <1>4, <1>5 DEF Store!Patch, body, here
<1> QED BY <1>3, <1>6

\* The table implements one body per name: text goes to the section selected
\* last, a section is resumed where it stopped, and later writes change bytes
\* of one section only.
THEOREM ImplementsStore == Spec => StoreSpec
<1>1. Init => Store!Init
  <2> SUFFICES ASSUME Init PROVE Store!Init
    OBVIOUS
  <2>1. IInv /\ table = <<NewSection(".text")>> /\ current_section = 1
    BY InitInv DEF Init
  <2>2. DOMAIN table = {1} /\ table[1].contents = <<>>
    BY <2>1 DEF NewSection
  <2>3. UniqueNames(table)
    BY <2>2 DEF UniqueNames
  <2>4. \A n \in Names : BodyIn(table, n) = <<>>
    BY <2>2, <2>3, BodyInEntry, BodyInNoEntry
  <2>5. here \in Names
    BY <2>1, EntryType DEF IInv, TypeOK, Section, here
  <2> QED BY <2>4, <2>5 DEF Store!Init, here
<1>2. IInv /\ [Next]_vars => [Store!Next]_<<body, here>>
  <2> SUFFICES ASSUME IInv, [Next]_vars
               PROVE  [Store!Next]_<<body, here>>
    OBVIOUS
  <2>1. ASSUME NEW name \in Names, SetSection(name)
        PROVE  Store!Next
    <3>1. Store!Select(name)
      BY <2>1, SetSectionBody DEF Store!Select, body, here
    <3> QED BY <3>1 DEF Store!Next
  <2>2. ASSUME NEW b \in Seq(Byte), AppendBlock(b)
        PROVE  Store!Next
    BY <2>2, AppendBlockExtends DEF Store!Next
  <2>3. ASSUME NEW size \in Sizes, Increase(size)
        PROVE  Store!Next
    BY <2>3, <2>2, RepeatType, SizesAssumption DEF Increase
  <2>4. ASSUME NEW s \in DOMAIN table, NEW b \in Blocks,
               NEW o \in 0 .. Len(table[s].contents),
               o + Len(b) <= Len(table[s].contents), WriteBlock(s, o, b)
        PROVE  Store!Next
    BY <2>4, WriteBlockPatches, BlocksAssumption DEF Store!Next
  <2>5. CASE UNCHANGED vars
    BY <2>5 DEF vars, body, here
  <2> QED BY <2>1, <2>2, <2>3, <2>4, <2>5, BlocksAssumption DEF Next
<1>3. IInv /\ [Next]_vars => [Store!Next]_<<[name \in Names |-> BodyIn(table, name)],
                                         table[current_section].name>>
  BY <1>2 DEF body, here
<1> QED BY <1>1, <1>3, InitInv, NextInv, PTL DEF Spec, StoreSpec, Store!Spec
=============================================================================
