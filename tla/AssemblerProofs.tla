--------------------------- MODULE AssemblerProofs ---------------------------
(***************************************************************************)
(* Proofs about Assembler, for programs of any length over any names and    *)
(* labels, and any -s options.                                             *)
(***************************************************************************)
EXTENDS Assembler, NumberLemmas, FiniteSetTheorems

\* The lemmas about the section table, for the table of this module.
SP == INSTANCE SectionsProofs WITH Blocks <- {}, Sizes <- {}, MaxSize <- 0

-----------------------------------------------------------------------------
\* The section table.

TableOK == S!TypeOK /\ S!TableWellFormed

\* What the assumptions of Sections say of the instance.
LEMMA SectionsAssumptions ==
  /\ ".text" \in Names
  /\ {} \subseteq Seq(SP!Byte) /\ {} \subseteq Nat /\ 0 \in Nat
BY NamesAssumption

LEMMA SameTable == /\ SP!IInv <=> TableOK
                   /\ SP!IInv' <=> TableOK'
                   /\ SP!Byte = S!Byte
BY DEF SP!IInv, TableOK, S!TypeOK, SP!TypeOK, S!TableWellFormed, SP!TableWellFormed,
       S!Section, SP!Section, S!Byte, SP!Byte, S!FlagsOf, SP!FlagsOf, S!Flags, SP!Flags

LEMMA SameOperations ==
  ASSUME NEW name, NEW s, NEW o, NEW b
  PROVE  /\ SP!SetSection(name) <=> S!SetSection(name)
         /\ SP!WriteBlock(s, o, b) <=> S!WriteBlock(s, o, b)
         /\ SP!AppendBlock(b) <=> S!AppendBlock(b)
         /\ \A c : SP!WriteAt(c, o, b) = S!WriteAt(c, o, b)
<1>1. SP!SetSection(name) <=> S!SetSection(name)
  BY DEF SP!SetSection, S!SetSection, S!RenameFirst, SP!RenameFirst, S!Reenter,
         SP!Reenter, S!Create, SP!Create, S!NewSection, SP!NewSection,
         S!OnlyAnEmptySection, SP!OnlyAnEmptySection, S!FlagsOf, SP!FlagsOf
<1>2. \A c, p : SP!WriteAt(c, p, b) = S!WriteAt(c, p, b)
  BY DEF S!WriteAt, SP!WriteAt, S!Larger, SP!Larger
<1>3. \A t, p : SP!WriteBlock(t, p, b) <=> S!WriteBlock(t, p, b)
  BY <1>2 DEF S!WriteBlock, SP!WriteBlock
<1>4. SP!AppendBlock(b) <=> S!AppendBlock(b)
  BY <1>3 DEF S!AppendBlock, SP!AppendBlock
<1> QED BY <1>1, <1>2, <1>3, <1>4

LEMMA TableTypes ==
  ASSUME TableOK
  PROVE  /\ DOMAIN table = 1 .. Len(table) /\ Len(table) \in Nat
         /\ current_section \in DOMAIN table
         /\ \A s \in DOMAIN table :
              /\ table[s].name \in Names
              /\ Contents(s) \in Seq(S!Byte) /\ Len(Contents(s)) \in Nat
              /\ DOMAIN Contents(s) = 1 .. Len(Contents(s))
              /\ \A i \in DOMAIN Contents(s) : Contents(s)[i] \in S!Byte
<1>1. table \in Seq(S!Section) /\ current_section \in DOMAIN table
  BY DEF TableOK, S!TypeOK
<1>2. ASSUME NEW s \in DOMAIN table
      PROVE  table[s].name \in Names /\ Contents(s) \in Seq(S!Byte)
  <2>1. table[s] \in S!Section
    BY <1>1
  <2> QED BY <2>1 DEF S!Section, Contents
<1>3. ASSUME NEW c \in Seq(S!Byte)
      PROVE  /\ Len(c) \in Nat /\ DOMAIN c = 1 .. Len(c)
             /\ \A i \in DOMAIN c : c[i] \in S!Byte
  OBVIOUS
<1> QED BY <1>1, <1>2, <1>3

\* A section directive keeps all bytes; a section it adds is empty.
LEMMA SetSectionTable ==
  ASSUME TableOK, NEW name \in Names, S!SetSection(name)
  PROVE  /\ TableOK'
         /\ DOMAIN table \subseteq DOMAIN table'
         /\ \A s \in DOMAIN table : table'[s].contents = Contents(s)
         /\ \A s \in DOMAIN table' : s \notin DOMAIN table => table'[s].contents = <<>>
<1>1. TableOK'
  BY SameTable, SameOperations, SectionsAssumptions, SP!SetSectionInv
<1>2. /\ DOMAIN table = 1 .. Len(table) /\ Len(table) \in Nat
      /\ table \in Seq(S!Section)
  BY TableTypes DEF TableOK, S!TypeOK
<1>3. CASE S!RenameFirst(name)
  <2>0. Len(table) = 1
    BY <1>3 DEF S!RenameFirst, S!OnlyAnEmptySection
  <2>1. /\ table' = [table EXCEPT ![1] =
                       [table[1] EXCEPT !.name = name, !.flags = S!FlagsOf(name)]]
        /\ DOMAIN table = {1} /\ table[1] \in S!Section
    <3>0. DOMAIN table = {1} /\ 1 \in DOMAIN table
      BY <1>2, <2>0
    <3>1. \A s \in DOMAIN table : table[s] \in S!Section
      BY <1>2
    <3>2. table[1] \in S!Section
      BY <3>0, <3>1
    <3>3. table' = [table EXCEPT ![1] =
                       [table[1] EXCEPT !.name = name, !.flags = S!FlagsOf(name)]]
      BY <1>3 DEF S!RenameFirst
    <3> QED BY <3>0, <3>2, <3>3
  <2>2. DOMAIN table' = DOMAIN table /\ table'[1].contents = table[1].contents
    BY <2>1 DEF S!Section
  <2> QED BY <1>1, <2>1, <2>2 DEF Contents
<1>4. CASE S!Reenter(name)
  BY <1>1, <1>4 DEF S!Reenter, Contents
<1>5. CASE S!Create(name)
  <2>1. table' = Append(table, S!NewSection(name))
    BY <1>5 DEF S!Create
  <2>2. S!NewSection(name).contents = <<>>
    BY DEF S!NewSection
  <2> HIDE DEF S!NewSection
  <2>3. /\ DOMAIN table' = 1 .. Len(table) + 1
        /\ table'[Len(table) + 1] = S!NewSection(name)
        /\ \A s \in DOMAIN table : table'[s] = table[s]
    BY <1>2, <2>1
  <2> QED BY <1>1, <1>2, <2>2, <2>3 DEF Contents
<1> QED BY <1>3, <1>4, <1>5 DEF S!SetSection

\* A write changes the contents of one section where its bytes go; past the
\* end, the section grows.
LEMMA WriteTable ==
  ASSUME TableOK, NEW s \in DOMAIN table, NEW o \in Nat, NEW b \in Seq(S!Byte),
         o <= Len(Contents(s)), S!WriteBlock(s, o, b)
  PROVE  /\ TableOK'
         /\ DOMAIN table' = DOMAIN table
         /\ current_section' = current_section
         /\ \A t \in DOMAIN table : /\ table'[t].name = table[t].name
                                    /\ table'[t].flags = table[t].flags
                                    /\ t # s => table'[t] = table[t]
         /\ Len(table'[s].contents) = IF o + Len(b) <= Len(Contents(s))
                                      THEN Len(Contents(s)) ELSE o + Len(b)
         /\ \A i \in 1 .. Len(table'[s].contents) :
              table'[s].contents[i] = IF i > o /\ i <= o + Len(b) THEN b[i - o]
                                      ELSE Contents(s)[i]
<1> DEFINE c == table[s].contents
           d == S!WriteAt(c, o, b)
<1>1. /\ TableOK' /\ DOMAIN table' = DOMAIN table
      /\ current_section' = current_section
      /\ table'[s].contents = d
      /\ \A t \in DOMAIN table : /\ table'[t].name = table[t].name
                                 /\ t # s => table'[t] = table[t]
  BY SameTable, SameOperations, SectionsAssumptions, SP!WriteBlockInv, SMTT(60)
<1>2. \A t \in DOMAIN table : table'[t].flags = table[t].flags
  BY <1>1 DEF TableOK, S!TableWellFormed
<1>3. c \in Seq(S!Byte) /\ Len(c) \in Nat /\ Len(b) \in Nat /\ o <= Len(c)
  BY TableTypes DEF Contents
<1>4. /\ Len(d) = IF o + Len(b) <= Len(c) THEN Len(c) ELSE o + Len(b)
      /\ \A i \in 1 .. Len(d) : d[i] = IF i > o /\ i <= o + Len(b) THEN b[i - o] ELSE c[i]
  <2> DEFINE n == IF o + Len(b) <= Len(c) THEN Len(c) ELSE o + Len(b)
  <2>1. S!Larger(Len(c), o + Len(b)) = n /\ n \in Nat
    BY <1>3 DEF S!Larger
  <2>2. d = [i \in 1 .. n |-> IF i > o /\ i <= o + Len(b) THEN b[i - o]
                              ELSE IF i <= Len(c) THEN c[i] ELSE 0]
    BY <2>1 DEF S!WriteAt
  <2>3. Len(d) = n
    <3>1. d \in Seq(S!Byte) /\ Len(d) = S!Larger(Len(c), o + Len(b))
      <4>1. S!Larger(Len(c), o + Len(b)) = SP!Larger(Len(c), o + Len(b))
        BY DEF S!Larger, SP!Larger
      <4>2. SP!WriteAt(c, o, b) = d
        BY SameOperations
      <4>3. c \in Seq(SP!Byte) /\ b \in Seq(SP!Byte) /\ o \in Nat
        BY <1>3, SameTable
      <4> HIDE DEF c, n, d
      <4>4. /\ SP!WriteAt(c, o, b) \in Seq(SP!Byte)
            /\ Len(SP!WriteAt(c, o, b)) = SP!Larger(Len(c), o + Len(b))
        BY <4>3, SectionsAssumptions, SP!WriteAtType
      <4> QED BY <4>1, <4>2, <4>4, SameTable
    <3> QED BY <2>1, <3>1
  <2>4. \A i \in 1 .. n : (i > o /\ i <= o + Len(b)) \/ i <= Len(c)
    BY <1>3
  <2> HIDE DEF c, d
  <2>5. \A i \in 1 .. n : d[i] = IF i > o /\ i <= o + Len(b) THEN b[i - o] ELSE c[i]
    BY <2>2, <2>4
  <2> QED BY <2>3, <2>5
<1> QED BY <1>1, <1>2, <1>4 DEF Contents

-----------------------------------------------------------------------------
\* Statements, operands and words.

\* The constructors, as facts about the fields.
StatementKinds(stmt) ==
  \/ stmt.op = "empty"
  \/ stmt.op = "section" /\ stmt.name \in Names
  \/ stmt.op = "inst" /\ stmt.code \in Word
  \/ stmt.op = "ldr" /\ stmt.target \in Operand
  \/ stmt.op = "branch" /\ stmt.target \in Operand
  \/ stmt.op = "shift" /\ stmt.amount \in Operand
  \/ stmt.op = "data" /\ stmt.grain \in {1, 2} /\ stmt.values \in Seq(Operand)
  \/ stmt.op = "space" /\ stmt.size \in Operand /\ stmt.fill \in Operand
  \/ stmt.op = "align" /\ stmt.power \in 0 .. 30
  \/ stmt.op = "ascii" /\ stmt.text \in Seq(S!Byte)

LEMMA StatementFields ==
  ASSUME NEW stmt \in Statement
  PROVE  StatementKinds(stmt)
<1> USE DEF S!Byte
<1> HIDE DEF Operand
<1>1. CASE stmt \in [op : {"empty"}]
  <2>1. stmt.op = "empty"
    BY <1>1
  <2> QED BY <2>1 DEF StatementKinds
<1>2. CASE stmt \in [op : {"section"}, name : Names]
  <2>1. stmt.op = "section" /\ stmt.name \in Names
    BY <1>2
  <2> QED BY <2>1 DEF StatementKinds
<1>3. CASE stmt \in [op : {"inst"}, code : Word]
  <2>1. stmt.op = "inst" /\ stmt.code \in Word
    BY <1>3
  <2> QED BY <2>1 DEF StatementKinds
<1>4. CASE stmt \in [op : {"ldr", "branch"}, target : Operand]
  <2>1. stmt.op \in {"ldr", "branch"} /\ stmt.target \in Operand
    BY <1>4
  <2> QED BY <2>1 DEF StatementKinds
<1>5. CASE stmt \in [op : {"shift"}, amount : Operand]
  <2>1. stmt.op = "shift" /\ stmt.amount \in Operand
    BY <1>5
  <2> QED BY <2>1 DEF StatementKinds
<1>6. CASE stmt \in [op : {"data"}, grain : {1, 2}, values : Seq(Operand)]
  <2>1. stmt.op = "data" /\ stmt.grain \in {1, 2} /\ stmt.values \in Seq(Operand)
    BY <1>6
  <2> QED BY <2>1 DEF StatementKinds
<1>7. CASE stmt \in [op : {"space"}, size : Operand, fill : Operand]
  <2>1. stmt.op = "space" /\ stmt.size \in Operand /\ stmt.fill \in Operand
    BY <1>7
  <2> QED BY <2>1 DEF StatementKinds
<1>8. CASE stmt \in [op : {"align"}, power : 0 .. 30]
  <2>1. stmt.op = "align" /\ stmt.power \in 0 .. 30
    BY <1>8
  <2> QED BY <2>1 DEF StatementKinds
<1>9. CASE stmt \in [op : {"ascii"}, text : Seq(0 .. 255)]
  <2>1. stmt.op = "ascii" /\ stmt.text \in Seq(S!Byte)
    BY <1>9
  <2> QED BY <2>1 DEF StatementKinds
<1> QED BY <1>1, <1>2, <1>3, <1>4, <1>5, <1>6, <1>7, <1>8, <1>9 DEF Statement

\* How many words there are.
WordCount == 256 * 256

LEMMA WordIs == \A w : w \in Word <=> w \in Nat /\ w < WordCount
<1>1. PICK m \in Nat : m = 65535
  BY SMT
<1>2. Word = 0 .. m
  BY <1>1, SMT DEF Word
<1>3. \A w : w \in 0 .. m <=> w \in Nat /\ w < m + 1
  BY SMT
<1>4. m + 1 = WordCount
  BY <1>1, SMT DEF WordCount
<1> QED BY <1>2, <1>3, <1>4, SMT

LEMMA WordsAreNumbers == \A w \in Word : w \in Nat
BY WordIs

LEMMA WordLimit == \A n \in Nat : n \in Word <=> n < WordCount
BY WordIs

Entry == [section : Nat, offset : Nat, home : Names \cup {""}]

SymbolsTyped == symbols \in [Labels -> Entry]

\* What a constant of the operand says needs no state.
LEMMA ReferencesKept == \A e : Refers(e)' <=> Refers(e)
BY SMT DEF Refers, IsLabel, NumberFits, Fits16, MaxWord

LEMMA OperandValues ==
  ASSUME SymbolsTyped, NEW e \in Operand
  PROVE  /\ IsLabel(e) => e.symbol \in Labels
         /\ e.addend \in Int /\ IntOf(e) \in Int
         /\ ValueOf(e) \in Word
         /\ EvalErrors(e) \in 0 .. 1 /\ EvalWarnings(e) \in 0 .. 1
<1>1. e.addend \in Int /\ (IsLabel(e) => e.symbol \in Labels)
  BY DEF Operand, IsLabel
<1>2. IntOf(e) \in Int
  <2>1. ASSUME IsLabel(e) PROVE symbols[e.symbol].offset \in Nat
    BY <1>1, <2>1 DEF SymbolsTyped, Entry
  <2> QED BY <1>1, <2>1 DEF IntOf
<1>3. ValueOf(e) \in Word
  <2> DEFINE v == IntOf(e)
  <2>1. v \in Int /\ ValueOf(e) = v % 65536
    BY <1>2, SMT DEF ValueOf
  <2> HIDE DEF v
  <2>2. v % 65536 \in Nat /\ v % 65536 < 65536
    BY <2>1
  <2> QED BY <2>1, <2>2, WordIs DEF WordCount
<1>4. EvalErrors(e) \in 0 .. 1 /\ EvalWarnings(e) \in 0 .. 1
  BY DEF EvalErrors, EvalWarnings
<1> QED BY <1>1, <1>2, <1>3, <1>4

\* A reference that reports no error has a value.
LEMMA ReferencesEvaluate ==
  ASSUME NEW e, Refers(e), EvalErrors(e) # 1
  PROVE  IsLabel(e) /\ Evaluates(e)
BY Zenon DEF Refers, EvalErrors, Evaluates

\* The powers of two that .align and the field widths use.
LEMMA Powers == \A n \in 0 .. 30 : 2^n \in Nat \ {0}
<1> SUFFICES ASSUME NEW n \in 0 .. 30
             PROVE  2^n \in Nat \ {0}
  OBVIOUS
<1>1. n \in 0 .. 31
  OBVIOUS
<1> QED BY <1>1, PowersArePositive, Zenon

LEMMA AlignmentGap ==
  ASSUME NEW n \in 0 .. 30, NEW o \in Nat
  PROVE  AlignUp(o, n) - o \in Nat
<1> DEFINE d == 2^n
           q == (o + d - 1) \div d
           r == (o + d - 1) % d
<1>1. d \in Nat \ {0}
  BY Powers
<1> HIDE DEF d
<1>2. q \in Int /\ r \in 0 .. d - 1 /\ o + d - 1 = q * d + r
  <2>1. o + d - 1 \in Int
    BY <1>1
  <2> QED BY <1>1, <2>1, QuotientAndRest, Zenon
<1>3. AlignUp(o, n) = q * d
  BY DEF AlignUp, d
<1> HIDE DEF q, r
<1>4. q * d \in Int
  BY <1>1, <1>2
<1>5. q * d - o \in Nat
  BY <1>1, <1>2, <1>4
<1> QED BY <1>3, <1>5

LEMMA ByteSequence ==
  ASSUME NEW n \in Nat, NEW f \in [1 .. n -> S!Byte]
  PROVE  f \in Seq(S!Byte) /\ Len(f) = n
OBVIOUS

LEMMA WordBytes ==
  ASSUME NEW w \in Int
  PROVE  /\ Bytes(w, 1) \in Seq(S!Byte) /\ Len(Bytes(w, 1)) = 1
         /\ Bytes(w, 2) \in Seq(S!Byte) /\ Len(Bytes(w, 2)) = 2
         /\ Bytes(w, 1)[1] = w % 256
         /\ Bytes(w, 2)[1] = w % 256 /\ Bytes(w, 2)[2] = (w \div 256) % 256
<1> DEFINE byte(i) == (w \div 2^(8 * (i - 1))) % 256
<1>1. byte(1) = w % 256 /\ byte(2) = (w \div 256) % 256
  <2>1. 2^(8 * (1 - 1)) = 1 /\ 2^(8 * (2 - 1)) = 256
    OBVIOUS
  <2>2. w \div 1 = w
    OBVIOUS
  <2> QED BY <2>1, <2>2
<1>2. byte(1) \in S!Byte /\ byte(2) \in S!Byte
  <2>1. w \div 256 \in Int
    OBVIOUS
  <2> QED BY <1>1, <2>1, QuotientAndRest DEF S!Byte
<1>3. Bytes(w, 1) = [i \in 1 .. 1 |-> byte(i)] /\ Bytes(w, 2) = [i \in 1 .. 2 |-> byte(i)]
  BY DEF Bytes
<1> HIDE DEF byte
<1>4. Bytes(w, 1) \in [1 .. 1 -> S!Byte] /\ Bytes(w, 2) \in [1 .. 2 -> S!Byte]
  BY <1>2, <1>3
<1>5. /\ Bytes(w, 1) \in Seq(S!Byte) /\ Len(Bytes(w, 1)) = 1
      /\ Bytes(w, 2) \in Seq(S!Byte) /\ Len(Bytes(w, 2)) = 2
  BY <1>4, ByteSequence
<1>6. Bytes(w, 1)[1] = byte(1) /\ Bytes(w, 2)[1] = byte(1) /\ Bytes(w, 2)[2] = byte(2)
  BY <1>3
<1> QED BY <1>1, <1>5, <1>6, Zenon

LEMMA RepeatedByte ==
  ASSUME NEW b \in S!Byte, NEW k \in Nat
  PROVE  S!Repeat(b, k) \in Seq(S!Byte) /\ Len(S!Repeat(b, k)) = k
<1>1. S!Repeat(b, k) \in [1 .. k -> S!Byte]
  BY DEF S!Repeat
<1> QED BY <1>1, ByteSequence

-----------------------------------------------------------------------------
\* The inductive invariant: places point at bytes that exist.

Nodes == [stmt : Statement, section : Nat, offset : Nat, size : Nat]

LowWord(v) == v % 65536

\* What a constructor knows of the bytes its visit will write.
SizeFits(n) ==
  /\ n.stmt.op \in {"inst", "ldr", "branch", "shift"} => n.size = 2
  /\ n.stmt.op = "data" => n.size = n.stmt.grain * Len(n.stmt.values)
  /\ n.stmt.op = "space" /\ ~IsLabel(n.stmt.size) /\ Fits16(n.stmt.size.addend) =>
       n.size = LowWord(n.stmt.size.addend)

NodeFits(n) == /\ n.section \in DOMAIN table
               /\ n.offset + n.size <= Len(Contents(n.section))
               /\ SizeFits(n)

Reloc == [section : Nat, offset : Nat, position : Nat, width : Nat,
          type : {"RELATIVE_UNSIGNED", "ABSOLUTE"}, symbol : Labels, addend : Int]

\* The field of a relocation: the constant of a load, a byte or a word.
FieldFits(r) ==
  \/ r.type = "RELATIVE_UNSIGNED" /\ r.position = LdrPosition /\ r.width = LdrWidth
  \/ r.type = "ABSOLUTE" /\ r.position = 0 /\ r.width \in {8, 16}

FieldBytes(r) == IF r.width = 8 THEN 1 ELSE 2

RelocFits(r) == /\ r.section \in DOMAIN table
                /\ r.offset + FieldBytes(r) <= Len(Contents(r.section))
                /\ Defined(r.symbol)
                /\ FieldFits(r)

SourceOK == /\ source \in Seq(SourceLine)
            /\ \A name \in DOMAIN section_addresses : section_addresses[name] \in Nat
SymbolsOK == /\ SymbolsTyped
             /\ \A l \in Labels : Defined(l) => symbols[l].section \in DOMAIN table
AstOK == ast \in Seq(Nodes) /\ \A j \in DOMAIN ast : NodeFits(ast[j])
RelocsOK == relocs \in Seq(Reloc) /\ \A k \in DOMAIN relocs : RelocFits(relocs[k])
CountsOK == error_count \in Nat /\ warning_count \in Nat /\ pc \in Nat \ {0}
BasesOK == /\ current_address \in Nat /\ next \in Nat \ {0}
           /\ phase \in {"locate", "relocate", "load"} \/ Succeeded =>
                base_address \in [DOMAIN table -> Nat]

BaseInv == /\ TableOK /\ SourceOK /\ SymbolsOK /\ AstOK /\ RelocsOK
           /\ CountsOK /\ BasesOK

\* What a change of the table must keep for places to stay good.
TableGrows ==
  /\ DOMAIN table \subseteq DOMAIN table'
  /\ \A s \in DOMAIN table : /\ Len(table'[s].contents) \in Nat
                             /\ Len(table'[s].contents) >= Len(Contents(s))

LEMMA SizeFitsIsConstant ==
  ASSUME NEW n
  PROVE  SizeFits(n)' <=> SizeFits(n)
BY SMT DEF SizeFits, IsLabel, Fits16, MaxWord, LowWord

LEMMA NodesKept ==
  ASSUME TableOK, TableGrows, NEW n \in Nodes, NodeFits(n)
  PROVE  NodeFits(n)'
<1>1. n.section \in DOMAIN table' /\ SizeFits(n)'
  <2>1. n.section \in DOMAIN table' /\ SizeFits(n)
    BY DEF NodeFits, TableGrows
  <2>2. SizeFits(n)' <=> SizeFits(n)
    BY SizeFitsIsConstant
  <2> QED BY <2>1, <2>2, Zenon
<1>2. n.offset + n.size <= Len(Contents(n.section)')
  <2>1. n.offset \in Nat /\ n.size \in Nat
    BY DEF Nodes
  <2>2. /\ Len(Contents(n.section)) \in Nat /\ Len(table'[n.section].contents) \in Nat
        /\ Len(table'[n.section].contents) >= Len(Contents(n.section))
    BY TableTypes DEF NodeFits, TableGrows
  <2>3. n.offset + n.size <= Len(Contents(n.section))
    BY DEF NodeFits
  <2>4. n.offset + n.size <= Len(table'[n.section].contents)
    BY <2>1, <2>2, <2>3
  <2> QED BY <2>4 DEF Contents
<1> QED BY <1>1, <1>2 DEF NodeFits

LEMMA RelocsKept ==
  ASSUME TableOK, TableGrows, NEW r \in Reloc, RelocFits(r),
         symbols'[r.symbol] = symbols[r.symbol]
  PROVE  RelocFits(r)'
<1>1. r.section \in DOMAIN table' /\ Defined(r.symbol)' /\ FieldFits(r)'
  BY DEF RelocFits, TableGrows, Defined, FieldFits, Undefined, LdrPosition
<1>2. r.offset + FieldBytes(r)' <= Len(Contents(r.section)')
  <2>1. r.offset \in Nat /\ FieldBytes(r) \in Nat /\ FieldBytes(r)' = FieldBytes(r)
    BY DEF Reloc, FieldBytes
  <2>2. /\ Len(Contents(r.section)) \in Nat /\ Len(table'[r.section].contents) \in Nat
        /\ Len(table'[r.section].contents) >= Len(Contents(r.section))
    BY TableTypes DEF RelocFits, TableGrows
  <2>3. r.offset + FieldBytes(r) <= Len(Contents(r.section))
    BY DEF RelocFits
  <2>4. r.offset + FieldBytes(r) <= Len(table'[r.section].contents)
    BY <2>1, <2>2, <2>3
  <2> QED BY <2>1, <2>4 DEF Contents
<1> QED BY <1>1, <1>2 DEF RelocFits

LEMMA PlacesKept ==
  ASSUME BaseInv, TableOK', TableGrows, UNCHANGED <<symbols, ast>>
  PROVE  /\ SymbolsOK' /\ AstOK'
         /\ \A r \in Reloc : RelocFits(r) => RelocFits(r)'
<1>1. SymbolsOK'
  BY DEF BaseInv, SymbolsOK, SymbolsTyped, Defined, Undefined, TableGrows
<1>2. AstOK'
  <2>1. ASSUME NEW j \in DOMAIN ast PROVE NodeFits(ast[j])'
    <3>1. ast[j] \in Nodes /\ NodeFits(ast[j])
      BY DEF BaseInv, AstOK
    <3>2. TableOK
      BY DEF BaseInv
    <3> QED BY <3>1, <3>2, NodesKept
  <2> QED BY <2>1 DEF BaseInv, AstOK
<1>3. \A r \in Reloc : RelocFits(r) => RelocFits(r)'
  BY RelocsKept DEF BaseInv
<1> QED BY <1>1, <1>2, <1>3

-----------------------------------------------------------------------------
\* Visits: what each writes fits in its statement, and what it queues is good.

Visits == \/ VisitInstruction \/ VisitLoadRelative \/ VisitBranch \/ VisitShift
          \/ VisitData \/ VisitSpace \/ VisitAlign

\* The relocation of a load, and of a label among the values of .byte or .word.
LoadReloc(n) ==
  [section |-> n.section, offset |-> n.offset,
   position |-> LdrPosition, width |-> LdrWidth, type |-> "RELATIVE_UNSIGNED",
   symbol |-> n.stmt.target.symbol, addend |-> LdrAddend(n.stmt.target)]
DataReloc(n, i) ==
  [section |-> n.section, offset |-> n.offset + (i - 1) * n.stmt.grain,
   position |-> 0, width |-> 8 * n.stmt.grain, type |-> "ABSOLUTE",
   symbol |-> n.stmt.values[i].symbol, addend |-> ValueOf(n.stmt.values[i])]

MadeFor(r, n) ==
  \/ n.stmt.op = "ldr" /\ r = LoadReloc(n)
  \/ n.stmt.op = "data" /\ \E i \in DOMAIN n.stmt.values : r = DataReloc(n, i)

\* Two fields without a byte in common.
Apart(r, q) == \/ r.section # q.section
               \/ r.offset + FieldBytes(r) <= q.offset
               \/ q.offset + FieldBytes(q) <= r.offset

\* What a visit without errors has found out about the labels of a statement.
LabelNear(e, section) == IsLabel(e) /\ Evaluates(e) /\ SectionOf(e) = section
BranchLength(n) == ValueOf(n.stmt.target) - n.offset - 2
BranchInRange(n) == /\ BranchLength(n) < 2^BranchWidth
                    /\ BranchLength(n) >= -(2^BranchWidth)
BranchWord(n) == BranchOpcode + ((BranchLength(n) \div 2) % 2^BranchWidth)

LoadMade(n, bytes, new, errors) ==
  n.stmt.op = "ldr" =>
    /\ bytes = Bytes(LdrOpcode, 2)
    /\ errors = 0 /\ Refers(n.stmt.target) =>
         /\ LabelNear(n.stmt.target, n.section)
         /\ \E k \in DOMAIN new : new[k] = LoadReloc(n)

BranchMade(n, bytes, errors) ==
  n.stmt.op = "branch" /\ errors = 0 /\ Refers(n.stmt.target) =>
    /\ LabelNear(n.stmt.target, n.section) /\ BranchInRange(n)
    /\ bytes = Bytes(BranchWord(n), 2)

DataMade(n, new, errors) ==
  n.stmt.op = "data" /\ errors = 0 =>
    \A i \in DOMAIN n.stmt.values :
      Refers(n.stmt.values[i]) => /\ Evaluates(n.stmt.values[i])
                                   /\ \E k \in DOMAIN new : new[k] = DataReloc(n, i)

VisitMakes(n, bytes, new, errors) ==
  /\ \A k \in DOMAIN new : MadeFor(new[k], n)
  /\ \A k, l \in DOMAIN new : k # l => Apart(new[k], new[l])
  /\ LoadMade(n, bytes, new, errors) /\ BranchMade(n, bytes, errors)
  /\ DataMade(n, new, errors)

VisitFits(bytes, new, errors, warnings) ==
  /\ bytes \in Seq(S!Byte) /\ Len(bytes) <= This.size
  /\ new \in Seq(Reloc) /\ \A k \in DOMAIN new : RelocFits(new[k])
  /\ errors \in Nat /\ warnings \in Nat
  /\ VisitMakes(This, bytes, new, errors)
  /\ Visited(bytes, new, errors, warnings)

AVisit == \E bytes, new, errors, warnings : VisitFits(bytes, new, errors, warnings)

LEMMA ThisFits ==
  ASSUME BaseInv, pc <= Len(ast)
  PROVE  /\ pc \in DOMAIN ast /\ This \in Nodes /\ NodeFits(This)
         /\ This.stmt \in Statement /\ StatementKinds(This.stmt)
         /\ This.section \in DOMAIN table /\ This.section \in Nat
         /\ This.offset \in Nat /\ This.size \in Nat
         /\ This.offset + This.size <= Len(Contents(This.section))
         /\ Len(Contents(This.section)) \in Nat
<1>1. pc \in DOMAIN ast
  BY DEF BaseInv, AstOK, CountsOK
<1>2. This \in Nodes /\ NodeFits(This)
  BY <1>1 DEF BaseInv, AstOK, This
<1>3. /\ This.stmt \in Statement /\ This.section \in Nat
      /\ This.offset \in Nat /\ This.size \in Nat
  BY <1>2 DEF Nodes
<1> QED BY <1>1, <1>2, <1>3, StatementFields, TableTypes DEF NodeFits, BaseInv

LEMMA CountType == \A p \in BOOLEAN : Count(p) \in Nat
BY DEF Count

LEMMA NoRelocs == <<>> \in Seq(Reloc) /\ \A k \in DOMAIN <<>> : RelocFits(<<>>[k])
<1>1. DOMAIN <<>> = {}
  OBVIOUS
<1> QED BY <1>1

\* A statement without address operand queues nothing.
LEMMA MakesNothing ==
  ASSUME NEW n, n.stmt.op \notin {"ldr", "branch", "data"}, NEW bytes, NEW errors
  PROVE  VisitMakes(n, bytes, <<>>, errors)
<1>1. DOMAIN <<>> = {}
  OBVIOUS
<1> QED BY <1>1 DEF VisitMakes, LoadMade, BranchMade, DataMade

LEMMA InstructionFits ==
  ASSUME BaseInv, VisitInstruction
  PROVE  AVisit
<1>1. pc <= Len(ast) /\ This.stmt.op = "inst"
  BY DEF VisitInstruction, Visiting
<1>2. This.size = 2
  BY <1>1, ThisFits DEF NodeFits, SizeFits
<1>3. This.stmt.code \in Int
  <2>1. This.stmt.code \in Word
    BY <1>1, ThisFits DEF StatementKinds
  <2> QED BY <2>1, WordsAreNumbers
<1>4. Misaligned \in Nat
  BY DEF Misaligned, Count
<1>5. Visited(Bytes(This.stmt.code, 2), <<>>, 0, Misaligned)
  BY DEF VisitInstruction
<1>6. Bytes(This.stmt.code, 2) \in Seq(S!Byte) /\ Len(Bytes(This.stmt.code, 2)) = 2
  BY <1>3, WordBytes, ZenonT(40)
<1> DEFINE b == Bytes(This.stmt.code, 2)
<1>7. b \in Seq(S!Byte) /\ Len(b) <= This.size /\ 0 \in Nat
  <2>1. b \in Seq(S!Byte) /\ Len(b) = 2
    BY <1>6
  <2> HIDE DEF b
  <2> QED BY <1>2, <2>1
<1>8. VisitFits(b, <<>>, 0, Misaligned)
  <2> HIDE DEF b
  <2>1. Visited(b, <<>>, 0, Misaligned)
    BY <1>5 DEF b
  <2>2. VisitMakes(This, b, <<>>, 0)
    BY <1>1, MakesNothing
  <2> QED BY <1>4, <1>7, <2>1, <2>2, NoRelocs, Zenon DEF VisitFits
<1> QED BY <1>8 DEF AVisit

LEMMA AlignFits ==
  ASSUME BaseInv, VisitAlign
  PROVE  AVisit
<1>1. pc <= Len(ast) /\ This.stmt.op = "align"
  BY DEF VisitAlign, Visiting
<1>2. S!Repeat(0, This.size) \in Seq(S!Byte) /\ Len(S!Repeat(0, This.size)) = This.size
  <2>1. 0 \in S!Byte /\ This.size \in Nat
    BY <1>1, ThisFits DEF S!Byte
  <2> QED BY <2>1, RepeatedByte
<1>3. VisitFits(S!Repeat(0, This.size), <<>>, 0, 0)
  <2>1. VisitMakes(This, S!Repeat(0, This.size), <<>>, 0)
    BY <1>1, MakesNothing
  <2> QED BY <1>1, <1>2, <2>1, ThisFits, NoRelocs DEF VisitFits, VisitAlign
<1> QED BY <1>3 DEF AVisit

\* A sum of what counts report is a number.
LEMMA Reports ==
  ASSUME NEW a \in Nat, NEW b \in Nat, NEW c \in Nat
  PROVE  a + b \in Nat /\ a + b + c \in Nat
OBVIOUS

LEMMA BranchFits ==
  ASSUME BaseInv, VisitBranch
  PROVE  AVisit
<1> DEFINE e == This.stmt.target
           near == IsLabel(e) /\ SectionOf(e) = This.section
           distance == BranchDistance(e)
           codable == distance < 2^BranchWidth /\ distance >= -(2^BranchWidth)
           offset == CASE ~Evaluates(e)  -> 0
                       [] ~IsLabel(e)    -> ValueOf(e) \div 2
                       [] near           -> distance \div 2
                       [] OTHER          -> 0
           odd == IF IsLabel(e) THEN near /\ distance % 2 # 0 ELSE ValueOf(e) % 2 # 0
           field == offset % 2^BranchWidth
           errors == EvalErrors(e) + Count(/\ Evaluates(e) /\ IsLabel(e)
                                           /\ (near => ~codable))
           warnings == Misaligned + EvalWarnings(e) + Count(Evaluates(e) /\ odd)
<1>1. pc <= Len(ast) /\ This.stmt.op = "branch"
  BY DEF VisitBranch, Visiting
<1>2. This.size = 2
  BY <1>1, ThisFits DEF NodeFits, SizeFits
<1>3. e \in Operand
  BY <1>1, ThisFits DEF StatementKinds
<1>4. Visited(Bytes(BranchOpcode + field, 2), <<>>, errors, warnings)
  BY DEF VisitBranch
<1>5. /\ EvalErrors(e) \in Nat /\ EvalWarnings(e) \in Nat /\ ValueOf(e) \in Int
  <2> HIDE DEF e
  <2>1. /\ EvalErrors(e) \in 0 .. 1 /\ EvalWarnings(e) \in 0 .. 1
        /\ ValueOf(e) \in Word
    BY <1>3, OperandValues DEF BaseInv, SymbolsOK
  <2> QED BY <2>1, WordsAreNumbers
<1>6. offset \in Int
  <2> HIDE DEF e
  <2>1. distance \in Int
    <3>1. This.offset \in Nat
      BY <1>1, ThisFits
    <3> QED BY <1>5, <3>1 DEF BranchDistance
  <2>2. distance \div 2 \in Int /\ ValueOf(e) \div 2 \in Int
    <3> HIDE DEF distance
    <3> QED BY <1>5, <2>1
  <2> HIDE DEF distance, near
  <2> QED BY <2>2
<1>7. field \in Int
  <2> HIDE DEF offset
  <2>1. 2^BranchWidth \in Nat \ {0}
    <3>1. BranchWidth \in 0 .. 30
      BY WidthAssumption
    <3> QED BY <3>1, Powers
  <2> QED BY <1>6, <2>1
<1>8. errors \in Nat /\ warnings \in Nat
  <2> HIDE DEF e, near, codable, odd
  <2>1. Misaligned \in Nat /\ Count(Evaluates(e) /\ odd) \in Nat
    BY DEF Misaligned, Count
  <2>2. Count(Evaluates(e) /\ IsLabel(e) /\ (near => ~codable)) \in Nat
    BY DEF Count
  <2> QED BY <1>5, <2>1, <2>2, Reports
<1> HIDE DEF errors, warnings, field
<1>9. BranchOpcode + field \in Int
  BY <1>7 DEF BranchOpcode
<1> DEFINE b == Bytes(BranchOpcode + field, 2)
<1>10. b \in Seq(S!Byte) /\ Len(b) <= This.size
  <2>1. b \in Seq(S!Byte) /\ Len(b) = 2
    BY <1>9, WordBytes, ZenonT(40)
  <2> HIDE DEF b
  <2> QED BY <1>2, <2>1
<1>11. VisitMakes(This, b, <<>>, errors)
  <2>1. ASSUME errors = 0, Refers(e)
        PROVE  Evaluates(e) /\ near /\ codable
    <3>1. EvalErrors(e) = 0 /\ Count(/\ Evaluates(e) /\ IsLabel(e)
                                     /\ (near => ~codable)) = 0
      <4> DEFINE c == Count(Evaluates(e) /\ IsLabel(e) /\ (near => ~codable))
      <4>1. errors = EvalErrors(e) + c
        BY DEF errors
      <4>2. c \in Nat
        BY DEF Count
      <4> HIDE DEF c, errors, e, near, codable
      <4>3. EvalErrors(e) = 0 /\ c = 0
        BY <1>5, <2>1, <4>1, <4>2
      <4> QED BY <4>3 DEF c
    <3> HIDE DEF e, near, codable
    <3>2. IsLabel(e) /\ Evaluates(e)
      BY <2>1, <3>1, ReferencesEvaluate
    <3> QED BY <2>1, <3>1, <3>2 DEF Count
  <2>2. ASSUME errors = 0, Refers(e)
        PROVE  /\ LabelNear(e, This.section) /\ BranchInRange(This)
               /\ field = (BranchLength(This) \div 2) % 2^BranchWidth
    <3>1. BranchLength(This) = distance
      BY DEF BranchLength, BranchDistance
    <3>2. BranchInRange(This)
      BY <2>1, <2>2, <3>1 DEF BranchInRange
    <3>3. LabelNear(e, This.section)
      BY <2>1, <2>2 DEF LabelNear
    <3>4. offset = distance \div 2
      <4> HIDE DEF e, near, distance
      <4> QED BY <2>1, <2>2
    <3> HIDE DEF offset, distance
    <3> QED BY <3>1, <3>2, <3>3, <3>4 DEF field
  <2>3. BranchMade(This, b, errors)
    <3> SUFFICES ASSUME errors = 0, Refers(e)
                 PROVE  /\ LabelNear(e, This.section) /\ BranchInRange(This)
                        /\ b = Bytes(BranchWord(This), 2)
      BY DEF BranchMade
    <3> QED BY <2>2 DEF BranchWord
  <2> HIDE DEF b
  <2>4. DOMAIN <<>> = {}
    OBVIOUS
  <2> QED BY <1>1, <2>3, <2>4 DEF VisitMakes, LoadMade, DataMade
<1>12. VisitFits(b, <<>>, errors, warnings)
  <2> HIDE DEF b
  <2>1. Visited(b, <<>>, errors, warnings)
    BY <1>4 DEF b
  <2> QED BY <1>8, <1>10, <1>11, <2>1, NoRelocs, Zenon DEF VisitFits
<1> QED BY <1>12 DEF AVisit

\* What evaluating one operand of a visit gives.
LEMMA OperandNumbers ==
  ASSUME BaseInv, NEW e \in Operand
  PROVE  /\ IsLabel(e) => e.symbol \in Labels
         /\ ValueOf(e) \in Nat /\ EvalErrors(e) \in Nat /\ EvalWarnings(e) \in Nat
         /\ Evaluates(e) /\ IsLabel(e) => Defined(e.symbol)
<1>1. /\ IsLabel(e) => e.symbol \in Labels
      /\ ValueOf(e) \in Word
      /\ EvalErrors(e) \in 0 .. 1 /\ EvalWarnings(e) \in 0 .. 1
  BY OperandValues DEF BaseInv, SymbolsOK
<1>2. Evaluates(e) /\ IsLabel(e) => Defined(e.symbol)
  BY Zenon DEF Evaluates
<1> QED BY <1>1, <1>2, WordsAreNumbers

LEMMA LoadFits ==
  ASSUME BaseInv, VisitLoadRelative
  PROVE  AVisit
<1> DEFINE e == This.stmt.target
           near == IsLabel(e) /\ SectionOf(e) = This.section
           reloc == [section |-> This.section, offset |-> This.offset,
                     position |-> LdrPosition, width |-> LdrWidth,
                     type |-> "RELATIVE_UNSIGNED", symbol |-> e.symbol,
                     addend |-> LdrAddend(e)]
           new == IF Evaluates(e) /\ near THEN <<reloc>> ELSE <<>>
           errors == EvalErrors(e) + Count(Evaluates(e) /\ ~near)
           warnings == Misaligned + EvalWarnings(e)
           b == Bytes(LdrOpcode, 2)
<1>1. pc <= Len(ast) /\ This.stmt.op = "ldr"
  BY DEF VisitLoadRelative, Visiting
<1>2. This.size = 2
  BY <1>1, ThisFits DEF NodeFits, SizeFits
<1>3. e \in Operand
  BY <1>1, ThisFits DEF StatementKinds
<1>4. Visited(b, new, errors, warnings)
  BY DEF VisitLoadRelative
<1>5. b \in Seq(S!Byte) /\ Len(b) <= This.size
  <2>1. LdrOpcode \in Int
    BY DEF LdrOpcode
  <2>2. b \in Seq(S!Byte) /\ Len(b) = 2
    BY <2>1, WordBytes, ZenonT(40)
  <2> HIDE DEF b
  <2> QED BY <1>2, <2>2
<1>6. new \in Seq(Reloc) /\ \A k \in DOMAIN new : RelocFits(new[k])
  <2>1. CASE Evaluates(e) /\ near
    <3>1. /\ e.symbol \in Labels /\ Defined(e.symbol) /\ LdrAddend(e) \in Int
      <4> HIDE DEF e
      <4>1. ValueOf(e) \in Nat
        BY <1>3, OperandNumbers
      <4> QED BY <1>3, <2>1, <4>1, OperandNumbers DEF LdrAddend
    <3>2. LdrWidth \in Nat /\ LdrWidth # 8 /\ LdrPosition \in Nat
      BY WidthAssumption DEF LdrPosition
    <3>3. /\ This.section \in Nat /\ This.section \in DOMAIN table /\ This.offset \in Nat
          /\ This.offset + 2 <= Len(Contents(This.section))
      BY <1>1, <1>2, ThisFits
    <3>4. reloc \in Reloc
      BY <3>1, <3>2, <3>3 DEF Reloc
    <3>5. RelocFits(reloc)
      BY <3>1, <3>2, <3>3 DEF RelocFits, FieldBytes, FieldFits
    <3> HIDE DEF reloc, near, e
    <3>6. new = <<reloc>>
      BY <2>1
    <3> QED BY <3>4, <3>5, <3>6
  <2>2. CASE ~(Evaluates(e) /\ near)
    <3> HIDE DEF near, e
    <3> QED BY <2>2, NoRelocs
  <2> QED BY <2>1, <2>2
<1>7. errors \in Nat /\ warnings \in Nat
  <2> HIDE DEF e, near
  <2>1. Misaligned \in Nat /\ Count(Evaluates(e) /\ ~near) \in Nat
    BY DEF Misaligned, Count
  <2>2. EvalErrors(e) \in Nat /\ EvalWarnings(e) \in Nat
    BY <1>3, OperandNumbers
  <2> QED BY <2>1, <2>2
<1>8. VisitMakes(This, b, new, errors)
  <2>1. reloc = LoadReloc(This)
    BY DEF LoadReloc
  <2> DEFINE c == Count(Evaluates(e) /\ ~near)
  <2>2. errors = EvalErrors(e) + c
    OBVIOUS
  <2>3. c \in Nat /\ EvalErrors(e) \in Nat
    <3> HIDE DEF e, near
    <3> QED BY <1>3, OperandNumbers DEF Count
  <2>4. ASSUME errors = 0, Refers(e) PROVE Evaluates(e) /\ near
    <3>1. EvalErrors(e) = 0 /\ c = 0
      <4> HIDE DEF e, c, errors
      <4> QED BY <2>2, <2>3, <2>4
    <3> HIDE DEF e, near
    <3>2. Evaluates(e)
      BY <2>4, <3>1, ReferencesEvaluate
    <3> QED BY <3>1, <3>2 DEF Count
  <2>5. ASSUME errors = 0, Refers(e) PROVE LabelNear(e, This.section)
    BY <2>4, <2>5 DEF LabelNear
  <2>6. CASE Evaluates(e) /\ near
    <3> HIDE DEF e, near, reloc, errors
    <3>1. new = <<reloc>>
      BY <2>6
    <3> HIDE DEF new
    <3>2. DOMAIN new = {1} /\ new[1] = LoadReloc(This)
      BY <2>1, <3>1
    <3>3. LoadMade(This, b, new, errors)
      BY <2>5, <3>2 DEF LoadMade, e
    <3> QED BY <1>1, <3>2, <3>3 DEF VisitMakes, MadeFor, BranchMade, DataMade
  <2>7. CASE ~(Evaluates(e) /\ near)
    <3>1. ~(errors = 0 /\ Refers(e))
      BY <2>4, <2>7
    <3> HIDE DEF e, near, reloc, errors
    <3>2. new = <<>> /\ DOMAIN <<>> = {}
      BY <2>7
    <3> HIDE DEF new
    <3>3. LoadMade(This, b, new, errors)
      BY <3>1 DEF LoadMade, e
    <3> QED BY <1>1, <3>2, <3>3 DEF VisitMakes, BranchMade, DataMade
  <2> QED BY <2>6, <2>7
<1>9. VisitFits(b, new, errors, warnings)
  <2> HIDE DEF b, new, errors, warnings
  <2> QED BY <1>4, <1>5, <1>6, <1>7, <1>8, Zenon DEF VisitFits
<1> QED BY <1>9 DEF AVisit

LEMMA ShiftFits ==
  ASSUME BaseInv, VisitShift
  PROVE  AVisit
<1> DEFINE e == This.stmt.amount
           ok == Evaluates(e) /\ ~IsLabel(e)
           w == ShiftOpcode + (ValueOf(e) % 16) * 2^ShiftPosition
           b == IF ok THEN Bytes(w, 2) ELSE <<>>
           errors == EvalErrors(e) + Count(Evaluates(e) /\ IsLabel(e))
           warnings == Misaligned + EvalWarnings(e) + Count(ok /\ ValueOf(e) > 15)
<1>1. pc <= Len(ast) /\ This.stmt.op = "shift"
  BY DEF VisitShift, Visiting
<1>2. This.size = 2
  BY <1>1, ThisFits DEF NodeFits, SizeFits
<1>3. e \in Operand
  BY <1>1, ThisFits DEF StatementKinds
<1>4. Visited(b, <<>>, errors, warnings)
  BY DEF VisitShift
<1> HIDE DEF e
<1>5. EvalErrors(e) \in Nat /\ EvalWarnings(e) \in Nat /\ ValueOf(e) \in Nat
  BY <1>3, OperandNumbers
<1>6. w \in Int
  <2>1. 2^ShiftPosition = 128
    BY DEF ShiftPosition
  <2>2. ValueOf(e) % 16 \in Int
    BY <1>5
  <2> HIDE DEF ShiftPosition
  <2> QED BY <2>1, <2>2 DEF ShiftOpcode
<1> HIDE DEF w
<1>7. b \in Seq(S!Byte) /\ Len(b) <= This.size
  <2>1. Bytes(w, 2) \in Seq(S!Byte) /\ Len(Bytes(w, 2)) = 2
    BY <1>6, WordBytes
  <2> HIDE DEF ok
  <2>2. CASE ok
    <3>1. b = Bytes(w, 2)
      BY <2>2
    <3>2. b \in Seq(S!Byte) /\ Len(b) = 2
      BY <2>1, <3>1, Zenon
    <3> HIDE DEF b
    <3> QED BY <1>2, <3>2
  <2>3. CASE ~ok
    <3>1. b = <<>>
      BY <2>3
    <3> HIDE DEF b
    <3> QED BY <1>2, <3>1
  <2> QED BY <2>2, <2>3
<1>8. errors \in Nat /\ warnings \in Nat
  <2> HIDE DEF ok
  <2>1. /\ Misaligned \in Nat /\ Count(Evaluates(e) /\ IsLabel(e)) \in Nat
        /\ Count(ok /\ ValueOf(e) > 15) \in Nat
    BY DEF Misaligned, Count
  <2> QED BY <1>5, <2>1, Reports
<1>9. VisitFits(b, <<>>, errors, warnings)
  <2> HIDE DEF b, errors, warnings
  <2>1. VisitMakes(This, b, <<>>, errors)
    BY <1>1, MakesNothing
  <2> QED BY <1>4, <1>7, <1>8, <2>1, NoRelocs, Zenon DEF VisitFits
<1> QED BY <1>9 DEF AVisit

LEMMA SpaceFits ==
  ASSUME BaseInv, VisitSpace
  PROVE  AVisit
<1> DEFINE size == This.stmt.size
           fill == This.stmt.fill
           sized == Evaluates(size) /\ ~IsLabel(size)
           filled == sized /\ Evaluates(fill) /\ ~IsLabel(fill)
           b == IF filled THEN S!Repeat(ValueOf(fill) % 256, ValueOf(size)) ELSE <<>>
           errors == EvalErrors(size) + Count(Evaluates(size) /\ IsLabel(size))
                       + IF sized THEN EvalErrors(fill)
                                       + Count(Evaluates(fill) /\ IsLabel(fill))
                         ELSE 0
           warnings == EvalWarnings(size) + IF sized
                                            THEN EvalWarnings(fill)
                                                 + Count(filled /\ ValueOf(fill) > 255)
                                            ELSE 0
<1>1. pc <= Len(ast) /\ This.stmt.op = "space"
  BY DEF VisitSpace, Visiting
<1>2. size \in Operand /\ fill \in Operand
  BY <1>1, ThisFits DEF StatementKinds
<1>3. Visited(b, <<>>, errors, warnings)
  BY DEF VisitSpace
<1>4. ASSUME sized PROVE ValueOf(size) = This.size
  <2>1. IntOf(size) = size.addend /\ Fits16(size.addend)
    <3>1. IntOf(size) = size.addend
      BY <1>4, SMT DEF IntOf
    <3>2. Fits16(IntOf(size))
      BY <1>4, Zenon DEF Evaluates
    <3> HIDE DEF size
    <3> QED BY <3>1, <3>2, Zenon
  <2>2. This.size = LowWord(size.addend)
    BY <1>1, <1>4, <2>1, ThisFits, Zenon DEF NodeFits, SizeFits
  <2> HIDE DEF size
  <2> QED BY <2>1, <2>2, SMT DEF ValueOf, LowWord
<1> HIDE DEF size, fill
<1>5. /\ EvalErrors(size) \in Nat /\ EvalWarnings(size) \in Nat /\ ValueOf(size) \in Nat
      /\ EvalErrors(fill) \in Nat /\ EvalWarnings(fill) \in Nat /\ ValueOf(fill) \in Nat
  BY <1>2, OperandNumbers
<1>6. b \in Seq(S!Byte) /\ Len(b) <= This.size
  <2>0. This.size \in Nat
    BY <1>1, ThisFits
  <2>1. CASE filled
    <3> DEFINE v == ValueOf(fill) % 256
    <3>1. v \in S!Byte
      BY <1>5 DEF S!Byte
    <3>2. b = S!Repeat(v, This.size)
      BY <1>4, <2>1
    <3> HIDE DEF b, v, filled
    <3> QED BY <2>0, <3>1, <3>2, RepeatedByte
  <2>2. CASE ~filled
    <3>1. b = <<>>
      BY <2>2
    <3> HIDE DEF b
    <3> QED BY <2>0, <3>1
  <2> QED BY <2>1, <2>2
<1>7. errors \in Nat /\ warnings \in Nat
  <2> HIDE DEF filled, sized
  <2>1. /\ Count(Evaluates(size) /\ IsLabel(size)) \in Nat
        /\ Count(Evaluates(fill) /\ IsLabel(fill)) \in Nat
        /\ Count(filled /\ ValueOf(fill) > 255) \in Nat
    BY DEF Count
  <2> QED BY <1>5, <2>1
<1>8. VisitFits(b, <<>>, errors, warnings)
  <2> HIDE DEF b, errors, warnings
  <2>1. VisitMakes(This, b, <<>>, errors)
    BY <1>1, MakesNothing
  <2> QED BY <1>3, <1>6, <1>7, <2>1, NoRelocs, Zenon DEF VisitFits
<1> QED BY <1>8 DEF AVisit

\* What a visit of .byte or .word writes and queues.
DataLength == Len(This.stmt.values)
DataValue(i) == IF Evaluates(This.stmt.values[i]) THEN ValueOf(This.stmt.values[i]) ELSE 0
DataBytes ==
  [k \in 1 .. This.stmt.grain * DataLength |->
     Bytes(DataValue(((k - 1) \div This.stmt.grain) + 1), This.stmt.grain)
       [((k - 1) % This.stmt.grain) + 1]]
Queues(i) == IsLabel(This.stmt.values[i]) /\ Evaluates(This.stmt.values[i])
DataPart(i) == IF Queues(i) THEN <<DataReloc(This, i)>> ELSE <<>>
DataParts == [i \in 1 .. DataLength |-> DataPart(i)]

LEMMA DataFields ==
  ASSUME BaseInv, VisitData
  PROVE  /\ pc <= Len(ast) /\ This.stmt.op = "data"
         /\ This.stmt.grain \in {1, 2} /\ DataLength \in Nat
         /\ This.size = This.stmt.grain * DataLength
         /\ DOMAIN This.stmt.values = 1 .. DataLength
         /\ \A i \in 1 .. DataLength : This.stmt.values[i] \in Operand
<1>1. pc <= Len(ast) /\ This.stmt.op = "data"
  BY DEF VisitData, Visiting
<1>2. This.stmt.grain \in {1, 2} /\ This.stmt.values \in Seq(Operand)
  BY <1>1, ThisFits DEF StatementKinds
<1>3. This.size = This.stmt.grain * DataLength
  BY <1>1, ThisFits DEF NodeFits, SizeFits, DataLength
<1> DEFINE v == This.stmt.values
<1>4. Len(v) \in Nat /\ DOMAIN v = 1 .. Len(v) /\ \A i \in 1 .. Len(v) : v[i] \in Operand
  <2>1. v \in Seq(Operand)
    BY <1>2
  <2> HIDE DEF v
  <2> QED BY <2>1
<1> QED BY <1>1, <1>2, <1>3, <1>4 DEF DataLength

\* Byte k of the data is byte rest(k) of value index(k).
LEMMA DataIndex ==
  ASSUME NEW g \in {1, 2}, NEW n \in Nat, NEW k \in 1 .. g * n
  PROVE  /\ ((k - 1) \div g) + 1 \in 1 .. n /\ ((k - 1) % g) + 1 \in 1 .. g
<1>1. CASE g = 1
  <2>1. k \in 1 .. n
    BY <1>1
  <2>2. (k - 1) \div 1 = k - 1 /\ (k - 1) % 1 = 0
    BY <2>1
  <2> QED BY <1>1, <2>1, <2>2
<1>2. CASE g = 2
  <2>1. k \in 1 .. 2 * n
    BY <1>2
  <2>2. ((k - 1) \div 2) + 1 \in 1 .. n /\ ((k - 1) % 2) + 1 \in 1 .. 2
    BY <2>1
  <2> QED BY <1>2, <2>2
<1> QED BY <1>1, <1>2

LEMMA DataValues ==
  ASSUME BaseInv, VisitData, NEW i \in 1 .. DataLength
  PROVE  DataValue(i) \in Nat
<1> DEFINE e == This.stmt.values[i]
<1>1. e \in Operand
  BY DataFields
<1>2. DataValue(i) = IF Evaluates(e) THEN ValueOf(e) ELSE 0
  BY DEF DataValue
<1> HIDE DEF e
<1>3. ValueOf(e) \in Nat
  BY <1>1, OperandNumbers
<1> QED BY <1>2, <1>3

LEMMA DataBytesFit ==
  ASSUME BaseInv, VisitData
  PROVE  DataBytes \in Seq(S!Byte) /\ Len(DataBytes) = This.size
<1> DEFINE g == This.stmt.grain
           n == DataLength
           byte(k) == Bytes(DataValue(((k - 1) \div g) + 1), g)[((k - 1) % g) + 1]
<1>1. g \in {1, 2} /\ n \in Nat /\ This.size = g * n
  BY DataFields
<1>2. ASSUME NEW k \in 1 .. g * n
      PROVE  byte(k) \in S!Byte
  <2> DEFINE i == ((k - 1) \div g) + 1
             r == ((k - 1) % g) + 1
             w == DataValue(i)
  <2> HIDE DEF g, n
  <2>1. i \in 1 .. n /\ r \in 1 .. g
    BY <1>1, DataIndex
  <2> HIDE DEF i, r
  <2>2. w \in Int
    <3>1. i \in 1 .. DataLength
      BY <2>1 DEF n
    <3>2. w \in Nat
      BY <3>1, DataValues
    <3> HIDE DEF w
    <3> QED BY <3>2
  <2> HIDE DEF w
  <2>3. Bytes(w, 1)[1] \in S!Byte /\ Bytes(w, 2)[1] \in S!Byte /\ Bytes(w, 2)[2] \in S!Byte
    <3> DEFINE c == Bytes(w, 1)
               d == Bytes(w, 2)
    <3>1. c \in Seq(S!Byte) /\ Len(c) = 1 /\ d \in Seq(S!Byte) /\ Len(d) = 2
      BY <2>2, WordBytes, ZenonT(40)
    <3> HIDE DEF c, d
    <3>2. c[1] \in S!Byte /\ d[1] \in S!Byte /\ d[2] \in S!Byte
      BY <3>1
    <3> QED BY <3>2 DEF c, d
  <2>4. Bytes(w, g)[r] \in S!Byte
    <3>1. \/ g = 1 /\ r = 1
          \/ g = 2 /\ r = 1
          \/ g = 2 /\ r = 2
      BY <1>1, <2>1
    <3> QED BY <2>3, <3>1, Zenon
  <2> QED BY <2>4 DEF i, r, w
<1>3. DataBytes = [k \in 1 .. g * n |-> byte(k)]
  BY DEF DataBytes
<1> HIDE DEF byte, n
<1>4. DataBytes \in [1 .. g * n -> S!Byte] /\ g * n \in Nat
  <2> HIDE DEF g
  <2> QED BY <1>1, <1>2, <1>3
<1> QED BY <1>1, <1>4, ByteSequence

LEMMA DataRelocs ==
  ASSUME BaseInv, VisitData, NEW i \in 1 .. DataLength, Queues(i)
  PROVE  DataReloc(This, i) \in Reloc /\ RelocFits(DataReloc(This, i))
<1> DEFINE g == This.stmt.grain
           n == DataLength
           e == This.stmt.values[i]
<1>1. g \in {1, 2} /\ n \in Nat /\ This.size = g * n /\ e \in Operand /\ pc <= Len(ast)
  BY DataFields
<1>2. IsLabel(e) /\ Evaluates(e)
  BY DEF Queues
<1> HIDE DEF e
<1>3. e.symbol \in Labels /\ Defined(e.symbol) /\ ValueOf(e) \in Int
  <2>1. ValueOf(e) \in Nat
    BY <1>1, OperandNumbers
  <2> QED BY <1>1, <1>2, <2>1, OperandNumbers
<1> HIDE DEF g, n
<1>4. /\ (i - 1) * g \in Nat /\ (i - 1) * g + g <= g * n
      /\ 8 * g \in {8, 16} /\ (8 * g = 8 => g = 1) /\ (8 * g = 16 => g = 2)
  <2>0. i \in 1 .. n
    BY DEF n
  <2>1. CASE g = 1
    BY <1>1, <2>0, <2>1
  <2>2. CASE g = 2
    BY <1>1, <2>0, <2>2
  <2> QED BY <1>1, <2>1, <2>2
<1>5. /\ This.section \in Nat /\ This.section \in DOMAIN table /\ This.offset \in Nat
      /\ This.offset + g * n <= Len(Contents(This.section))
      /\ Len(Contents(This.section)) \in Nat
  BY <1>1, ThisFits
<1> DEFINE r == DataReloc(This, i)
<1>6. r = [section |-> This.section, offset |-> This.offset + (i - 1) * g,
           position |-> 0, width |-> 8 * g, type |-> "ABSOLUTE",
           symbol |-> e.symbol, addend |-> ValueOf(e)]
  BY DEF DataReloc, g, e
<1>7. r \in Reloc
  <2>1. This.offset + (i - 1) * g \in Nat /\ 8 * g \in Nat
    BY <1>4, <1>5
  <2> HIDE DEF r
  <2> QED BY <1>3, <1>5, <1>6, <2>1 DEF Reloc
<1>8. RelocFits(r)
  <2> HIDE DEF r
  <2>1. /\ r.section = This.section /\ r.offset = This.offset + (i - 1) * g
        /\ r.position = 0 /\ r.width = 8 * g /\ r.type = "ABSOLUTE" /\ r.symbol = e.symbol
    BY <1>6
  <2>2. FieldFits(r) /\ FieldBytes(r) = g
    BY <1>1, <1>4, <2>1 DEF FieldFits, FieldBytes
  <2>3. r.offset + g <= Len(Contents(This.section))
    <3>1. This.offset + (i - 1) * g + g <= This.offset + g * n
      <4> DEFINE a == (i - 1) * g
                 c == g * n
      <4>1. a \in Nat /\ g \in Nat /\ c \in Nat /\ a + g <= c
        BY <1>1, <1>4
      <4> HIDE DEF a, c
      <4>2. This.offset + a + g <= This.offset + c
        BY <1>5, <4>1
      <4> QED BY <4>2 DEF a, c
    <3> DEFINE a == This.offset + (i - 1) * g
               c == This.offset + g * n
    <3>2. a \in Nat /\ c \in Nat /\ g \in Nat
      BY <1>1, <1>4, <1>5
    <3>3. a + g <= c /\ c <= Len(Contents(This.section)) /\ r.offset = a
      BY <1>5, <2>1, <3>1
    <3> HIDE DEF a, c
    <3> QED BY <1>5, <3>2, <3>3
  <2> QED BY <1>3, <1>5, <2>1, <2>2, <2>3 DEF RelocFits
<1> QED BY <1>7, <1>8

LEMMA DataFieldsApart ==
  ASSUME BaseInv, VisitData, NEW i \in 1 .. DataLength, NEW j \in 1 .. DataLength, i # j
  PROVE  Apart(DataReloc(This, i), DataReloc(This, j))
<1> DEFINE g == This.stmt.grain
           o == This.offset
           r == DataReloc(This, i)
           q == DataReloc(This, j)
<1>1. g \in {1, 2} /\ DataLength \in Nat /\ o \in Nat
  BY DataFields, ThisFits
<1>2. r.offset = o + (i - 1) * g /\ q.offset = o + (j - 1) * g
  BY DEF DataReloc
<1>3. r.width = 8 * g /\ q.width = 8 * g
  BY DEF DataReloc
<1> HIDE DEF r, q, g, o
<1>4. FieldBytes(r) = g /\ FieldBytes(q) = g
  BY <1>1, <1>3 DEF FieldBytes
<1>5. r.offset + g <= q.offset \/ q.offset + g <= r.offset
  <2>1. i \in Int /\ j \in Int
    BY <1>1
  <2>2. CASE g = 1
    BY <1>1, <1>2, <2>1, <2>2
  <2>3. CASE g = 2
    BY <1>1, <1>2, <2>1, <2>3
  <2> QED BY <1>1, <2>2, <2>3
<1> QED BY <1>4, <1>5 DEF Apart, r, q

LEMMA DataMakes ==
  ASSUME BaseInv, VisitData, NEW new, NEW o, Collects(new, o, DataParts, DataLength),
         NEW b, NEW errors,
         errors = 0 => \A i \in 1 .. DataLength : EvalErrors(This.stmt.values[i]) # 1
  PROVE  VisitMakes(This, b, new, errors)
<1>1. This.stmt.op = "data" /\ DOMAIN This.stmt.values = 1 .. DataLength
  BY DataFields
<1>2. ASSUME NEW k \in DOMAIN new
      PROVE  o[k] \in 1 .. DataLength /\ new[k] = DataReloc(This, o[k])
  <2>1. o[k] \in 1 .. DataLength /\ DataParts[o[k]] = <<new[k]>>
    BY DEF Collects
  <2>2. DataPart(o[k]) = <<new[k]>>
    BY <2>1 DEF DataParts
  <2> DEFINE d == DataReloc(This, o[k])
  <2>3. <<new[k]>> = <<d>>
    <3>1. <<new[k]>> # <<>>
      OBVIOUS
    <3> QED BY <2>2, <3>1, Zenon DEF DataPart
  <2> HIDE DEF d
  <2>4. new[k] = d
    BY <2>3
  <2> QED BY <2>1, <2>4 DEF d
<1>3. ASSUME NEW k \in DOMAIN new, NEW l \in DOMAIN new, k # l
      PROVE  Apart(new[k], new[l])
  <2>1. o[k] # o[l]
    BY <1>3 DEF Collects
  <2> QED BY <1>2, <2>1, DataFieldsApart
<1>4. ASSUME errors = 0, NEW i \in 1 .. DataLength, Refers(This.stmt.values[i])
      PROVE  /\ Evaluates(This.stmt.values[i])
             /\ \E k \in DOMAIN new : new[k] = DataReloc(This, i)
  <2>1. Evaluates(This.stmt.values[i])
    <3>1. EvalErrors(This.stmt.values[i]) # 1
      BY <1>4
    <3> QED BY <1>4, <3>1, ReferencesEvaluate
  <2>2. DataParts[i] = <<DataReloc(This, i)>>
    BY <1>4, <2>1, Zenon DEF DataParts, DataPart, Queues, Refers
  <2>3. PICK k \in DOMAIN new : o[k] = i
    <3> DEFINE d == DataReloc(This, i)
    <3>1. DataParts[i] = <<d>>
      BY <2>2
    <3> HIDE DEF d
    <3>2. DataParts[i] # <<>>
      BY <3>1
    <3> QED BY <3>2 DEF Collects
  <2> QED BY <1>2, <2>1, <2>3
<1>5. DataMade(This, new, errors)
  BY <1>1, <1>4, Zenon DEF DataMade
<1>6. \A k \in DOMAIN new : MadeFor(new[k], This)
  BY <1>1, <1>2, Zenon DEF MadeFor
<1> QED BY <1>1, <1>3, <1>5, <1>6 DEF VisitMakes, LoadMade, BranchMade

LEMMA DataQueue ==
  ASSUME BaseInv, VisitData
  PROVE  \E new, errors, warnings : VisitFits(DataBytes, new, errors, warnings)
<1> DEFINE grain == This.stmt.grain
           values == This.stmt.values
           n == DataLength
           relocOf(i) == [section |-> This.section,
                          offset |-> This.offset + (i - 1) * grain,
                          position |-> 0, width |-> 8 * grain, type |-> "ABSOLUTE",
                          symbol |-> values[i].symbol, addend |-> ValueOf(values[i])]
           step(f, i) == IF i = 0 THEN <<>>
                         ELSE f[i - 1] \o IF IsLabel(values[i]) /\ Evaluates(values[i])
                                          THEN <<relocOf(i)>> ELSE <<>>
           queued == CHOOSE f : f = [i \in 0 .. Len(values) |-> step(f, i)]
           new == queued[Len(values)]
           errs(e) == \/ EvalErrors(e) = 1
                      \/ /\ Evaluates(e) /\ ValueOf(e) # 0
                         /\ table[This.section].flags = "BSS"
           warns(e) == \/ EvalWarnings(e) = 1
                       \/ ~IsLabel(e) /\ Evaluates(e) /\ ValueOf(e) >= 2^(8 * grain)
           errors == Cardinality({i \in DOMAIN values : errs(values[i])})
           warnings == Cardinality({i \in DOMAIN values : warns(values[i])})
                         + Count(This.offset % grain # 0) + Count(values = <<>>)
           X == {r \in Reloc : RelocFits(r)}
<1>1. n \in Nat /\ n = Len(values) /\ DOMAIN values = 1 .. n
  BY DataFields DEF DataLength
<1>2. Visited(DataBytes, new, errors, warnings)
  <2>1. DataBytes = [k \in 1 .. grain * Len(values) |->
                       Bytes(IF Evaluates(values[((k - 1) \div grain) + 1])
                             THEN ValueOf(values[((k - 1) \div grain) + 1]) ELSE 0, grain)
                         [((k - 1) % grain) + 1]]
    BY Zenon DEF DataBytes, DataLength, DataValue
  <2> QED BY <2>1, Zenon DEF VisitData
<1> HIDE DEF errors, warnings
<1>3. /\ errors \in Nat /\ warnings \in Nat
      /\ errors = 0 => \A i \in 1 .. n : EvalErrors(values[i]) # 1
  <2>1. IsFiniteSet(1 .. n)
    <3>1. n \in Int /\ 1 \in Int
      BY <1>1
    <3> HIDE DEF n
    <3> QED BY <3>1, FS_Interval
  <2> HIDE DEF errs, warns
  <2> DEFINE E == {i \in DOMAIN values : errs(values[i])}
             W == {i \in DOMAIN values : warns(values[i])}
  <2>2. E \in SUBSET (1 .. n) /\ W \in SUBSET (1 .. n)
    BY <1>1
  <2>6. ASSUME E = {}, NEW i \in 1 .. n PROVE EvalErrors(values[i]) # 1
    <3>1. i \notin E /\ i \in DOMAIN values
      BY <1>1, <2>6
    <3>2. ~errs(values[i])
      BY <3>1, Zenon
    <3> QED BY <3>2 DEF errs
  <2> HIDE DEF E, W
  <2>3. /\ Cardinality(E) \in Nat /\ Cardinality(W) \in Nat
        /\ Cardinality(E) = 0 => E = {}
    <3>1. IsFiniteSet(E) /\ IsFiniteSet(W)
      BY <2>1, <2>2, FS_Subset
    <3> QED BY <3>1, FS_CardinalityType, FS_EmptySet
  <2>4. Count(This.offset % grain # 0) \in Nat /\ Count(values = <<>>) \in Nat
    BY DEF Count
  <2>5. /\ errors = Cardinality(E)
        /\ warnings = Cardinality(W) + Count(This.offset % grain # 0) + Count(values = <<>>)
    BY DEF E, W, errors, warnings
  <2>7. errors \in Nat /\ warnings \in Nat
    BY <2>3, <2>4, <2>5, Reports
  <2> QED BY <2>3, <2>5, <2>6, <2>7
<1>4. \A k \in 1 .. n : DataParts[k] = <<>> \/ \E y \in X : DataParts[k] = <<y>>
  <2> SUFFICES ASSUME NEW k \in 1 .. n, Queues(k)
               PROVE  \E y \in X : DataParts[k] = <<y>>
    BY DEF DataParts, DataPart
  <2>1. DataReloc(This, k) \in X
    BY DataRelocs
  <2>2. DataParts[k] = <<DataReloc(This, k)>>
    BY DEF DataParts, DataPart
  <2> QED BY <2>1, <2>2
<1>5. \A k \in 1 .. n : DataParts[k] \in Seq(X)
  <2> HIDE DEF X
  <2>1. <<>> \in Seq(X) /\ \A y \in X : <<y>> \in Seq(X)
    OBVIOUS
  <2> QED BY <1>4, <2>1
<1>6. \A f : IsQueue(f, DataParts, n) <=> f = [i \in 0 .. Len(values) |-> step(f, i)]
  <2> SUFFICES ASSUME NEW f
               PROVE  [k \in 0 .. n |-> IF k = 0 THEN <<>> ELSE f[k - 1] \o DataParts[k]]
                        = [i \in 0 .. n |-> step(f, i)]
    BY <1>1, Zenon DEF IsQueue
  <2>1. ASSUME NEW k \in 0 .. n
        PROVE  (IF k = 0 THEN <<>> ELSE f[k - 1] \o DataParts[k]) = step(f, k)
    <3>1. CASE k = 0
      BY <3>1
    <3>2. CASE k # 0
      <4>1. k \in 1 .. n
        BY <1>1, <3>2
      <4>2. DataParts[k] = DataPart(k)
        BY <4>1 DEF DataParts
      <4>3. DataPart(k) = IF IsLabel(values[k]) /\ Evaluates(values[k])
                          THEN <<relocOf(k)>> ELSE <<>>
        BY Zenon DEF DataPart, Queues, DataReloc
      <4> HIDE DEF relocOf
      <4> QED BY <3>2, <4>2, <4>3, Zenon
    <3> QED BY <3>1, <3>2
  <2> HIDE DEF step
  <2> QED BY <2>1, Zenon
<1>7. PICK g : IsQueue(g, DataParts, n) /\ g \in [0 .. n -> Seq(X)]
  <2> HIDE DEF X, n
  <2> QED BY <1>1, <1>5, QueueExists
<1>8. IsQueue(queued, DataParts, n)
  <2> HIDE DEF step
  <2>1. queued = [i \in 0 .. Len(values) |-> step(queued, i)]
    BY <1>6, <1>7, Zenon
  <2> QED BY <1>6, <2>1
<1> HIDE DEF queued, X
<1>9. queued \in [0 .. n -> Seq(X)]
  <2> HIDE DEF n
  <2> QED BY <1>1, <1>5, <1>8, QueueType
<1>10. queued[n] \in Seq(X) /\ \E o : Collects(queued[n], o, DataParts, n)
  <2> HIDE DEF n
  <2> QED BY <1>1, <1>4, <1>8, <1>9, QueueCollects
<1>11. new \in Seq(X) /\ \E o : Collects(new, o, DataParts, n)
  BY <1>1, <1>10
<1> HIDE DEF new
<1>12. new \in Seq(Reloc) /\ \A k \in DOMAIN new : RelocFits(new[k])
  <2>1. \A k \in DOMAIN new : new[k] \in X
    BY <1>11
  <2>2. \A r \in X : r \in Reloc /\ RelocFits(r)
    BY DEF X
  <2>3. new \in [1 .. Len(new) -> Reloc] /\ Len(new) \in Nat
    BY <1>11, <2>1, <2>2
  <2> QED BY <2>1, <2>2, <2>3
<1>13. DataBytes \in Seq(S!Byte) /\ Len(DataBytes) <= This.size
  <2>1. This.size \in Nat
    BY DataFields, ThisFits
  <2> QED BY <2>1, DataBytesFit
<1>14. VisitMakes(This, DataBytes, new, errors)
  <2>1. PICK o : Collects(new, o, DataParts, DataLength)
    BY <1>11
  <2>2. errors = 0 => \A i \in 1 .. DataLength : EvalErrors(This.stmt.values[i]) # 1
    BY <1>3
  <2> QED BY <2>1, <2>2, DataMakes
<1>15. VisitFits(DataBytes, new, errors, warnings)
  BY <1>2, <1>3, <1>12, <1>13, <1>14, Zenon DEF VisitFits
<1> QED BY <1>15

LEMMA VisitsAreFit ==
  ASSUME BaseInv, Visits
  PROVE  AVisit
<1>1. VisitData => AVisit
  BY DataQueue DEF AVisit
<1> QED BY <1>1, InstructionFits, LoadFits, BranchFits, ShiftFits, SpaceFits, AlignFits
        DEF Visits

-----------------------------------------------------------------------------
\* The parser.

LEMMA SizeType ==
  ASSUME SymbolsTyped, NEW stmt \in Statement, NEW o \in Nat
  PROVE  /\ SizeOf(stmt, o) \in Nat
         /\ stmt.op \in {"empty", "section"} => SizeOf(stmt, o) = 0
         /\ stmt.op \in {"inst", "ldr", "branch", "shift"} => SizeOf(stmt, o) = 2
         /\ stmt.op = "data" => SizeOf(stmt, o) = stmt.grain * Len(stmt.values)
         /\ stmt.op = "space" => SizeOf(stmt, o) = SpaceSize(stmt)
         /\ stmt.op = "ascii" => SizeOf(stmt, o) = Len(stmt.text)
<1>0. StatementKinds(stmt)
  BY StatementFields
<1>1. /\ stmt.op \in {"empty", "section"} => SizeOf(stmt, o) = 0
      /\ stmt.op \in {"inst", "ldr", "branch", "shift"} => SizeOf(stmt, o) = 2
      /\ stmt.op = "data" => SizeOf(stmt, o) = stmt.grain * Len(stmt.values)
      /\ stmt.op = "space" => SizeOf(stmt, o) = SpaceSize(stmt)
      /\ stmt.op = "align" => SizeOf(stmt, o) = AlignUp(o, stmt.power) - o
      /\ stmt.op = "ascii" => SizeOf(stmt, o) = Len(stmt.text)
  BY DEF SizeOf
<1> HIDE DEF SizeOf
<1>2. CASE stmt.op = "data"
  <2>1. stmt.grain \in Nat /\ stmt.values \in Seq(Operand)
    BY <1>0, <1>2 DEF StatementKinds
  <2>2. Len(stmt.values) \in Nat
    BY <2>1
  <2>3. \A a, b \in Nat : a * b \in Nat
    OBVIOUS
  <2>4. SizeOf(stmt, o) \in Nat
    BY <1>1, <1>2, <2>1, <2>2, <2>3
  <2> QED BY <1>1, <2>4
<1>3. CASE stmt.op = "space"
  <2>1. SpaceSize(stmt) \in Nat
    <3>1. stmt.size \in Operand
      BY <1>0, <1>3 DEF StatementKinds
    <3>2. ValueOf(stmt.size) \in Nat
      BY <3>1, OperandValues, WordsAreNumbers
    <3> QED BY <3>2 DEF SpaceSize
  <2> QED BY <1>1, <1>3, <2>1
<1>4. CASE stmt.op = "align"
  <2>1. stmt.power \in 0 .. 30
    BY <1>0, <1>4 DEF StatementKinds
  <2>2. AlignUp(o, stmt.power) - o \in Nat
    BY <2>1, AlignmentGap
  <2> QED BY <1>1, <1>4, <2>2
<1>5. CASE stmt.op = "ascii"
  <2>1. stmt.text \in Seq(S!Byte)
    BY <1>0, <1>5 DEF StatementKinds
  <2>2. Len(stmt.text) \in Nat
    BY <2>1
  <2> QED BY <1>1, <1>5, <2>2
<1>6. CASE stmt.op \in {"empty", "section", "inst", "ldr", "branch", "shift"}
  BY <1>1, <1>6
<1> QED BY <1>0, <1>1, <1>2, <1>3, <1>4, <1>5, <1>6 DEF StatementKinds

\* A constructor puts the bytes of its statement where the section it is in
\* ends, and changes no byte that was there.
Lengthens(section, offset, size) ==
  /\ section \in DOMAIN table' /\ section \in Nat /\ offset \in Nat /\ size \in Nat
  /\ DOMAIN table \subseteq DOMAIN table'
  /\ section \in DOMAIN table => offset = Len(Contents(section))
  /\ section \notin DOMAIN table => offset = 0
  /\ \A s \in DOMAIN table' :
       Len(table'[s].contents) = IF s = section THEN offset + size
                                 ELSE IF s \in DOMAIN table THEN Len(Contents(s)) ELSE 0

LEMMA LengthensGrows ==
  ASSUME TableOK, NEW section, NEW offset, NEW size, Lengthens(section, offset, size)
  PROVE  TableGrows
<1> SUFFICES ASSUME NEW s \in DOMAIN table
             PROVE  /\ Len(table'[s].contents) \in Nat
                    /\ Len(table'[s].contents) >= Len(Contents(s))
  BY DEF TableGrows, Lengthens
<1>1. s \in DOMAIN table' /\ Len(Contents(s)) \in Nat
  BY TableTypes DEF Lengthens
<1>2. CASE s = section
  <2>1. /\ Len(table'[s].contents) = offset + size /\ offset = Len(Contents(s))
        /\ size \in Nat
    BY <1>1, <1>2 DEF Lengthens
  <2> QED BY <1>1, <2>1
<1>3. CASE s # section
  <2>1. Len(table'[s].contents) = Len(Contents(s))
    BY <1>1, <1>3 DEF Lengthens
  <2> QED BY <1>1, <2>1
<1> QED BY <1>2, <1>3

LEMMA AppendLengthens ==
  ASSUME TableOK, NEW b \in Seq(S!Byte), S!AppendBlock(b)
  PROVE  /\ TableOK' /\ current_section' = current_section
         /\ Lengthens(current_section, Len(Contents(current_section)), Len(b))
<1> DEFINE s == current_section
           o == Len(Contents(s))
<1>1. /\ s \in DOMAIN table /\ s \in Nat /\ o \in Nat
      /\ \A t \in DOMAIN table : Len(Contents(t)) \in Nat
  BY TableTypes
<1>2. S!WriteBlock(s, o, b)
  BY DEF S!AppendBlock, Contents
<1>3. Len(b) \in Nat
  OBVIOUS
<1>4. /\ TableOK' /\ DOMAIN table' = DOMAIN table /\ current_section' = s
      /\ \A t \in DOMAIN table : t # s => table'[t] = table[t]
      /\ Len(table'[s].contents) = IF o + Len(b) <= o THEN o ELSE o + Len(b)
  <2>1. o <= Len(Contents(s))
    BY <1>1
  <2> HIDE DEF o, s
  <2> QED BY <1>1, <1>2, <2>1, WriteTable DEF o, s
<1>5. Len(table'[s].contents) = o + Len(b)
  <2> HIDE DEF o
  <2> QED BY <1>1, <1>3, <1>4
<1>6. Lengthens(s, o, Len(b))
  <2>1. \A t \in DOMAIN table : t # s => Len(table'[t].contents) = Len(Contents(t))
    BY <1>4 DEF Contents
  <2>2. o = Len(Contents(s))
    OBVIOUS
  <2> HIDE DEF o, s
  <2> QED BY <1>1, <1>3, <1>4, <1>5, <2>1, <2>2 DEF Lengthens
<1> QED BY <1>4, <1>6

LEMMA SetSectionLengthens ==
  ASSUME TableOK, NEW name \in Names, S!SetSection(name)
  PROVE  /\ TableOK'
         /\ Lengthens(current_section', Len(table'[current_section'].contents), 0)
<1> DEFINE s == current_section'
           o == Len(table'[s].contents)
<1>1. /\ TableOK' /\ DOMAIN table \subseteq DOMAIN table'
      /\ \A t \in DOMAIN table : table'[t].contents = Contents(t)
      /\ \A t \in DOMAIN table' : t \notin DOMAIN table => table'[t].contents = <<>>
  BY SetSectionTable
<1>2. s \in DOMAIN table' /\ s \in Nat /\ o \in Nat
  <2>1. S!TypeOK'
    BY <1>1 DEF TableOK
  <2>2. table' \in Seq(S!Section) /\ s \in DOMAIN table'
    BY <2>1 DEF S!TypeOK
  <2>3. table'[s] \in S!Section /\ s \in Nat
    BY <2>2
  <2>4. table'[s].contents \in Seq(S!Byte)
    BY <2>3 DEF S!Section
  <2> QED BY <2>2, <2>3, <2>4
<1>3. \A t \in DOMAIN table' :
        Len(table'[t].contents) = IF t \in DOMAIN table THEN Len(Contents(t)) ELSE 0
  BY <1>1
<1>4. o + 0 = o
  <2> HIDE DEF o
  <2> QED BY <1>2
<1>5. \A t \in DOMAIN table' :
        Len(table'[t].contents) = IF t = s THEN o + 0
                                  ELSE IF t \in DOMAIN table THEN Len(Contents(t)) ELSE 0
  BY <1>3, <1>4
<1>6. (s \in DOMAIN table => o = Len(Contents(s))) /\ (s \notin DOMAIN table => o = 0)
  BY <1>2, <1>3
<1> QED BY <1>1, <1>2, <1>5, <1>6 DEF Lengthens

\* The statement a line adds has its bytes at the end of its section.
AddsNode(n) == /\ n \in Nodes /\ SizeFits(n)
               /\ ast' = Append(ast, n)
               /\ Lengthens(n.section, n.offset, n.size)
               /\ n.stmt = source[Len(ast) + 1].stmt /\ n.section = current_section'
               /\ source[Len(ast) + 1].label \in Labels \cup {NoLabel}
               /\ AddLabel(source[Len(ast) + 1].label, n.section, n.offset)

LEMMA ParseAdds ==
  ASSUME BaseInv, ParseLine
  PROVE  TableOK' /\ \E n \in Nodes : AddsNode(n)
<1> DEFINE line == source[Len(ast) + 1]
           stmt == line.stmt
           section == current_section'
           offset == IF stmt.op = "section" THEN Len(table'[section].contents)
                     ELSE Len(Contents(section))
           n == Node(stmt, section, offset)
<1>1. /\ Construct(stmt) /\ ast' = Append(ast, n) /\ Len(ast) < Len(source)
      /\ AddLabel(line.label, section, offset)
  BY DEF ParseLine
<1>2. stmt \in Statement /\ StatementKinds(stmt) /\ line.label \in Labels \cup {NoLabel}
  <2>1. Len(ast) \in Nat /\ Len(source) \in Nat /\ source \in Seq(SourceLine)
    BY DEF BaseInv, AstOK, SourceOK
  <2>2. line \in SourceLine
    <3>1. Len(ast) + 1 \in 1 .. Len(source)
      BY <1>1, <2>1
    <3> QED BY <2>1, <3>1
  <2> HIDE DEF line
  <2> QED BY <2>2, StatementFields DEF SourceLine
<1> HIDE DEF line
<1>3. TableOK /\ SymbolsTyped
  BY DEF BaseInv, SymbolsOK
<1> HIDE DEF stmt
<1>4. /\ TableOK'
      /\ section \in Nat /\ offset \in Nat
      /\ SizeOf(stmt, offset) \in Nat
      /\ Lengthens(section, offset, SizeOf(stmt, offset))
  <2>1. CASE stmt.op = "section"
    <3>1. S!SetSection(stmt.name) /\ stmt.name \in Names
      BY <1>1, <1>2, <2>1, Zenon DEF Construct, StatementKinds
    <3>2. offset = Len(table'[section].contents)
      BY <2>1
    <3>3. TableOK' /\ Lengthens(section, Len(table'[section].contents), 0)
      BY <1>3, <3>1, SetSectionLengthens
    <3>4. offset \in Nat
      BY <3>2, <3>3 DEF Lengthens
    <3> HIDE DEF offset
    <3>5. SizeOf(stmt, offset) = 0
      BY <1>2, <1>3, <2>1, <3>4, SizeType
    <3> QED BY <3>2, <3>3, <3>5 DEF Lengthens
  <2>2. CASE stmt.op # "section"
    <3> DEFINE size == SizeOf(stmt, Len(Contents(current_section)))
    <3>1. size \in Nat
      <4>1. Len(Contents(current_section)) \in Nat
        BY <1>3, TableTypes
      <4> QED BY <1>2, <1>3, <4>1, SizeType
    <3>2. PICK b \in Seq(S!Byte) : S!AppendBlock(b) /\ Len(b) = size
      <4>1. CASE stmt.op = "ascii"
        <5>1. S!AppendBlock(stmt.text) /\ stmt.text \in Seq(S!Byte)
          BY <1>1, <1>2, <4>1, Zenon DEF Construct, StatementKinds
        <5>2. Len(stmt.text) = size
          BY <1>2, <1>3, <4>1, TableTypes, SizeType
        <5> QED BY <5>1, <5>2
      <4>2. CASE stmt.op # "ascii"
        <5>1. S!AppendBlock(S!Repeat(S!Filler, size))
          BY <1>1, <2>2, <4>2, Zenon DEF Construct, S!Increase
        <5>2. S!Filler \in S!Byte
          BY DEF S!Filler, S!Byte
        <5> HIDE DEF size
        <5> QED BY <3>1, <5>1, <5>2, RepeatedByte
      <4> QED BY <4>1, <4>2
    <3>3. /\ TableOK' /\ section = current_section
          /\ Lengthens(current_section, Len(Contents(current_section)), Len(b))
      BY <1>3, <3>2, AppendLengthens
    <3>4. current_section \in DOMAIN table
      BY <1>3, TableTypes
    <3>5. offset = Len(Contents(current_section))
      <4>1. Len(Contents(section)) = Len(Contents(current_section))
        BY <3>3
      <4> QED BY <2>2, <4>1
    <3> QED BY <3>1, <3>2, <3>3, <3>5 DEF Lengthens
  <2> QED BY <2>1, <2>2
<1> HIDE DEF section, offset
<1>5. n \in Nodes
  BY <1>2, <1>4 DEF Node, Nodes
<1>6. /\ n.section = section /\ n.offset = offset /\ n.size = SizeOf(stmt, offset)
      /\ n.stmt = stmt
  BY DEF Node
<1> HIDE DEF n
<1>7. SizeFits(n)
  <2> HIDE DEF SizeOf
  <2>1. ASSUME stmt.op = "space", ~IsLabel(stmt.size), Fits16(stmt.size.addend)
        PROVE  SizeOf(stmt, offset) = LowWord(stmt.size.addend)
    <3>1. IntOf(stmt.size) = stmt.size.addend
      BY <2>1, SMT DEF IntOf
    <3>2. Evaluates(stmt.size)
      BY <2>1, <3>1, Zenon DEF Evaluates, NumberFits
    <3>3. SpaceSize(stmt) = LowWord(stmt.size.addend)
      BY <3>1, <3>2, SMT DEF SpaceSize, ValueOf, LowWord
    <3> QED BY <1>2, <1>3, <1>4, <2>1, <3>3, SizeType
  <2> QED BY <1>2, <1>3, <1>4, <1>6, <2>1, SizeType DEF SizeFits
<1>8. AddsNode(n)
  <2>1. /\ n.stmt = source[Len(ast) + 1].stmt /\ n.section = current_section'
        /\ source[Len(ast) + 1].label \in Labels \cup {NoLabel}
        /\ AddLabel(source[Len(ast) + 1].label, n.section, n.offset)
    BY <1>1, <1>2, <1>6, Zenon DEF stmt, line, section
  <2> QED BY <1>1, <1>4, <1>5, <1>6, <1>7, <2>1, Zenon DEF AddsNode
<1> QED BY <1>4, <1>5, <1>8

LEMMA AppendedNode ==
  ASSUME ast \in Seq(Nodes), NEW n \in Nodes, ast' = Append(ast, n)
  PROVE  /\ ast' \in Seq(Nodes) /\ Len(ast) \in Nat /\ Len(ast') = Len(ast) + 1
         /\ DOMAIN ast' = 1 .. Len(ast) + 1 /\ DOMAIN ast = 1 .. Len(ast)
         /\ ast'[Len(ast) + 1] = n
         /\ \A j \in DOMAIN ast : ast'[j] = ast[j]
OBVIOUS

LEMMA DirectiveName ==
  ASSUME NEW q \in Seq(Nodes)
  PROVE  LastDirective(q) \in Names \cup {""}
<1> DEFINE ds == {j \in DOMAIN q : q[j].stmt.op = "section"}
           last == CHOOSE j \in ds : \A k \in ds : k <= j
<1>1. CASE ds = {}
  BY <1>1 DEF LastDirective
<1>2. CASE ds # {}
  <2>1. Len(q) \in Nat /\ ds \subseteq 0 .. Len(q)
    OBVIOUS
  <2>2. \E j \in ds : \A k \in ds : k <= j
    <3> HIDE DEF ds
    <3> QED BY <1>2, <2>1, GreatestNumber
  <2>3. last \in ds
    BY <2>2
  <2>4. last \in DOMAIN q /\ q[last].stmt.op = "section"
    <3> HIDE DEF last
    <3> QED BY <2>3
  <2>5. q[last] \in Nodes
    <3> HIDE DEF last
    <3> QED BY <2>4
  <2>6. q[last].stmt \in Statement
    <3> HIDE DEF last
    <3> QED BY <2>5 DEF Nodes
  <2>7. q[last].stmt.name \in Names
    <3> HIDE DEF last
    <3>1. StatementKinds(q[last].stmt)
      BY <2>6, StatementFields
    <3> QED BY <2>4, <3>1 DEF StatementKinds
  <2>8. LastDirective(q) = q[last].stmt.name
    BY <1>2 DEF LastDirective
  <2> QED BY <2>7, <2>8
<1> QED BY <1>1, <1>2

LEMMA LabelAdded ==
  ASSUME SymbolsOK, DOMAIN table \subseteq DOMAIN table', ast' \in Seq(Nodes),
         NEW section \in DOMAIN table', section \in Nat, NEW offset \in Nat,
         NEW label \in Labels \cup {NoLabel}, AddLabel(label, section, offset)
  PROVE  /\ SymbolsOK'
         /\ \A l \in Labels : Defined(l) => symbols'[l] = symbols[l]
<1> DEFINE new == [section |-> section, offset |-> offset, home |-> LastDirective(ast')]
<1>1. new \in Entry
  BY DirectiveName DEF Entry
<1>2. CASE UNCHANGED symbols
  BY <1>2 DEF SymbolsOK, SymbolsTyped, Defined, Undefined
<1>3. CASE /\ label \in Labels /\ ~Defined(label)
           /\ symbols' = [symbols EXCEPT ![label] = new]
  <2> HIDE DEF new
  <2>1. symbols' \in [Labels -> Entry]
    BY <1>1, <1>3 DEF SymbolsOK, SymbolsTyped
  <2>2. \A l \in Labels : symbols'[l] = IF l = label THEN new ELSE symbols[l]
    BY <1>3 DEF SymbolsOK, SymbolsTyped
  <2>3. new.section = section
    BY DEF new
  <2>4. ASSUME NEW l \in Labels, Defined(l)'
        PROVE  symbols'[l].section \in DOMAIN table'
    <3>1. CASE l = label
      BY <2>2, <2>3, <3>1
    <3>2. CASE l # label
      <4>1. symbols'[l] = symbols[l] /\ Defined(l)
        BY <2>2, <2>4, <3>2 DEF Defined, Undefined
      <4> QED BY <4>1 DEF SymbolsOK
    <3> QED BY <3>1, <3>2
  <2>5. \A l \in Labels : Defined(l) => symbols'[l] = symbols[l]
    BY <1>3, <2>2
  <2> QED BY <2>1, <2>4, <2>5 DEF SymbolsOK, SymbolsTyped
<1> QED BY <1>2, <1>3, LabelAssumption DEF AddLabel

LEMMA ParseInv ==
  ASSUME BaseInv, ParseLine
  PROVE  BaseInv'
<1>1. PICK n \in Nodes : AddsNode(n)
  BY ParseAdds
<1>2. /\ TableOK' /\ TableOK
      /\ Lengthens(n.section, n.offset, n.size) /\ SizeFits(n) /\ ast' = Append(ast, n)
  BY <1>1, ParseAdds DEF AddsNode, BaseInv
<1>3. TableGrows
  BY <1>2, LengthensGrows
<1>4. /\ ast' \in Seq(Nodes) /\ DOMAIN ast' = 1 .. Len(ast) + 1 /\ DOMAIN ast = 1 .. Len(ast)
      /\ ast'[Len(ast) + 1] = n /\ \A j \in DOMAIN ast : ast'[j] = ast[j]
      /\ Len(ast) \in Nat
  BY <1>2, AppendedNode DEF BaseInv, AstOK
<1>5. NodeFits(n)'
  <2>1. SizeFits(n)'
    BY <1>2, SizeFitsIsConstant
  <2>2. n.section \in DOMAIN table' /\ n.offset + n.size <= Len(table'[n.section].contents)
    <3>1. /\ n.section \in DOMAIN table' /\ n.offset \in Nat /\ n.size \in Nat
          /\ Len(table'[n.section].contents) = n.offset + n.size
      BY <1>2 DEF Lengthens
    <3> QED BY <3>1
  <2> QED BY <2>1, <2>2 DEF NodeFits, Contents
<1>6. AstOK'
  <2>1. \A j \in DOMAIN ast : NodeFits(ast[j])'
    <3> SUFFICES ASSUME NEW j \in DOMAIN ast PROVE NodeFits(ast[j])'
      BY <1>4
    <3>1. ast[j] \in Nodes /\ NodeFits(ast[j]) /\ ast'[j] = ast[j]
      BY <1>4 DEF BaseInv, AstOK
    <3>2. \A m \in Nodes : NodeFits(m) => NodeFits(m)'
      BY <1>2, <1>3, NodesKept
    <3> QED BY <3>1, <3>2
  <2>2. \A j \in DOMAIN ast' : NodeFits(ast[j])'
    <3> SUFFICES ASSUME NEW j \in DOMAIN ast' PROVE NodeFits(ast[j])'
      OBVIOUS
    <3>1. CASE j = Len(ast) + 1
      BY <1>4, <1>5, <3>1
    <3>2. CASE j \in DOMAIN ast
      BY <1>4, <2>1, <3>2
    <3> QED BY <1>4, <3>1, <3>2
  <2> QED BY <1>4, <2>2 DEF AstOK
<1>7. SymbolsOK' /\ \A l \in Labels : Defined(l) => symbols'[l] = symbols[l]
  <2> DEFINE label == source[Len(ast) + 1].label
  <2>1. /\ label \in Labels \cup {NoLabel} /\ AddLabel(label, n.section, n.offset)
        /\ n.section \in DOMAIN table' /\ n.section \in Nat /\ n.offset \in Nat
        /\ DOMAIN table \subseteq DOMAIN table'
    BY <1>1, <1>2 DEF AddsNode, Lengthens
  <2>2. SymbolsOK
    BY DEF BaseInv
  <2> HIDE DEF label
  <2> QED BY <1>4, <2>1, <2>2, LabelAdded
<1>8. RelocsOK'
  <2>1. relocs' = relocs /\ relocs \in Seq(Reloc)
    BY DEF ParseLine, BaseInv, RelocsOK
  <2>2. ASSUME NEW k \in DOMAIN relocs PROVE RelocFits(relocs[k])'
    <3>1. relocs[k] \in Reloc /\ RelocFits(relocs[k])
      BY DEF BaseInv, RelocsOK
    <3>2. relocs[k].symbol \in Labels /\ Defined(relocs[k].symbol)
      BY <3>1 DEF Reloc, RelocFits
    <3>3. symbols'[relocs[k].symbol] = symbols[relocs[k].symbol]
      BY <1>7, <3>2
    <3> DEFINE r == relocs[k]
    <3>4. \A m \in Reloc : RelocFits(m) /\ symbols'[m.symbol] = symbols[m.symbol]
                             => RelocFits(m)'
      BY <1>2, <1>3, RelocsKept
    <3> QED BY <2>1, <3>1, <3>3, <3>4
  <2> QED BY <2>1, <2>2 DEF RelocsOK
<1>10. CountsOK'
  <2> DEFINE line == source[Len(ast) + 1]
  <2>1. /\ error_count' = error_count + ParseErrors(line.stmt)
             + Count(line.label # NoLabel /\ Defined(line.label))
        /\ warning_count' = warning_count + ParseWarnings(line.stmt)
        /\ pc' = pc
    BY DEF ParseLine
  <2>2. line.stmt \in Statement
    BY <1>1 DEF AddsNode, Nodes
  <2> HIDE DEF line
  <2>3. ParseErrors(line.stmt) \in Nat /\ ParseWarnings(line.stmt) \in Nat
    <3>1. CASE line.stmt.op = "space"
      <4>1. line.stmt.size \in Operand
        BY <2>2, <3>1, StatementFields DEF StatementKinds
      <4>2. EvalErrors(line.stmt.size) \in Nat /\ EvalWarnings(line.stmt.size) \in Nat
        BY <4>1, OperandNumbers
      <4> QED BY <4>2 DEF ParseErrors, ParseWarnings
    <3>2. CASE line.stmt.op # "space"
      BY <3>2 DEF ParseErrors, ParseWarnings
    <3> QED BY <3>1, <3>2
  <2>4. Count(line.label # NoLabel /\ Defined(line.label)) \in Nat
    BY DEF Count
  <2> QED BY <2>1, <2>3, <2>4, Reports DEF BaseInv, CountsOK
<1>9. SourceOK' /\ BasesOK'
  BY DEF BaseInv, ParseLine, SourceOK, BasesOK, endVars, locateVars, Succeeded
<1> QED BY <1>2, <1>6, <1>7, <1>8, <1>9, <1>10 DEF BaseInv

-----------------------------------------------------------------------------
\* A visit changes bytes of its statement only.

\* The table keeps its shape; bytes change in the extent of statement pc only.
InPlace(b) ==
  /\ TableOK' /\ DOMAIN table' = DOMAIN table /\ current_section' = current_section
  /\ \A s \in DOMAIN table :
       /\ table'[s].name = table[s].name /\ table'[s].flags = table[s].flags
       /\ s # This.section => table'[s] = table[s]
       /\ Len(table'[s].contents) = Len(Contents(s))
  /\ \A i \in 1 .. Len(Contents(This.section)) :
       table'[This.section].contents[i] =
         IF i > This.offset /\ i <= This.offset + Len(b) THEN b[i - This.offset]
         ELSE Contents(This.section)[i]

LEMMA VisitIsInPlace ==
  ASSUME BaseInv, pc <= Len(ast), NEW b \in Seq(S!Byte), Len(b) <= This.size,
         S!WriteBlock(This.section, This.offset, b)
  PROVE  InPlace(b)
<1> DEFINE s == This.section
           o == This.offset
           n == Len(Contents(s))
<1>1. /\ s \in DOMAIN table /\ o \in Nat /\ This.size \in Nat
      /\ o + This.size <= n /\ n \in Nat
  BY ThisFits
<1>2. TableOK /\ Len(b) \in Nat
  BY DEF BaseInv
<1>3. o <= n /\ o + Len(b) <= n
  <2> HIDE DEF o, n
  <2> QED BY <1>1, <1>2
<1>4. S!WriteBlock(s, o, b)
  OBVIOUS
<1> HIDE DEF s, o
<1>5. /\ TableOK' /\ DOMAIN table' = DOMAIN table /\ current_section' = current_section
      /\ \A t \in DOMAIN table : /\ table'[t].name = table[t].name
                                 /\ table'[t].flags = table[t].flags
                                 /\ t # s => table'[t] = table[t]
      /\ Len(table'[s].contents) = IF o + Len(b) <= n THEN n ELSE o + Len(b)
      /\ \A i \in 1 .. Len(table'[s].contents) :
           table'[s].contents[i] = IF i > o /\ i <= o + Len(b) THEN b[i - o]
                                   ELSE Contents(s)[i]
  BY <1>1, <1>2, <1>3, <1>4, WriteTable
<1>6. Len(table'[s].contents) = n
  BY <1>3, <1>5
<1>7. \A t \in DOMAIN table : Len(table'[t].contents) = Len(Contents(t))
  BY <1>5, <1>6 DEF Contents
<1> QED BY <1>5, <1>6, <1>7, Zenon DEF InPlace, s, o

LEMMA InPlaceGrows ==
  ASSUME TableOK, NEW b, InPlace(b)
  PROVE  TableGrows
BY TableTypes DEF InPlace, TableGrows

LEMMA Concatenation ==
  ASSUME NEW p \in Seq(Reloc), NEW q \in Seq(Reloc)
  PROVE  /\ p \o q \in Seq(Reloc)
         /\ DOMAIN (p \o q) = 1 .. Len(p) + Len(q)
         /\ \A k \in DOMAIN (p \o q) : \/ k \in DOMAIN p /\ (p \o q)[k] = p[k]
                                       \/ \E j \in DOMAIN q : (p \o q)[k] = q[j]
<1>1. /\ p \o q \in Seq(Reloc) /\ Len(p) \in Nat /\ Len(q) \in Nat
      /\ DOMAIN p = 1 .. Len(p) /\ DOMAIN q = 1 .. Len(q)
      /\ DOMAIN (p \o q) = 1 .. Len(p) + Len(q)
      /\ \A k \in 1 .. Len(p) + Len(q) :
           (p \o q)[k] = IF k <= Len(p) THEN p[k] ELSE q[k - Len(p)]
  OBVIOUS
<1> QED BY <1>1

LEMMA VisitInv ==
  ASSUME BaseInv, pc <= Len(ast), AVisit
  PROVE  BaseInv'
<1>1. PICK b, new, errors, warnings : VisitFits(b, new, errors, warnings)
  BY DEF AVisit
<1>2. /\ b \in Seq(S!Byte) /\ Len(b) <= This.size
      /\ new \in Seq(Reloc) /\ \A k \in DOMAIN new : RelocFits(new[k])
      /\ errors \in Nat /\ warnings \in Nat
      /\ S!WriteBlock(This.section, This.offset, b)
      /\ relocs' = relocs \o new
      /\ error_count' = error_count + errors /\ warning_count' = warning_count + warnings
      /\ pc' = pc + 1
      /\ UNCHANGED <<symbols, ast, locateVars, phase, endVars>>
  BY <1>1 DEF VisitFits, Visited, VisitedAt
<1>3. InPlace(b)
  BY <1>2, VisitIsInPlace
<1>4. TableOK' /\ TableGrows /\ TableOK
  BY <1>3, InPlaceGrows DEF InPlace, BaseInv
<1>5. /\ SymbolsOK' /\ AstOK'
      /\ \A r \in Reloc : RelocFits(r) => RelocFits(r)'
  BY <1>2, <1>4, PlacesKept
<1>6. RelocsOK'
  <2>1. relocs \in Seq(Reloc) /\ \A k \in DOMAIN relocs : RelocFits(relocs[k])
    BY DEF BaseInv, RelocsOK
  <2>2. /\ relocs' \in Seq(Reloc)
        /\ \A k \in DOMAIN relocs' : \/ k \in DOMAIN relocs /\ relocs'[k] = relocs[k]
                                     \/ \E j \in DOMAIN new : relocs'[k] = new[j]
    BY <1>2, <2>1, Concatenation
  <2>3. ASSUME NEW k \in DOMAIN relocs' PROVE RelocFits(relocs[k])'
    <3>1. \E r \in Reloc : relocs'[k] = r /\ RelocFits(r)
      <4>1. CASE k \in DOMAIN relocs /\ relocs'[k] = relocs[k]
        BY <2>1, <4>1
      <4>2. CASE \E j \in DOMAIN new : relocs'[k] = new[j]
        <5>1. PICK j \in DOMAIN new : relocs'[k] = new[j]
          BY <4>2
        <5>2. new[j] \in Reloc /\ RelocFits(new[j])
          BY <1>2
        <5> QED BY <5>1, <5>2
      <4> QED BY <2>2, <4>1, <4>2
    <3> QED BY <1>5, <3>1
  <2> QED BY <2>2, <2>3 DEF RelocsOK
<1>7. CountsOK'
  BY <1>2 DEF BaseInv, CountsOK
<1>8. SourceOK' /\ BasesOK'
  BY <1>2, <1>3 DEF BaseInv, SourceOK, BasesOK, endVars, locateVars, Succeeded, InPlace
<1> QED BY <1>4, <1>5, <1>6, <1>7, <1>8 DEF BaseInv

-----------------------------------------------------------------------------
\* A relocation writes one word where its field is.

Patches(r, v, errors, warnings) ==
  /\ v \in Int /\ errors \in Nat /\ warnings \in Nat
  /\ S!WriteBlock(r.section, r.offset,
                  Bytes(PatchField(WordAt(Contents(r.section), r.offset),
                                   r.position, r.width, v), 2))
  /\ error_count' = error_count + errors
  /\ warning_count' = warning_count + warnings

LEMMA RelocFields ==
  ASSUME BaseInv, NEW k \in DOMAIN relocs
  PROVE  LET r == relocs[k]
         IN  /\ r \in Reloc /\ RelocFits(r) /\ FieldFits(r)
             /\ r.section \in DOMAIN table /\ r.section \in Nat
             /\ r.offset \in Nat /\ r.offset + FieldBytes(r) <= Len(Contents(r.section))
             /\ FieldBytes(r) \in {1, 2} /\ (FieldBytes(r) = 1 <=> r.width = 8)
             /\ r.addend \in Int /\ r.symbol \in Labels
             /\ symbols[r.symbol].section \in DOMAIN table
             /\ r.position \in {0, 4} /\ r.width \in (1 .. 6) \cup {8, 16}
<1> DEFINE r == relocs[k]
<1>1. r \in Reloc /\ RelocFits(r)
  BY DEF BaseInv, RelocsOK
<1> HIDE DEF r
<1>2. /\ r.section \in Nat /\ r.offset \in Nat /\ r.addend \in Int /\ r.symbol \in Labels
  BY <1>1 DEF Reloc
<1>3. /\ FieldFits(r) /\ r.section \in DOMAIN table /\ Defined(r.symbol)
      /\ r.offset + FieldBytes(r) <= Len(Contents(r.section))
  BY <1>1 DEF RelocFits
<1>4. symbols[r.symbol].section \in DOMAIN table
  BY <1>2, <1>3 DEF BaseInv, SymbolsOK
<1>5. r.position \in {0, 4} /\ r.width \in (1 .. 6) \cup {8, 16}
  BY <1>3, WidthAssumption DEF FieldFits, LdrPosition
<1>6. FieldBytes(r) \in {1, 2} /\ (FieldBytes(r) = 1 <=> r.width = 8)
  BY DEF FieldBytes
<1> QED BY <1>1, <1>2, <1>3, <1>4, <1>5, <1>6 DEF r

\* The value a relocation puts in its field, and when it is not reported.
RelocDistance(r) == Target(r) - (base_address[r.section] + r.offset)

PatchValue(r) == IF r.type = "RELATIVE_UNSIGNED" THEN RelocDistance(r) \div 2
                 ELSE Target(r)

ValueFits(r) == IF r.type = "RELATIVE_UNSIGNED"
                THEN RelocDistance(r) >= 0 /\ RelocDistance(r) < 2^(r.width + 1)
                ELSE Target(r) <= 2^r.width

LEMMA TargetTypes ==
  ASSUME BaseInv, phase = "relocate", NEW k \in DOMAIN relocs
  PROVE  Target(relocs[k]) \in Int /\ RelocDistance(relocs[k]) \in Int
<1> DEFINE r == relocs[k]
<1>1. /\ r.section \in DOMAIN table /\ r.offset \in Nat /\ r.addend \in Int
      /\ symbols[r.symbol].section \in DOMAIN table
  BY RelocFields
<1>2. base_address \in [DOMAIN table -> Nat]
  BY DEF BaseInv, BasesOK
<1>3. base_address[r.section] \in Nat /\ base_address[symbols[r.symbol].section] \in Nat
  BY <1>1, <1>2
<1> HIDE DEF r
<1>4. Target(r) \in Int /\ RelocDistance(r) \in Int
  BY <1>1, <1>3 DEF Target, RelocDistance
<1> QED BY <1>4 DEF r

LEMMA RelocateValue ==
  ASSUME BaseInv, Relocate
  PROVE  /\ pc \in DOMAIN relocs
         /\ \E errors, warnings : /\ Patches(relocs[pc], PatchValue(relocs[pc]), errors, warnings)
                                  /\ errors = 0 => ValueFits(relocs[pc])
<1> DEFINE r == relocs[pc]
           target == Target(r)
           distance == target - (base_address[r.section] + r.offset)
           relative == r.type = "RELATIVE_UNSIGNED"
           errors == IF relative
                     THEN Count(distance < 0) + Count(distance >= 2^(r.width + 1))
                     ELSE Count(target > 2^r.width)
           value == IF relative THEN distance \div 2 ELSE target
           warnings == Count(relative /\ target % 2 # 0)
<1>1. phase = "relocate" /\ pc \in DOMAIN relocs
  BY DEF Relocate, BaseInv, CountsOK, RelocsOK
<1>2. /\ S!WriteBlock(r.section, r.offset,
                      Bytes(PatchField(WordAt(Contents(r.section), r.offset),
                                       r.position, r.width, value), 2))
      /\ error_count' = error_count + errors /\ warning_count' = warning_count + warnings
  BY DEF Relocate
<1>3. target \in Int /\ distance \in Int
  <2>1. distance = RelocDistance(r)
    BY DEF RelocDistance
  <2> QED BY <1>1, <2>1, TargetTypes
<1>4. value \in Int /\ value = PatchValue(r)
  <2>1. value = PatchValue(r)
    BY Zenon DEF PatchValue, RelocDistance
  <2> HIDE DEF target, distance, r
  <2>2. distance \div 2 \in Int
    BY <1>3
  <2> QED BY <1>3, <2>1, <2>2
<1>5. errors \in Nat /\ warnings \in Nat
  <2>1. \A p : Count(p) \in Nat
    BY DEF Count
  <2> QED BY <2>1
<1>6. ASSUME errors = 0 PROVE ValueFits(r)
  <2>1. RelocDistance(r) = distance
    BY DEF RelocDistance
  <2>2. 2^(r.width + 1) \in Int /\ 2^r.width \in Int
    <3> DEFINE d == r.width
    <3>1. d \in (1 .. 6) \cup {8, 16}
      BY <1>1, RelocFields
    <3> HIDE DEF d
    <3>2. d \in 0 .. 30 /\ d + 1 \in 0 .. 30
      BY <3>1
    <3> QED BY <3>2, Powers DEF d
  <2> DEFINE x == 2^(r.width + 1)
             y == 2^r.width
  <2>3. CASE relative
    <3>1. Count(distance < 0) + Count(distance >= x) = 0
      BY <1>6, <2>3
    <3> HIDE DEF target, distance, r, x
    <3>2. ~(distance < 0) /\ ~(distance >= x)
      BY <3>1 DEF Count
    <3>3. x \in Int
      BY <2>2 DEF x
    <3>4. distance >= 0 /\ distance < x
      BY <1>3, <3>2, <3>3
    <3> QED BY <2>1, <2>3, <3>4, Zenon DEF ValueFits, x
  <2>4. CASE ~relative
    <3>1. Count(target > y) = 0
      BY <1>6, <2>4
    <3> HIDE DEF distance, r, y
    <3>2. ~(target > y)
      BY <3>1 DEF Count
    <3>3. y \in Int
      BY <2>2 DEF y
    <3>4. target <= y
      <4> HIDE DEF target
      <4> QED BY <1>3, <3>2, <3>3
    <3> QED BY <2>4, <3>4, Zenon DEF ValueFits, y
  <2> QED BY <2>3, <2>4
<1> HIDE DEF value, errors, warnings, r
<1>7. Patches(r, PatchValue(r), errors, warnings)
  BY <1>2, <1>4, <1>5, Zenon DEF Patches
<1> QED BY <1>1, <1>6, <1>7 DEF r

LEMMA RelocatePatches ==
  ASSUME BaseInv, Relocate
  PROVE  /\ pc \in DOMAIN relocs
         /\ \E v, errors, warnings : Patches(relocs[pc], v, errors, warnings)
BY RelocateValue

LEMMA WordType ==
  ASSUME TableOK, NEW s \in DOMAIN table, NEW o \in Nat
  PROVE  WordAt(Contents(s), o) \in Nat
<1> DEFINE c == Contents(s)
<1>1. /\ Len(c) \in Nat /\ DOMAIN c = 1 .. Len(c) /\ \A i \in DOMAIN c : c[i] \in S!Byte
  BY TableTypes
<1> HIDE DEF c
<1>2. /\ (IF o + 1 <= Len(c) THEN c[o + 1] ELSE S!Filler) \in Nat
      /\ (IF o + 2 <= Len(c) THEN c[o + 2] ELSE S!Filler) \in Nat
  <2>1. \A i \in 1 .. Len(c) : c[i] \in Nat
    <3>1. \A v \in S!Byte : v \in Nat
      BY DEF S!Byte
    <3> QED BY <1>1, <3>1
  <2> QED BY <1>1, <2>1 DEF S!Filler
<1> QED BY <1>2 DEF WordAt, c

LEMMA PatchType ==
  ASSUME NEW w \in Int, NEW p \in {0, 4}, NEW d \in (1 .. 6) \cup {8, 16}, NEW v \in Int
  PROVE  PatchField(w, p, d, v) \in Int
<1> DEFINE m == 2^p
           n == 2^d
<1>1. m \in Nat \ {0} /\ n \in Nat \ {0}
  <2>1. p \in 0 .. 30 /\ d \in 0 .. 30
    OBVIOUS
  <2> QED BY <2>1, Powers
<1>2. PatchField(w, p, d, v) = w + (((v % n) - ((w \div m) % n)) * m)
  BY DEF PatchField, FieldOf
<1> HIDE DEF m, n
<1>3. v % n \in Int /\ (w \div m) % n \in Int
  <2>1. w \div m \in Int
    BY <1>1, QuotientAndRest
  <2> QED BY <1>1, <2>1, QuotientAndRest
<1> DEFINE a == (v % n) - ((w \div m) % n)
<1>4. a \in Int
  BY <1>3
<1> HIDE DEF a
<1>5. PatchField(w, p, d, v) = w + (a * m)
  BY <1>2 DEF a
<1> QED BY <1>1, <1>4, <1>5

\* The word written stays next to its field: the section keeps its bytes, and
\* gets one more only when the field is its last byte.
LEMMA PatchTable ==
  ASSUME BaseInv, NEW k \in DOMAIN relocs, NEW r, r = relocs[k], NEW b \in Seq(S!Byte),
         Len(b) = 2, S!WriteBlock(r.section, r.offset, b)
  PROVE  /\ TableOK' /\ DOMAIN table' = DOMAIN table /\ current_section' = current_section
         /\ \A t \in DOMAIN table : /\ table'[t].name = table[t].name
                                    /\ t # r.section => table'[t] = table[t]
         /\ Len(table'[r.section].contents) =
              IF r.offset + 2 <= Len(Contents(r.section)) THEN Len(Contents(r.section))
              ELSE Len(Contents(r.section)) + 1
         /\ r.offset + 2 > Len(Contents(r.section)) =>
              r.width = 8 /\ r.offset + 1 = Len(Contents(r.section))
         /\ \A i \in 1 .. Len(table'[r.section].contents) :
              table'[r.section].contents[i] =
                IF i > r.offset /\ i <= r.offset + 2 THEN b[i - r.offset]
                ELSE Contents(r.section)[i]
         /\ TableGrows
<1> DEFINE s == r.section
           o == r.offset
           n == Len(Contents(s))
<1>1. /\ s \in DOMAIN table /\ o \in Nat /\ o + FieldBytes(r) <= n
      /\ FieldBytes(r) \in {1, 2} /\ (FieldBytes(r) = 1 <=> r.width = 8)
  BY RelocFields
<1>2. n \in Nat /\ TableOK
  BY <1>1, TableTypes DEF BaseInv
<1>3. S!WriteBlock(s, o, b)
  OBVIOUS
<1>4. o <= n /\ (o + 2 > n => r.width = 8 /\ o + 1 = n)
  <2> HIDE DEF n, o
  <2> QED BY <1>1, <1>2
<1> HIDE DEF s, o
<1>5. /\ TableOK' /\ DOMAIN table' = DOMAIN table /\ current_section' = current_section
      /\ \A t \in DOMAIN table : /\ table'[t].name = table[t].name
                                 /\ t # s => table'[t] = table[t]
      /\ Len(table'[s].contents) = IF o + Len(b) <= n THEN n ELSE o + Len(b)
      /\ \A i \in 1 .. Len(table'[s].contents) :
           table'[s].contents[i] = IF i > o /\ i <= o + Len(b) THEN b[i - o]
                                   ELSE Contents(s)[i]
  BY <1>1, <1>2, <1>3, <1>4, WriteTable
<1>6. Len(table'[s].contents) = IF o + 2 <= n THEN n ELSE n + 1
  <2> HIDE DEF n
  <2> QED BY <1>1, <1>2, <1>4, <1>5
<1>7. \A i \in 1 .. Len(table'[s].contents) :
        table'[s].contents[i] = IF i > o /\ i <= o + 2 THEN b[i - o] ELSE Contents(s)[i]
  BY <1>5
<1>8. TableGrows
  <2> SUFFICES ASSUME NEW t \in DOMAIN table
               PROVE  /\ Len(table'[t].contents) \in Nat
                      /\ Len(table'[t].contents) >= Len(Contents(t))
    BY <1>5 DEF TableGrows
  <2>1. Len(Contents(t)) \in Nat
    BY <1>2, TableTypes
  <2>2. CASE t = s
    <3> DEFINE l == Len(table'[t].contents)
    <3>1. l = IF o + 2 <= n THEN n ELSE n + 1
      BY <1>6, <2>2
    <3>2. l \in Nat /\ l >= n
      <4> HIDE DEF n, l
      <4> QED BY <1>2, <3>1
    <3> QED BY <2>2, <3>2
  <2>3. CASE t # s
    BY <1>5, <2>1, <2>3 DEF Contents
  <2> QED BY <2>2, <2>3
<1> QED BY <1>4, <1>5, <1>6, <1>7, <1>8 DEF s, o

\* The word a relocation writes, as bytes.
LEMMA RelocateWrites ==
  ASSUME BaseInv, Relocate
  PROVE  /\ pc \in DOMAIN relocs
         /\ \E b \in Seq(S!Byte) :
              Len(b) = 2 /\ S!WriteBlock(relocs[pc].section, relocs[pc].offset, b)
         /\ error_count' \in Nat /\ warning_count' \in Nat
<1> DEFINE r == relocs[pc]
<1>1. pc \in DOMAIN relocs /\ error_count \in Nat /\ warning_count \in Nat
  BY RelocatePatches DEF BaseInv, CountsOK
<1>2. PICK v, errors, warnings : Patches(r, v, errors, warnings)
  BY RelocatePatches
<1> DEFINE w == PatchField(WordAt(Contents(r.section), r.offset), r.position, r.width, v)
           b == Bytes(w, 2)
<1>3. /\ errors \in Nat /\ warnings \in Nat /\ v \in Int
      /\ S!WriteBlock(r.section, r.offset, b)
      /\ error_count' = error_count + errors /\ warning_count' = warning_count + warnings
  BY <1>2 DEF Patches
<1>4. b \in Seq(S!Byte) /\ Len(b) = 2
  <2>1. /\ r.section \in DOMAIN table /\ r.offset \in Nat
        /\ r.position \in {0, 4} /\ r.width \in (1 .. 6) \cup {8, 16}
    BY <1>1, RelocFields
  <2>2. WordAt(Contents(r.section), r.offset) \in Int
    <3>1. WordAt(Contents(r.section), r.offset) \in Nat
      BY <2>1, WordType DEF BaseInv
    <3> QED BY <3>1
  <2>3. w \in Int
    <3> HIDE DEF r
    <3> QED BY <1>3, <2>1, <2>2, PatchType
  <2> HIDE DEF w
  <2> QED BY <2>3, WordBytes
<1> QED
  <2>1. error_count' \in Nat /\ warning_count' \in Nat
    BY <1>1, <1>3
  <2> HIDE DEF b
  <2> QED BY <1>1, <1>3, <1>4, <2>1

LEMMA RelocateInv ==
  ASSUME BaseInv, Relocate
  PROVE  BaseInv'
<1> DEFINE r == relocs[pc]
<1>1. pc \in DOMAIN relocs /\ error_count' \in Nat /\ warning_count' \in Nat
  BY RelocateWrites
<1>2. PICK b \in Seq(S!Byte) : Len(b) = 2 /\ S!WriteBlock(r.section, r.offset, b)
  BY RelocateWrites
<1>5. TableOK' /\ TableGrows /\ DOMAIN table' = DOMAIN table
  BY <1>1, <1>2, PatchTable
<1>6. /\ pc' = pc + 1
      /\ UNCHANGED <<symbols, ast, relocs, locateVars, phase, endVars>>
  BY DEF Relocate
<1>7. /\ SymbolsOK' /\ AstOK'
      /\ \A m \in Reloc : RelocFits(m) => RelocFits(m)'
  BY <1>5, <1>6, PlacesKept
<1>8. RelocsOK'
  BY <1>6, <1>7 DEF BaseInv, RelocsOK
<1>9. CountsOK'
  BY <1>1, <1>6 DEF BaseInv, CountsOK
<1>10. SourceOK' /\ BasesOK'
  BY <1>5, <1>6 DEF BaseInv, SourceOK, BasesOK, endVars, locateVars, Succeeded
<1> QED BY <1>5, <1>7, <1>8, <1>9, <1>10 DEF BaseInv

-----------------------------------------------------------------------------
\* The other steps leave sections, labels, statements and relocations alone.

Quiet == UNCHANGED <<sectionVars, symbols, ast, relocs>>

LEMMA QuietKeepsPlaces ==
  ASSUME BaseInv, Quiet
  PROVE  TableOK' /\ SymbolsOK' /\ AstOK' /\ RelocsOK'
<1>1. UNCHANGED <<table, current_section>> /\ UNCHANGED <<symbols, ast, relocs>>
  BY DEF Quiet, sectionVars
<1>2. TableOK'
  BY <1>1 DEF BaseInv, TableOK, S!TypeOK, S!TableWellFormed
<1>3. TableOK /\ TableGrows
  BY <1>1, TableTypes DEF BaseInv, TableGrows, Contents
<1>4. /\ SymbolsOK' /\ AstOK'
      /\ \A r \in Reloc : RelocFits(r) => RelocFits(r)'
  BY <1>1, <1>2, <1>3, PlacesKept
<1>5. RelocsOK'
  BY <1>1, <1>4 DEF BaseInv, RelocsOK
<1> QED BY <1>2, <1>4, <1>5

\* The locator gives every section a number for address.
LEMMA PlaceSectionTypes ==
  ASSUME BaseInv, LocateSection
  PROVE  BasesOK'
<1> DEFINE sections == [s \in DOMAIN table |->
                          [name |-> table[s].name, size |-> Len(table[s].contents)]]
           base == [base_address EXCEPT ![next] = L!Requested(next)]
           e == L!End(base, next)
<1>1. /\ L!PlaceSection /\ phase = "locate" /\ UNCHANGED <<table, phase, result>>
  BY DEF LocateSection, sectionVars, endVars
<1>2. /\ next <= Len(sections) /\ base_address' = base
      /\ current_address' = L!Align(e) /\ next' = next + 1
  BY <1>1 DEF L!PlaceSection
<1>3. /\ base_address \in [DOMAIN table -> Nat] /\ current_address \in Nat
      /\ next \in Nat \ {0} /\ DOMAIN table = 1 .. Len(table) /\ Len(table) \in Nat
      /\ \A name \in DOMAIN section_addresses : section_addresses[name] \in Nat
  BY <1>1, TableTypes DEF BaseInv, BasesOK, SourceOK
<1>4. Len(sections) = Len(table)
  BY <1>3
<1>5. next \in DOMAIN table
  BY <1>2, <1>3, <1>4
<1>6. L!Requested(next) \in Nat
  BY <1>3 DEF L!Requested
<1>7. base \in [DOMAIN table -> Nat] /\ base[next] \in Nat
  <2> HIDE DEF sections
  <2> QED BY <1>3, <1>5, <1>6
<1>8. e \in Nat
  <2>1. e = base[next] + sections[next].size
    BY DEF L!End
  <2>2. sections[next].size = Len(Contents(next))
    BY <1>5 DEF Contents
  <2>3. Len(Contents(next)) \in Nat
    BY <1>5, TableTypes DEF BaseInv
  <2> HIDE DEF e, base, sections
  <2> QED BY <1>7, <2>1, <2>2, <2>3
<1>9. L!Align(e) \in Nat
  <2> HIDE DEF e
  <2>1. (e + 1) % AddressLimit \in Nat
    BY <1>8, RangeAssumption
  <2> DEFINE m == (e + 1) % AddressLimit
  <2>2. L!Align(e) = (m \div 2) * 2
    BY DEF L!Align
  <2> HIDE DEF m
  <2>3. m \in Nat
    BY <2>1 DEF m
  <2> QED BY <2>2, <2>3
<1>10. base_address' \in [DOMAIN table' -> Nat]
  BY <1>1, <1>2, <1>7
<1>11. current_address' \in Nat /\ next' \in Nat \ {0}
  BY <1>2, <1>3, <1>9
<1> QED BY <1>10, <1>11 DEF BasesOK

LEMMA QuietInv ==
  ASSUME BaseInv,
         \/ SyntaxError \/ EndOfFile \/ VisitOther \/ EndOfCode
         \/ LocateSection \/ OverlapExit \/ EndOfLocation
         \/ EndOfRelocation \/ LoadSection \/ WriteOutput \/ UNCHANGED vars
  PROVE  BaseInv' /\ Quiet
<1> USE DEF sectionVars, locateVars, endVars, reports
<1>1. Quiet
  BY DEF SyntaxError, EndOfFile, VisitOther, EndOfCode, LocateSection, OverlapExit,
         EndOfLocation, EndOfRelocation, LoadSection, WriteOutput, vars, Quiet
<1>2. SourceOK'
  BY DEF SyntaxError, EndOfFile, VisitOther, EndOfCode, LocateSection, OverlapExit,
         EndOfLocation, EndOfRelocation, LoadSection, WriteOutput, vars, GoTo,
         L!PlaceSection, L!OverlapExit, L!Finish, L!inputs, BaseInv, SourceOK
<1>3. CountsOK'
  <2>1. Count(empty_warnings' # empty_warnings) \in Nat
    BY DEF Count
  <2> QED BY <2>1
        DEF SyntaxError, EndOfFile, VisitOther, EndOfCode, LocateSection, OverlapExit,
            EndOfLocation, EndOfRelocation, LoadSection, WriteOutput, vars, GoTo,
            BaseInv, CountsOK
<1>4. BasesOK'
  <2> USE DEF BaseInv, BasesOK, Succeeded
  <2>1. CASE SyntaxError
    BY <2>1 DEF SyntaxError
  <2>2. CASE EndOfFile
    BY <2>2 DEF EndOfFile, GoTo
  <2>3. CASE VisitOther
    BY <2>3 DEF VisitOther
  <2>4. CASE EndOfCode
    BY <2>4 DEF EndOfCode, GoTo
  <2>5. CASE LocateSection
    BY <2>5, PlaceSectionTypes
  <2>6. CASE OverlapExit
    BY <2>6 DEF OverlapExit, L!OverlapExit
  <2>7. CASE EndOfLocation
    BY <2>7 DEF EndOfLocation, GoTo, L!Finish
  <2>8. CASE EndOfRelocation
    BY <2>8 DEF EndOfRelocation, GoTo
  <2>9. CASE LoadSection
    BY <2>9 DEF LoadSection
  <2>10. CASE WriteOutput
    BY <2>10 DEF WriteOutput
  <2>11. CASE UNCHANGED vars
    BY <2>11 DEF vars
  <2> QED BY <2>1, <2>2, <2>3, <2>4, <2>5, <2>6, <2>7, <2>8, <2>9, <2>10, <2>11
<1> QED BY <1>1, <1>2, <1>3, <1>4, QuietKeepsPlaces DEF BaseInv

\* The steps of the program, by what they do to the section table.
LEMMA StepKinds ==
  ASSUME [Next]_vars
  PROVE  \/ ParseLine \/ Visits \/ Relocate
         \/ SyntaxError \/ EndOfFile \/ VisitOther \/ EndOfCode
         \/ LocateSection \/ OverlapExit \/ EndOfLocation
         \/ EndOfRelocation \/ LoadSection \/ WriteOutput \/ UNCHANGED vars
BY DEF Next, Generate, Locate, Visits

LEMMA VisitPhase ==
  ASSUME Visits
  PROVE  phase = "generate" /\ pc <= Len(ast)
BY DEF Visits, VisitInstruction, VisitLoadRelative, VisitBranch, VisitShift, VisitData,
       VisitSpace, VisitAlign, Visiting

LEMMA BaseNext == BaseInv /\ [Next]_vars => BaseInv'
<1> SUFFICES ASSUME BaseInv, [Next]_vars
             PROVE  BaseInv'
  OBVIOUS
<1>1. CASE ParseLine
  BY <1>1, ParseInv
<1>2. CASE Visits
  BY <1>2, VisitPhase, VisitsAreFit, VisitInv
<1>3. CASE Relocate
  BY <1>3, RelocateInv
<1> QED BY <1>1, <1>2, <1>3, StepKinds, QuietInv

LEMMA BaseInit == Init => BaseInv
<1> SUFFICES ASSUME Init PROVE BaseInv
  OBVIOUS
<1>1. TableOK
  <2>1. SP!Init
    BY DEF Init, S!Init, SP!Init, S!NewSection, SP!NewSection, S!FlagsOf, SP!FlagsOf
  <2> QED BY <2>1, SectionsAssumptions, SP!InitInv, SameTable
<1>2. SourceOK
  <2>1. PICK program \in Programs : /\ source = program.lines
                                    /\ section_addresses = program.addresses
    BY DEF Init
  <2>2. \A a \in 0 .. AddressLimit - 1 : a \in Nat
    BY RangeAssumption
  <2> QED BY <2>1, <2>2, ProgramsAssumption DEF SourceOK
<1>3. SymbolsOK
  <2>1. symbols = [l \in Labels |-> Undefined]
    BY DEF Init
  <2>2. Undefined \in Entry
    BY DEF Undefined, Entry
  <2> QED BY <2>1, <2>2 DEF SymbolsOK, SymbolsTyped, Defined
<1>4. AstOK /\ RelocsOK /\ CountsOK /\ BasesOK
  BY DEF Init, AstOK, RelocsOK, CountsOK, BasesOK, Succeeded
<1> QED BY <1>1, <1>2, <1>3, <1>4 DEF BaseInv

-----------------------------------------------------------------------------
\* Errors and the output files.

ErrorInv == /\ phase # "exit" => output = "old" /\ result = 0
            /\ phase = "load" => error_count = 0
            /\ ErrorsStopOutput

LEMMA ErrorNext == BaseInv /\ ErrorInv /\ [Next]_vars => ErrorInv'
<1> SUFFICES ASSUME BaseInv, ErrorInv, [Next]_vars
             PROVE  ErrorInv'
  OBVIOUS
<1>0. error_count \in Nat /\ warning_count \in Nat
  BY DEF BaseInv, CountsOK
<1> USE <1>0 DEF ErrorInv, ErrorsStopOutput, endVars, reports
<1>1. CASE ParseLine
  BY <1>1 DEF ParseLine
<1>2. CASE Visits
  <2>1. AVisit /\ phase = "generate"
    BY <1>2, VisitPhase, VisitsAreFit
  <2>2. UNCHANGED <<phase, endVars>>
    BY <2>1 DEF AVisit, VisitFits, Visited, VisitedAt
  <2> QED BY <2>1, <2>2
<1>3. CASE Relocate
  BY <1>3 DEF Relocate
<1>4. CASE SyntaxError
  BY <1>4 DEF SyntaxError
<1>5. CASE EndOfFile \/ EndOfCode \/ EndOfLocation \/ EndOfRelocation
  <2>1. /\ phase # "exit"
        /\ \E p \in {"generate", "locate", "relocate", "load"} : GoTo(p)
    BY <1>5 DEF EndOfFile, EndOfCode, EndOfLocation, EndOfRelocation
  <2>2. PICK p \in {"generate", "locate", "relocate", "load"} : GoTo(p)
    BY <2>1
  <2> QED BY <2>1, <2>2 DEF GoTo
<1>6. CASE VisitOther \/ LoadSection
  BY <1>6 DEF VisitOther, LoadSection
<1>7. CASE LocateSection
  BY <1>7 DEF LocateSection
<1>8. CASE OverlapExit
  BY <1>8 DEF OverlapExit
<1>9. CASE WriteOutput
  BY <1>9 DEF WriteOutput, ExitStatus
<1>10. CASE UNCHANGED vars
  BY <1>10 DEF vars
<1> QED BY <1>1, <1>2, <1>3, <1>4, <1>5, <1>6, <1>7, <1>8, <1>9, <1>10, StepKinds

LEMMA ErrorInit == Init => ErrorInv
BY DEF Init, ErrorInv, ErrorsStopOutput

\* Whatever the program and the -s options, the output files are replaced only
\* by a run without errors, and the exit status tells errors from warnings.
THEOREM OutputFollowsErrors == Spec => []ErrorsStopOutput
<1>1. Init => BaseInv /\ ErrorInv
  BY BaseInit, ErrorInit
<1>2. BaseInv /\ ErrorInv /\ [Next]_vars => (BaseInv /\ ErrorInv)'
  BY BaseNext, ErrorNext
<1>3. BaseInv /\ ErrorInv => ErrorsStopOutput
  BY DEF ErrorInv
<1> QED BY <1>1, <1>2, <1>3, PTL DEF Spec

-----------------------------------------------------------------------------
\* Visits and the bytes they may change.

VisitStep ==
  phase = "generate" =>
    \A s \in DOMAIN table :
      /\ Len(table'[s].contents) = Len(Contents(s))
      /\ \A i \in DOMAIN Contents(s) :
           table'[s].contents[i] # Contents(s)[i] =>
             pc <= Len(ast) /\ This.section = s /\ i \in Extent(pc)

LEMMA VisitsWriteTheirExtent ==
  ASSUME BaseInv, Visits
  PROVE  /\ VisitStep /\ \E b : InPlace(b)
         /\ UNCHANGED <<ast, symbols, locateVars, phase, endVars>>
<1>1. AVisit /\ pc <= Len(ast)
  BY VisitPhase, VisitsAreFit
<1>2. PICK b, new, errors, warnings : VisitFits(b, new, errors, warnings)
  BY <1>1 DEF AVisit
<1>3. /\ b \in Seq(S!Byte) /\ Len(b) <= This.size
      /\ S!WriteBlock(This.section, This.offset, b)
      /\ UNCHANGED <<ast, symbols, locateVars, phase, endVars>>
  BY <1>2 DEF VisitFits, Visited, VisitedAt
<1>4. InPlace(b)
  BY <1>1, <1>3, VisitIsInPlace
<1>5. ASSUME NEW s \in DOMAIN table, NEW i \in DOMAIN Contents(s),
             table'[s].contents[i] # Contents(s)[i]
      PROVE  This.section = s /\ i \in Extent(pc)
  <2>1. This.section = s
    BY <1>4, <1>5 DEF InPlace, Contents
  <2>2. i \in 1 .. Len(Contents(s)) /\ i \in Nat
    BY TableTypes DEF BaseInv
  <2>3. i > This.offset /\ i <= This.offset + Len(b)
    BY <1>4, <1>5, <2>1, <2>2 DEF InPlace
  <2>4. This.offset \in Nat /\ This.size \in Nat /\ Len(b) \in Nat
    BY <1>1, <1>3, ThisFits
  <2>5. i \in This.offset + 1 .. This.offset + This.size
    BY <1>3, <2>2, <2>3, <2>4
  <2> QED BY <2>1, <2>5 DEF Extent, This
<1> QED BY <1>1, <1>3, <1>4, <1>5 DEF VisitStep, InPlace

LEMMA VisitStepHolds == BaseInv /\ [Next]_vars => VisitStep \/ UNCHANGED vars
<1> SUFFICES ASSUME BaseInv, Next, phase = "generate"
             PROVE  VisitStep
  BY DEF VisitStep
<1>1. CASE Visits
  BY <1>1, VisitsWriteTheirExtent
<1>2. CASE VisitOther \/ EndOfCode
  <2>1. table' = table
    BY <1>2 DEF VisitOther, EndOfCode, sectionVars
  <2> QED BY <2>1 DEF VisitStep, Contents
<1> QED BY <1>1, <1>2
        DEF Next, Generate, Visits, ParseLine, SyntaxError, EndOfFile, Locate,
            LocateSection, OverlapExit, EndOfLocation, Relocate, EndOfRelocation,
            LoadSection, WriteOutput

\* A visit never resizes a section and never writes outside the bytes its
\* statement reserved, whatever the operands have become since.
THEOREM VisitsKeepToTheirBytes == Spec => VisitsStayInTheirStatement
<1>1. BaseInv /\ [Next]_vars => [VisitStep]_vars
  BY VisitStepHolds
<1>2. Spec => []BaseInv
  BY BaseInit, BaseNext, PTL DEF Spec
<1>3. Spec => [][VisitStep]_vars
  BY <1>1, <1>2, PTL DEF Spec
<1> QED BY <1>3 DEF VisitsStayInTheirStatement, VisitStep
-----------------------------------------------------------------------------
\* Every byte of a section belongs to one statement.

Owns(n, s, i) == n.section = s /\ i > n.offset /\ i <= n.offset + n.size

OneOwner ==
  \A s \in DOMAIN table : \A i \in DOMAIN Contents(s) :
    \E j \in DOMAIN ast : /\ Owns(ast[j], s, i)
                          /\ \A k \in DOMAIN ast : Owns(ast[k], s, i) => k = j

TileInv == phase \in {"parse", "generate", "locate"} => OneOwner

LEMMA ContentsAfter ==
  ASSUME TableOK', NEW s \in DOMAIN table'
  PROVE  /\ table'[s].contents \in Seq(S!Byte) /\ Len(table'[s].contents) \in Nat
         /\ DOMAIN table'[s].contents = 1 .. Len(table'[s].contents)
<1>1. table' \in Seq(S!Section)
  BY DEF TableOK, S!TypeOK
<1>2. table'[s] \in S!Section
  BY <1>1
<1>3. table'[s].contents \in Seq(S!Byte)
  BY <1>2 DEF S!Section
<1> QED BY <1>3

LEMMA OwnedExtent ==
  ASSUME AstOK, NEW j \in DOMAIN ast, NEW s, NEW i \in Nat
  PROVE  Owns(ast[j], s, i) <=> ast[j].section = s /\ i \in Extent(j)
<1>1. ast[j] \in Nodes
  BY DEF AstOK
<1>2. ast[j].offset \in Nat /\ ast[j].size \in Nat
  BY <1>1 DEF Nodes
<1> QED BY <1>2 DEF Owns, Extent

LEMMA ParseTiles ==
  ASSUME BaseInv, OneOwner, ParseLine
  PROVE  OneOwner'
<1>1. PICK n \in Nodes : AddsNode(n)
  BY ParseAdds
<1>2. /\ TableOK /\ TableOK' /\ AstOK /\ ast \in Seq(Nodes)
      /\ Lengthens(n.section, n.offset, n.size) /\ ast' = Append(ast, n)
  BY <1>1, ParseAdds DEF AddsNode, BaseInv, AstOK
<1>3. /\ DOMAIN ast' = 1 .. Len(ast) + 1 /\ DOMAIN ast = 1 .. Len(ast) /\ Len(ast) \in Nat
      /\ ast'[Len(ast) + 1] = n /\ \A j \in DOMAIN ast : ast'[j] = ast[j]
  BY <1>2, AppendedNode
<1>4. n.offset \in Nat /\ n.size \in Nat
  BY DEF Nodes
<1> SUFFICES ASSUME NEW s \in DOMAIN table', NEW i \in DOMAIN table'[s].contents
             PROVE  \E j \in DOMAIN ast' :
                      /\ Owns(ast'[j], s, i)
                      /\ \A k \in DOMAIN ast' : Owns(ast'[k], s, i) => k = j
  BY Zenon DEF OneOwner, Contents
<1>5. i \in Nat /\ i >= 1 /\ i <= Len(table'[s].contents)
  <2>1. /\ Len(table'[s].contents) \in Nat
        /\ DOMAIN table'[s].contents = 1 .. Len(table'[s].contents)
    BY <1>2, ContentsAfter
  <2> QED BY <2>1
<1>6. Len(table'[s].contents) = IF s = n.section THEN n.offset + n.size
                                ELSE IF s \in DOMAIN table THEN Len(Contents(s)) ELSE 0
  BY <1>2 DEF Lengthens
<1>7. CASE s = n.section /\ i > n.offset
  <2>1. Owns(n, s, i)
    BY <1>5, <1>6, <1>7 DEF Owns
  <2>2. ASSUME NEW k \in DOMAIN ast, Owns(ast[k], s, i)
        PROVE  FALSE
    <3>1. /\ NodeFits(ast[k]) /\ ast[k] \in Nodes
      BY <1>2 DEF AstOK
    <3>2. /\ s \in DOMAIN table /\ ast[k].offset + ast[k].size <= Len(Contents(s))
          /\ ast[k].offset \in Nat /\ ast[k].size \in Nat /\ i <= ast[k].offset + ast[k].size
      BY <2>2, <3>1 DEF Owns, NodeFits, Nodes
    <3>3. Len(Contents(s)) = n.offset
      BY <1>2, <1>7, <3>2 DEF Lengthens
    <3> QED BY <1>4, <1>5, <1>7, <3>2, <3>3
  <2>3. \A k \in DOMAIN ast' : Owns(ast'[k], s, i) => k = Len(ast) + 1
    <3>1. \A k \in DOMAIN ast' : k \in DOMAIN ast \/ k = Len(ast) + 1
      BY <1>3
    <3> QED BY <1>3, <2>2, <3>1, Zenon
  <2>4. Len(ast) + 1 \in DOMAIN ast'
    BY <1>3
  <2> QED BY <1>3, <2>1, <2>3, <2>4, Zenon
<1>8. CASE ~(s = n.section /\ i > n.offset)
  <2>1. s \in DOMAIN table /\ i \in DOMAIN Contents(s)
    <3>1. s \in DOMAIN table
      BY <1>2, <1>4, <1>5, <1>6, <1>8 DEF Lengthens
    <3>2. DOMAIN Contents(s) = 1 .. Len(Contents(s)) /\ Len(Contents(s)) \in Nat
      BY <1>2, <3>1, TableTypes
    <3>3. i <= Len(Contents(s))
      <4>1. CASE s = n.section
        <5>1. Len(Contents(s)) = n.offset
          BY <1>2, <3>1, <4>1 DEF Lengthens
        <5> QED BY <1>4, <1>5, <1>8, <4>1, <5>1
      <4>2. CASE s # n.section
        BY <1>5, <1>6, <3>1, <4>2
      <4> QED BY <4>1, <4>2
    <3> QED BY <1>5, <3>1, <3>2, <3>3
  <2>2. PICK j \in DOMAIN ast : /\ Owns(ast[j], s, i)
                                /\ \A k \in DOMAIN ast : Owns(ast[k], s, i) => k = j
    BY <2>1, Zenon DEF OneOwner
  <2>3. ~Owns(n, s, i)
    BY <1>4, <1>5, <1>8 DEF Owns
  <2>4. \A k \in DOMAIN ast' : k \in DOMAIN ast \/ k = Len(ast) + 1
    BY <1>3
  <2>5. j \in DOMAIN ast'
    BY <1>3
  <2> QED BY <1>3, <2>2, <2>3, <2>4, <2>5, Zenon
<1> QED BY <1>7, <1>8

LEMMA TileNext == BaseInv /\ TileInv /\ [Next]_vars => TileInv'
<1> SUFFICES ASSUME BaseInv, TileInv, [Next]_vars, phase' \in {"parse", "generate", "locate"}
             PROVE  OneOwner'
  BY DEF TileInv
<1>1. CASE ParseLine
  BY <1>1, ParseTiles DEF TileInv, ParseLine
<1>2. CASE Visits
  <2>1. PICK b : InPlace(b)
    BY <1>2, VisitsWriteTheirExtent
  <2>2. ast' = ast /\ phase = "generate"
    BY <1>2, VisitsWriteTheirExtent, VisitPhase
  <2>3. /\ DOMAIN table' = DOMAIN table /\ TableOK /\ TableOK'
        /\ \A s \in DOMAIN table : Len(table'[s].contents) = Len(Contents(s))
    BY <2>1 DEF InPlace, BaseInv
  <2>4. \A s \in DOMAIN table : DOMAIN table'[s].contents = DOMAIN Contents(s)
    <3>1. ASSUME NEW s \in DOMAIN table
          PROVE  DOMAIN table'[s].contents = 1 .. Len(table'[s].contents)
      BY <2>3, <3>1, ContentsAfter
    <3>2. \A s \in DOMAIN table : DOMAIN Contents(s) = 1 .. Len(Contents(s))
      BY <2>3, TableTypes
    <3> QED BY <2>3, <3>1, <3>2
  <2>5. OneOwner
    BY <2>2 DEF TileInv
  <2> QED BY <2>2, <2>3, <2>4, <2>5, Zenon DEF OneOwner, Contents
<1>3. CASE Relocate
  BY <1>3 DEF Relocate
<1>4. CASE Quiet
  <2>1. phase \in {"parse", "generate", "locate"}
    <3>1. phase \notin {"parse", "generate", "locate"} => phase' = phase \/ phase' \in {"load", "exit"}
      BY StepKinds, VisitPhase
         DEF ParseLine, Relocate, SyntaxError, EndOfFile, VisitOther, EndOfCode,
             LocateSection, OverlapExit, EndOfLocation, EndOfRelocation, LoadSection,
             WriteOutput, vars, GoTo, endVars, reports
    <3> QED BY <3>1
  <2>2. OneOwner /\ ast' = ast /\ table' = table
    BY <1>4, <2>1 DEF TileInv, Quiet, sectionVars
  <2> QED BY <2>2 DEF OneOwner, Contents
<1> QED BY <1>1, <1>2, <1>3, <1>4, StepKinds, QuietInv

LEMMA TileInit == Init => TileInv
<1> SUFFICES ASSUME Init PROVE OneOwner
  BY DEF TileInv
<1>1. ASSUME NEW s \in DOMAIN table PROVE Contents(s) = <<>>
  BY <1>1 DEF Init, S!Init, S!NewSection, Contents
<1> QED BY <1>1 DEF OneOwner

LEMMA TileCounts == BaseInv /\ TileInv => ReservedBytesTileSections
<1> SUFFICES ASSUME BaseInv, OneOwner, NEW s \in DOMAIN table, NEW i \in DOMAIN Contents(s)
             PROVE  Cardinality({j \in DOMAIN ast : ast[j].section = s /\ i \in Extent(j)}) = 1
  BY DEF TileInv, ReservedBytesTileSections, Tiled
<1>1. i \in Nat /\ AstOK
  <2>1. DOMAIN Contents(s) = 1 .. Len(Contents(s)) /\ Len(Contents(s)) \in Nat
    BY TableTypes DEF BaseInv
  <2> QED BY <2>1 DEF BaseInv
<1>2. PICK j \in DOMAIN ast : /\ Owns(ast[j], s, i)
                              /\ \A k \in DOMAIN ast : Owns(ast[k], s, i) => k = j
  BY Zenon DEF OneOwner
<1>3. {k \in DOMAIN ast : ast[k].section = s /\ i \in Extent(k)} = {j}
  BY <1>1, <1>2, OwnedExtent, Zenon
<1> QED BY <1>3, FS_Singleton

\* Whatever the sections a source goes back and forth between, when the parser
\* has reserved the bytes each one belongs to exactly one statement.
THEOREM StatementsTileSections == Spec => []ReservedBytesTileSections
<1>1. Init => BaseInv /\ TileInv
  BY BaseInit, TileInit
<1>2. BaseInv /\ TileInv /\ [Next]_vars => (BaseInv /\ TileInv)'
  BY BaseNext, TileNext
<1> QED BY <1>1, <1>2, TileCounts, PTL DEF Spec
-----------------------------------------------------------------------------
\* The run, seen from the section table.

LEMMA SameStore ==
  /\ S!Store!Init <=> SP!Store!Init
  /\ \A n : S!Store!Select(n) <=> SP!Store!Select(n)
  /\ \A n : S!Store!Patch(n) <=> SP!Store!Patch(n)
  /\ S!Store!Extend <=> SP!Store!Extend
<1>1. \A tb, name : S!BodyIn(tb, name) = SP!BodyIn(tb, name)
  BY DEF S!BodyIn, SP!BodyIn
<1>2. S!Store!Byte = SP!Store!Byte
  BY DEF S!Store!Byte, SP!Store!Byte
<1>3. S!Store!Init <=> SP!Store!Init
  BY <1>1 DEF S!Store!Init, SP!Store!Init
<1>4. \A n : S!Store!Select(n) <=> SP!Store!Select(n)
  BY <1>1 DEF S!Store!Select, SP!Store!Select
<1>5. \A n : S!Store!OnlyBody(n) <=> SP!Store!OnlyBody(n)
  BY <1>1, <1>2 DEF S!Store!OnlyBody, SP!Store!OnlyBody
<1>6. \A n : S!Store!Patch(n) <=> SP!Store!Patch(n)
  BY <1>1, <1>5 DEF S!Store!Patch, SP!Store!Patch
<1>7. S!Store!Extend <=> SP!Store!Extend
  BY <1>1, <1>5 DEF S!Store!Extend, SP!Store!Extend
<1> QED BY <1>3, <1>4, <1>6, <1>7

\* A line moves the current section or adds bytes at its end.
LEMMA ParseConstructs ==
  ASSUME BaseInv, ParseLine
  PROVE  \/ \E name \in Names : S!SetSection(name)
         \/ \E b \in Seq(S!Byte) : S!AppendBlock(b)
<1> DEFINE line == source[Len(ast) + 1]
           stmt == line.stmt
           size == SizeOf(stmt, Len(Contents(current_section)))
<1>1. Construct(stmt) /\ Len(ast) < Len(source)
  BY DEF ParseLine
<1>2. stmt \in Statement /\ StatementKinds(stmt)
  <2>1. Len(ast) \in Nat /\ Len(source) \in Nat /\ source \in Seq(SourceLine)
    BY DEF BaseInv, AstOK, SourceOK
  <2>2. line \in SourceLine
    <3>1. Len(ast) + 1 \in 1 .. Len(source)
      BY <1>1, <2>1
    <3> QED BY <2>1, <3>1
  <2> HIDE DEF line
  <2> QED BY <2>2, StatementFields DEF SourceLine
<1> HIDE DEF line
<1>3. size \in Nat
  <2>1. TableOK /\ SymbolsTyped
    BY DEF BaseInv, SymbolsOK
  <2>2. Len(Contents(current_section)) \in Nat
    BY <2>1, TableTypes
  <2> HIDE DEF stmt
  <2> QED BY <1>2, <2>1, <2>2, SizeType
<1> HIDE DEF stmt
<1>4. CASE stmt.op = "section"
  BY <1>1, <1>2, <1>4, Zenon DEF Construct, StatementKinds
<1>5. CASE stmt.op = "ascii"
  BY <1>1, <1>2, <1>5, Zenon DEF Construct, StatementKinds
<1>6. CASE stmt.op \notin {"section", "ascii"}
  <2>1. S!AppendBlock(S!Repeat(S!Filler, size))
    BY <1>1, <1>6, Zenon DEF Construct, S!Increase
  <2>2. S!Filler \in S!Byte
    BY DEF S!Filler, S!Byte
  <2> HIDE DEF size
  <2> QED BY <1>3, <2>1, <2>2, RepeatedByte
<1> QED BY <1>4, <1>5, <1>6

\* A block written where a section has bytes patches the body of its name.
LEMMA WritePatches ==
  ASSUME TableOK, NEW s \in DOMAIN table, NEW o \in Nat, NEW b \in Seq(S!Byte),
         o + Len(b) <= Len(Contents(s)), S!WriteBlock(s, o, b)
  PROVE  S!Store!Next
<1>1. SP!IInv /\ b \in Seq(SP!Byte) /\ SP!WriteBlock(s, o, b)
  BY SameTable, SameOperations
<1>2. o + Len(b) <= Len(table[s].contents)
  BY DEF Contents
<1>3. \E n \in Names : SP!Store!Patch(n)
  BY <1>1, <1>2, SectionsAssumptions, SP!WriteBlockPatches
<1> QED BY <1>3, SameStore DEF S!Store!Next

StoreStep == [S!Store!Next \/ RelocatesLastByte]_sectionVars

LEMMA ParseStores ==
  ASSUME BaseInv, ParseLine
  PROVE  S!Store!Next
<1>1. TableOK /\ SP!IInv
  BY SameTable DEF BaseInv
<1>2. ASSUME NEW name \in Names, S!SetSection(name)
      PROVE  S!Store!Next
  <2>1. SP!SetSection(name)
    BY <1>2, SameOperations
  <2>2. SP!body' = SP!body /\ SP!here' = name
    BY <1>1, <2>1, SectionsAssumptions, SP!SetSectionBody
  <2>3. SP!Store!Select(name)
    BY <2>2 DEF SP!Store!Select, SP!body, SP!here
  <2> QED BY <2>3, SameStore DEF S!Store!Next
<1>3. ASSUME NEW b \in Seq(S!Byte), S!AppendBlock(b)
      PROVE  S!Store!Next
  <2>1. SP!AppendBlock(b) /\ b \in Seq(SP!Byte)
    BY <1>3, SameOperations, SameTable
  <2>2. SP!Store!Extend
    BY <1>1, <2>1, SectionsAssumptions, SP!AppendBlockExtends
  <2> QED BY <2>2, SameStore DEF S!Store!Next
<1> QED BY <1>2, <1>3, ParseConstructs

LEMMA RelocateStores ==
  ASSUME BaseInv, Relocate
  PROVE  S!Store!Next \/ RelocatesLastByte
<1> DEFINE r == relocs[pc]
<1>1. PICK b \in Seq(S!Byte) : Len(b) = 2 /\ S!WriteBlock(r.section, r.offset, b)
  BY RelocateWrites
<1>2. /\ pc \in DOMAIN relocs /\ phase = "relocate" /\ pc <= Len(relocs)
  BY RelocateWrites DEF Relocate
<1>3. /\ r.section \in DOMAIN table /\ r.section \in Nat
      /\ r.offset \in Nat /\ Len(Contents(r.section)) \in Nat /\ TableOK
  BY <1>2, RelocFields, TableTypes DEF BaseInv
<1>4. CASE r.offset + 2 <= Len(Contents(r.section))
  <2> HIDE DEF r
  <2> QED BY <1>1, <1>3, <1>4, WritePatches
<1>5. CASE ~(r.offset + 2 <= Len(Contents(r.section)))
  <2> DEFINE n == Len(Contents(r.section))
  <2>1. /\ Len(table'[r.section].contents) = IF r.offset + 2 <= n THEN n ELSE n + 1
        /\ r.offset + 2 > n => r.width = 8 /\ r.offset + 1 = n
        /\ \A t \in DOMAIN table : t # r.section => table'[t] = table[t]
    BY <1>1, <1>2, PatchTable
  <2>2. r.width = 8 /\ r.offset + 1 = n /\ Len(table'[r.section].contents) = n + 1
    <3> HIDE DEF r, n
    <3> QED BY <1>3, <1>5, <2>1 DEF n
  <2>3. ASSUME NEW s \in DOMAIN table
        PROVE  Len(table'[s].contents) = Len(Contents(s)) + Count(s = r.section)
    <3>1. CASE s = r.section
      BY <2>2, <3>1 DEF Count
    <3>2. CASE s # r.section
      <4>1. Len(table'[s].contents) = Len(Contents(s)) /\ Len(Contents(s)) \in Nat
        BY <1>3, <2>1, <3>2, TableTypes DEF Contents
      <4>2. Count(s = r.section) = 0
        BY <3>2 DEF Count
      <4> QED BY <4>1, <4>2
    <3> QED BY <3>1, <3>2
  <2> QED BY <1>2, <2>2, <2>3 DEF RelocatesLastByte
<1> QED BY <1>4, <1>5

LEMMA StoreStepHolds == BaseInv /\ [Next]_vars => StoreStep
<1> SUFFICES ASSUME BaseInv, [Next]_vars
             PROVE  S!Store!Next \/ RelocatesLastByte \/ UNCHANGED sectionVars
  BY DEF StoreStep
<1>1. CASE ParseLine
  BY <1>1, ParseStores
<1>2. CASE Visits
  <2>1. AVisit /\ pc <= Len(ast)
    BY <1>2, VisitPhase, VisitsAreFit
  <2>2. PICK b, new, errors, warnings : VisitFits(b, new, errors, warnings)
    BY <2>1 DEF AVisit
  <2>3. /\ b \in Seq(S!Byte) /\ Len(b) <= This.size
        /\ S!WriteBlock(This.section, This.offset, b)
    BY <2>2 DEF VisitFits, Visited, VisitedAt
  <2>4. /\ This.section \in DOMAIN table /\ This.offset \in Nat /\ This.size \in Nat
        /\ This.offset + This.size <= Len(Contents(This.section))
        /\ Len(Contents(This.section)) \in Nat /\ TableOK
    BY <2>1, ThisFits DEF BaseInv
  <2>5. This.offset + Len(b) <= Len(Contents(This.section))
    BY <2>3, <2>4
  <2> QED BY <2>3, <2>4, <2>5, WritePatches
<1>3. CASE Relocate
  BY <1>3, RelocateStores
<1>4. CASE Quiet
  BY <1>4 DEF Quiet, sectionVars
<1> QED BY <1>1, <1>2, <1>3, <1>4, StepKinds, QuietInv

LEMMA StoreInit == Init => S!Store!Init
<1> SUFFICES ASSUME Init PROVE S!Store!Init
  OBVIOUS
<1>1. table = <<S!NewSection(".text")>> /\ current_section = 1
  BY DEF Init, S!Init
<1>2. /\ DOMAIN table = {1} /\ table[1].contents = <<>> /\ table[1].name = ".text"
  BY <1>1 DEF S!NewSection
<1>3. \A name : S!BodyIn(table, name) = <<>>
  BY <1>2 DEF S!BodyIn
<1> QED BY <1>1, <1>2, <1>3, NamesAssumption DEF S!Store!Init

\* However statements, relocations and section directives come, the run keeps
\* one body of bytes per section name and only patches it after parsing, except
\* where the last byte of a section is relocated.
THEOREM RunKeepsTheStore == Spec => ImplementsSections
<1>1. Init => S!Store!Init
  BY StoreInit
<1>2. BaseInv /\ [Next]_vars => StoreStep
  BY StoreStepHolds
<1>3. Spec => []BaseInv
  BY BaseInit, BaseNext, PTL DEF Spec
<1>4. Spec => [][S!Store!Next \/ RelocatesLastByte]_sectionVars
  <2>1. BaseInv /\ [Next]_vars => [S!Store!Next \/ RelocatesLastByte]_sectionVars
    BY <1>2 DEF StoreStep
  <2> QED BY <1>3, <2>1, PTL DEF Spec
<1> QED BY <1>1, <1>4, PTL DEF Spec, ImplementsSections
-----------------------------------------------------------------------------
\* Relocations change their field.

\* Where a relocation may put a field in a word.
FieldPlace(p, d) == (p = 4 /\ d \in 1 .. 6) \/ (p = 0 /\ d \in {8, 16})

\* The field divides the word: q values remain above it.
DividesInto(p, d, m, k, q) ==
  /\ m \in Nat \ {0} /\ k \in Nat \ {0} /\ q \in Nat \ {0}
  /\ 2^p = m /\ 2^d = k /\ 2^(p + d) = m * k /\ q * (m * k) = WordCount

Divides(p, d) == \E m, k, q : DividesInto(p, d, m, k, q)

LEMMA FieldDivides ==
  ASSUME NEW p, NEW d, FieldPlace(p, d)
  PROVE  Divides(p, d)
<1>1. CASE p = 4 /\ d = 1
  <2>1. DividesInto(4, 1, 16, 2, 8 * 256)
    BY SMT DEF DividesInto, WordCount
  <2> QED BY <1>1, <2>1, Zenon DEF Divides
<1>2. CASE p = 4 /\ d = 2
  <2>1. DividesInto(4, 2, 16, 4, 4 * 256)
    BY SMT DEF DividesInto, WordCount
  <2> QED BY <1>2, <2>1, Zenon DEF Divides
<1>3. CASE p = 4 /\ d = 3
  <2>1. DividesInto(4, 3, 16, 8, 2 * 256)
    BY SMT DEF DividesInto, WordCount
  <2> QED BY <1>3, <2>1, Zenon DEF Divides
<1>4. CASE p = 4 /\ d = 4
  <2>1. DividesInto(4, 4, 16, 16, 256)
    BY SMT DEF DividesInto, WordCount
  <2> QED BY <1>4, <2>1, Zenon DEF Divides
<1>5. CASE p = 4 /\ d = 5
  <2>1. DividesInto(4, 5, 16, 32, 128)
    BY SMT DEF DividesInto, WordCount
  <2> QED BY <1>5, <2>1, Zenon DEF Divides
<1>6. CASE p = 4 /\ d = 6
  <2>1. DividesInto(4, 6, 16, 64, 64)
    BY SMT DEF DividesInto, WordCount
  <2> QED BY <1>6, <2>1, Zenon DEF Divides
<1>7. CASE p = 0 /\ d = 8
  <2>1. DividesInto(0, 8, 1, 256, 256)
    BY SMT DEF DividesInto, WordCount
  <2> QED BY <1>7, <2>1, Zenon DEF Divides
<1>8. CASE p = 0 /\ d = 16
  <2>1. DividesInto(0, 16, 1, 256 * 256, 1)
    BY SMT DEF DividesInto, WordCount
  <2> QED BY <1>8, <2>1, Zenon DEF Divides
<1> QED BY <1>1, <1>2, <1>3, <1>4, <1>5, <1>6, <1>7, <1>8, SMT DEF FieldPlace

\* The field gets the low bits of the value, the rest of the word stays.
LEMMA PatchedWord ==
  ASSUME NEW w \in Word, NEW p, NEW d, FieldPlace(p, d), NEW v \in Int
  PROVE  LET n == PatchField(w, p, d, v)
         IN  /\ n \in Word /\ n % 2^p = w % 2^p
             /\ n \div 2^(p + d) = w \div 2^(p + d)
             /\ FieldOf(n, p, d) = v % 2^d
<1> DEFINE m == 2^p
           k == 2^d
           u == v % k
           n == w + ((u - ((w \div m) % k)) * m)
<1>1. /\ m \in Nat \ {0} /\ k \in Nat \ {0} /\ 2^(p + d) = m * k
      /\ \E q : q \in Nat \ {0} /\ q * (m * k) = WordCount
  <2>1. \E x, y, q : DividesInto(p, d, x, y, q)
    BY FieldDivides, Zenon DEF Divides
  <2>2. PICK x, y, q : DividesInto(p, d, x, y, q)
    BY <2>1
  <2> QED BY <2>2, Zenon DEF DividesInto
<1>2. PICK q : q \in Nat \ {0} /\ q * (m * k) = WordCount
  BY <1>1
<1>3. w \in Nat /\ w < WordCount /\ \A x \in Nat : x < WordCount => x \in Word
  BY WordsAreNumbers, WordLimit
<1>4. PatchField(w, p, d, v) = n /\ FieldOf(n, p, d) = (n \div m) % k
  BY DEF PatchField, FieldOf
<1> HIDE DEF m, k
<1>5. u \in 0 .. k - 1
  BY <1>1, QuotientAndRest, Zenon
<1> HIDE DEF u
<1>6. /\ n \in Nat /\ n < q * (m * k) /\ n % m = w % m
      /\ n \div (m * k) = w \div (m * k) /\ (n \div m) % k = u
  <2>1. w < q * (m * k) /\ q \in Nat
    BY <1>2, <1>3
  <2>2. DigitIsReplaced(w, m, k, q, u)
    BY <1>1, <1>3, <1>5, <2>1, DigitReplaced
  <2> QED BY <2>2 DEF DigitIsReplaced
<1>7. n \in Word
  BY <1>2, <1>3, <1>6, Zenon
<1> HIDE DEF n
<1> QED BY <1>1, <1>4, <1>6, <1>7 DEF m, k, u

LEMMA BytesOfNumber ==
  ASSUME NEW n \in Int
  PROVE  n \div 256 \in Int /\ n % 256 \in 0 .. 255 /\ n = (n \div 256) * 256 + (n % 256)
OBVIOUS

LEMMA WordOfBytes ==
  ASSUME NEW w \in Word
  PROVE  (w % 256) + 256 * ((w \div 256) % 256) = w
<1> DEFINE q == w \div 256
<1>1. w \in Int /\ 256 \in Nat \ {0}
  BY WordsAreNumbers
<1>2. q \in Int /\ w % 256 \in 0 .. 255 /\ w = q * 256 + (w % 256)
  <2> HIDE DEF q
  <2> QED BY <1>1, BytesOfNumber DEF q
<1> HIDE DEF q
<1> DEFINE r == w % 256
<1>3. q \in 0 .. 255
  <2>1. r \in 0 .. 255 /\ w = q * 256 + r
    BY <1>2
  <2>2. w \in Nat /\ w < 256 * 256
    BY WordsAreNumbers, WordLimit DEF WordCount
  <2> HIDE DEF r
  <2> QED BY <1>2, <2>1, <2>2, SMT
<1>4. q % 256 = q
  BY <1>3
<1> HIDE DEF r
<1> QED BY <1>2, <1>4 DEF q, r

LEMMA WordRange ==
  ASSUME TableOK, NEW s \in DOMAIN table, NEW o \in Nat
  PROVE  WordAt(Contents(s), o) \in Word
<1> DEFINE c == Contents(s)
           byte(i) == IF i <= Len(c) THEN c[i] ELSE S!Filler
<1>1. /\ Len(c) \in Nat /\ DOMAIN c = 1 .. Len(c) /\ \A i \in DOMAIN c : c[i] \in S!Byte
  BY TableTypes
<1>2. \A i \in Nat \ {0} : byte(i) \in S!Byte
  <2> HIDE DEF c
  <2> SUFFICES ASSUME NEW i \in Nat \ {0} PROVE byte(i) \in S!Byte
    OBVIOUS
  <2>1. CASE i <= Len(c)
    <3>1. i \in 1 .. Len(c)
      BY <1>1, <2>1
    <3> QED BY <1>1, <2>1, <3>1
  <2>2. CASE ~(i <= Len(c))
    BY <2>2 DEF S!Filler, S!Byte
  <2> QED BY <2>1, <2>2
<1>3. byte(o + 1) \in S!Byte /\ byte(o + 2) \in S!Byte
  <2>1. o + 1 \in Nat \ {0} /\ o + 2 \in Nat \ {0}
    OBVIOUS
  <2> HIDE DEF byte
  <2> QED BY <1>2, <2>1
<1>4. WordAt(c, o) = byte(o + 1) + 256 * byte(o + 2)
  BY DEF WordAt
<1> HIDE DEF byte, c
<1>5. \A x, y \in S!Byte : x + 256 * y \in Word
  <2> SUFFICES ASSUME NEW x \in S!Byte, NEW y \in S!Byte PROVE x + 256 * y \in Word
    OBVIOUS
  <2>1. x \in 0 .. 255 /\ y \in 0 .. 255
    BY DEF S!Byte
  <2>2. x + 256 * y \in Nat /\ x + 256 * y < 256 * 256
    BY <2>1
  <2> QED BY <2>2, WordLimit DEF WordCount
<1> QED BY <1>3, <1>4, <1>5 DEF c

\* What is in a section after a relocation, in words.
LEMMA RelocatedWord ==
  ASSUME BaseInv, Relocate
  PROVE  LET r == relocs[pc]
             old == WordAt(Contents(r.section), r.offset)
         IN  /\ pc \in DOMAIN relocs /\ old \in Word /\ FieldPlace(r.position, r.width)
             /\ \E v, errors, warnings : Patches(r, v, errors, warnings)
             /\ \A v, errors, warnings :
                  Patches(r, v, errors, warnings) =>
                    WordAt(table'[r.section].contents, r.offset)
                      = PatchField(old, r.position, r.width, v)
<1> DEFINE r == relocs[pc]
           old == WordAt(Contents(r.section), r.offset)
           after == table'[r.section].contents
<1>1. pc \in DOMAIN relocs /\ \E v, errors, warnings : Patches(r, v, errors, warnings)
  BY RelocatePatches
<1>2. /\ r.section \in DOMAIN table /\ r.offset \in Nat /\ FieldFits(r) /\ TableOK
  BY <1>1, RelocFields DEF BaseInv
<1>3. old \in Word
  BY <1>2, WordRange
<1>4. FieldPlace(r.position, r.width)
  <2> HIDE DEF r
  <2> QED BY <1>2, WidthAssumption DEF FieldFits, FieldPlace, LdrPosition
<1>5. ASSUME NEW v, NEW errors, NEW warnings, Patches(r, v, errors, warnings)
      PROVE  WordAt(after, r.offset) = PatchField(old, r.position, r.width, v)
  <2> DEFINE n == PatchField(old, r.position, r.width, v)
             b == Bytes(n, 2)
  <2>1. v \in Int /\ S!WriteBlock(r.section, r.offset, b)
    BY <1>5, Zenon DEF Patches
  <2> HIDE DEF r, old
  <2>2. n \in Word /\ n \in Int
    <3>1. n \in Word
      BY <1>3, <1>4, <2>1, PatchedWord
    <3> QED BY <3>1, WordsAreNumbers
  <2> HIDE DEF n
  <2>3. /\ b \in Seq(S!Byte) /\ Len(b) = 2
        /\ b[1] = n % 256 /\ b[2] = (n \div 256) % 256
    BY <2>2, WordBytes
  <2> HIDE DEF b
  <2>4. /\ Len(after) = IF r.offset + 2 <= Len(Contents(r.section))
                        THEN Len(Contents(r.section)) ELSE Len(Contents(r.section)) + 1
        /\ r.offset + 2 > Len(Contents(r.section)) => r.offset + 1 = Len(Contents(r.section))
        /\ \A i \in 1 .. Len(after) :
             after[i] = IF i > r.offset /\ i <= r.offset + 2 THEN b[i - r.offset]
                        ELSE Contents(r.section)[i]
    BY <1>1, <2>1, <2>3, PatchTable DEF r
  <2>5. Len(Contents(r.section)) \in Nat
    BY <1>2, TableTypes
  <2> DEFINE o == r.offset
             l == Len(after)
             k == Len(Contents(r.section))
  <2>6. l \in Nat /\ o + 2 <= l /\ o + 1 <= l /\ o \in Nat
    <3>1. /\ l = IF o + 2 <= k THEN k ELSE k + 1
          /\ (o + 2 > k => o + 1 = k) /\ k \in Nat /\ o \in Nat
      BY <1>2, <2>4, <2>5
    <3> HIDE DEF o, l, k
    <3> QED BY <3>1
  <2>7. after[o + 1] = b[1] /\ after[o + 2] = b[2]
    <3>1. \A i \in 1 .. l : after[i] = IF i > o /\ i <= o + 2 THEN b[i - o]
                                       ELSE Contents(r.section)[i]
      BY <2>4
    <3>2. /\ o + 1 \in 1 .. l /\ o + 2 \in 1 .. l /\ o + 1 > o /\ o + 1 <= o + 2
          /\ o + 2 > o /\ o + 2 <= o + 2 /\ (o + 1) - o = 1 /\ (o + 2) - o = 2
      <4> HIDE DEF o, l
      <4> QED BY <2>6
    <3> HIDE DEF o, l, after
    <3> QED BY <3>1, <3>2
  <2>8. WordAt(after, o) = after[o + 1] + 256 * after[o + 2]
    <3> HIDE DEF o, after
    <3> QED BY <2>6 DEF WordAt, l
  <2> HIDE DEF after, o
  <2>9. WordAt(after, o) = n
    <3>1. (n % 256) + 256 * ((n \div 256) % 256) = n
      BY <2>2, WordOfBytes
    <3> QED BY <2>3, <2>7, <2>8, <3>1, ZenonT(40)
  <2> QED BY <2>9 DEF n, o
<1> QED BY <1>1, <1>3, <1>4, <1>5

RelocateStep ==
  phase = "relocate" /\ pc <= Len(relocs) =>
    LET r == relocs[pc]
        old == WordAt(Contents(r.section), r.offset)
        new == WordAt(table'[r.section].contents, r.offset)
    IN  /\ \A s \in DOMAIN table : \A i \in DOMAIN Contents(s) :
             table'[s].contents[i] # Contents(s)[i] =>
               s = r.section /\ i \in {r.offset + 1, r.offset + 2}
        /\ old % 2^r.position = new % 2^r.position
        /\ old \div 2^(r.position + r.width) = new \div 2^(r.position + r.width)

LEMMA RelocateStays ==
  ASSUME BaseInv, Relocate
  PROVE  RelocateStep
<1> DEFINE r == relocs[pc]
           old == WordAt(Contents(r.section), r.offset)
           new == WordAt(table'[r.section].contents, r.offset)
<1>1. /\ pc \in DOMAIN relocs /\ old \in Word /\ FieldPlace(r.position, r.width)
  BY RelocatedWord
<1>2. PICK v, errors, warnings : Patches(r, v, errors, warnings)
  BY RelocatedWord
<1>3. v \in Int /\ new = PatchField(old, r.position, r.width, v)
  BY <1>2, RelocatedWord DEF Patches
<1>4. /\ old % 2^r.position = new % 2^r.position
      /\ old \div 2^(r.position + r.width) = new \div 2^(r.position + r.width)
  <2> HIDE DEF r, old, new
  <2> QED BY <1>1, <1>3, PatchedWord
<1>5. ASSUME NEW s \in DOMAIN table, NEW i \in DOMAIN Contents(s),
             table'[s].contents[i] # Contents(s)[i]
      PROVE  s = r.section /\ i \in {r.offset + 1, r.offset + 2}
  <2>1. PICK b \in Seq(S!Byte) : Len(b) = 2 /\ S!WriteBlock(r.section, r.offset, b)
    BY RelocateWrites
  <2>2. /\ \A t \in DOMAIN table : t # r.section => table'[t] = table[t]
        /\ \A j \in 1 .. Len(table'[r.section].contents) :
             table'[r.section].contents[j] =
               IF j > r.offset /\ j <= r.offset + 2 THEN b[j - r.offset]
               ELSE Contents(r.section)[j]
        /\ TableGrows
    BY <1>1, <2>1, PatchTable
  <2>3. s = r.section
    BY <1>5, <2>2 DEF Contents
  <2>4. /\ i \in Nat /\ i >= 1 /\ i <= Len(Contents(s)) /\ Len(Contents(s)) \in Nat
        /\ Len(table'[s].contents) \in Nat /\ Len(table'[s].contents) >= Len(Contents(s))
        /\ r.offset \in Nat
    <3>1. DOMAIN Contents(s) = 1 .. Len(Contents(s)) /\ Len(Contents(s)) \in Nat
      BY TableTypes DEF BaseInv
    <3> QED BY <1>1, <2>2, <3>1, RelocFields DEF TableGrows
  <2>5. i \in 1 .. Len(table'[s].contents)
    BY <2>4
  <2>6. i > r.offset /\ i <= r.offset + 2
    BY <1>5, <2>2, <2>3, <2>5
  <2>7. i \in {r.offset + 1, r.offset + 2}
    <3> DEFINE o == r.offset
    <3>1. o \in Nat /\ i > o /\ i <= o + 2 /\ i \in Nat
      BY <2>4, <2>6
    <3>2. i = o + 1 \/ i = o + 2
      <4> HIDE DEF o
      <4> QED BY <3>1
    <3> QED BY <3>2
  <2> QED BY <2>3, <2>7
<1> QED BY <1>4, <1>5 DEF RelocateStep

LEMMA RelocateStepHolds == BaseInv /\ [Next]_vars => RelocateStep \/ UNCHANGED vars
<1> SUFFICES ASSUME BaseInv, Next, phase = "relocate", pc <= Len(relocs)
             PROVE  RelocateStep
  BY DEF RelocateStep
<1>1. CASE Relocate
  BY <1>1, RelocateStays
<1>2. pc \in Nat /\ Len(relocs) \in Nat /\ ~(pc > Len(relocs))
  BY DEF BaseInv, CountsOK, RelocsOK
<1> QED BY <1>1, <1>2, VisitPhase
        DEF Next, Generate, Locate, Visits, ParseLine, SyntaxError, EndOfFile,
            VisitOther, EndOfCode, LocateSection, OverlapExit, EndOfLocation,
            EndOfRelocation, LoadSection, WriteOutput

\* A relocation changes the bits of its field: the opcode around the constant
\* of a load and the byte after a .byte stay as they are, for every width of
\* the load's field up to six bits.
THEOREM RelocationsKeepToTheirField == Spec => RelocationsPatchTheirField
<1>1. BaseInv /\ [Next]_vars => [RelocateStep]_vars
  BY RelocateStepHolds
<1>2. Spec => []BaseInv
  BY BaseInit, BaseNext, PTL DEF Spec
<1>3. Spec => [][RelocateStep]_vars
  BY <1>1, <1>2, PTL DEF Spec
<1> QED BY <1>3 DEF RelocationsPatchTheirField, RelocateStep
-----------------------------------------------------------------------------
\* The memory image.

\* Sections fit the memory and do not meet.
Flat == Disjoint /\ \A s \in DOMAIN table : End(s) <= MemorySize

\* The sections load_memory_space has copied.
Copied == {s \in DOMAIN table : s < pc /\ table[s].flags = "LOADABLE"}

MemoryHolds ==
  /\ DOMAIN memory = UNION {Cells(s) : s \in Copied}
  /\ \A s \in Copied : \A i \in DOMAIN Contents(s) :
       memory[base_address[s] + i - 1] = Contents(s)[i]

MemoryInv ==
  /\ phase \notin {"load", "exit"} => memory = <<>>
  /\ phase = "load" \/ Succeeded => (Flat => MemoryHolds)
  /\ Succeeded => pc > Len(table)

LEMMA FlatCells ==
  ASSUME TableOK, base_address \in [DOMAIN table -> Nat], Flat, NEW s \in DOMAIN table
  PROVE  /\ \A i \in DOMAIN Contents(s) :
              /\ i \in Nat /\ i >= 1 /\ i <= Len(Contents(s))
              /\ base_address[s] + i - 1 \in 0 .. MemorySize - 1
              /\ (base_address[s] + i - 1) % MemorySize = base_address[s] + i - 1
         /\ Cells(s) = {base_address[s] + i - 1 : i \in DOMAIN Contents(s)}
<1>1. /\ base_address[s] \in Nat /\ Len(Contents(s)) \in Nat
      /\ DOMAIN Contents(s) = 1 .. Len(Contents(s))
  BY TableTypes
<1>2. base_address[s] + Len(Contents(s)) <= MemorySize
  BY DEF Flat, End
<1>3. MemorySize \in Nat \ {0}
  BY RangeAssumption
<1>4. ASSUME NEW i \in DOMAIN Contents(s)
      PROVE  /\ i \in Nat /\ i >= 1 /\ i <= Len(Contents(s))
             /\ base_address[s] + i - 1 \in 0 .. MemorySize - 1
             /\ (base_address[s] + i - 1) % MemorySize = base_address[s] + i - 1
  <2> DEFINE l == Len(Contents(s))
             b == base_address[s]
             a == b + i - 1
  <2>1. i \in Nat /\ i >= 1 /\ i <= l /\ l \in Nat /\ b \in Nat /\ b + l <= MemorySize
    BY <1>1, <1>2
  <2> HIDE DEF l, b
  <2>2. a \in 0 .. MemorySize - 1
    BY <1>3, <2>1
  <2>3. a % MemorySize = a
    <3> HIDE DEF a
    <3>1. 0 * MemorySize + a = a
      BY <1>3, <2>2
    <3>2. (0 * MemorySize + a) % MemorySize = a
      BY <1>3, <2>2, DivMod
    <3> QED BY <3>1, <3>2
  <2> QED BY <2>1, <2>2, <2>3 DEF l, b
<1>5. Cells(s) = {base_address[s] + i - 1 : i \in DOMAIN Contents(s)}
  BY <1>4 DEF Cells
<1> QED BY <1>4, <1>5

\* Cells of two sections are never the same.
LEMMA FlatSectionsAreApart ==
  ASSUME TableOK, base_address \in [DOMAIN table -> Nat], Flat,
         NEW s \in DOMAIN table, NEW t \in DOMAIN table, s # t,
         NEW i \in DOMAIN Contents(s)
  PROVE  base_address[s] + i - 1 \notin Cells(t)
<1> SUFFICES ASSUME NEW j \in DOMAIN Contents(t),
                    base_address[s] + i - 1 = base_address[t] + j - 1
             PROVE  FALSE
  BY FlatCells
<1>1. /\ i \in Nat /\ i >= 1 /\ i <= Len(Contents(s))
      /\ j \in Nat /\ j >= 1 /\ j <= Len(Contents(t))
  BY FlatCells
<1>2. /\ base_address[s] \in Nat /\ Len(Contents(s)) \in Nat
      /\ base_address[t] \in Nat /\ Len(Contents(t)) \in Nat
  BY TableTypes
<1>3. \/ base_address[s] + Len(Contents(s)) <= base_address[t]
      \/ base_address[t] + Len(Contents(t)) <= base_address[s]
  BY DEF Flat, Disjoint, End
<1> QED BY <1>1, <1>2, <1>3

LEMMA LoadHolds ==
  ASSUME BaseInv, MemoryHolds, Flat, LoadSection
  PROVE  MemoryHolds'
<1>1. /\ phase = "load" /\ pc \in DOMAIN table /\ pc \in Nat /\ pc' = pc + 1
      /\ UNCHANGED <<table, base_address>> /\ TableOK
      /\ base_address \in [DOMAIN table -> Nat]
  <2>1. phase = "load" /\ pc <= Len(table) /\ pc' = pc + 1
    BY DEF LoadSection
  <2>2. UNCHANGED <<table, base_address>>
    BY DEF LoadSection, sectionVars, locateVars
  <2>3. TableOK /\ pc \in Nat \ {0}
    BY DEF BaseInv, CountsOK
  <2>4. base_address \in [DOMAIN table -> Nat]
    BY <2>1 DEF BaseInv, BasesOK
  <2> QED BY <2>1, <2>2, <2>3, <2>4, TableTypes
<1>2. Copied' = IF Loadable(pc) THEN Copied \cup {pc} ELSE Copied
  <2>1. \A s \in DOMAIN table : s \in Nat
    BY <1>1, TableTypes
  <2>2. Copied' = {s \in DOMAIN table : s < pc + 1 /\ table[s].flags = "LOADABLE"}
    BY <1>1 DEF Copied
  <2>3. \A s \in DOMAIN table : s < pc + 1 <=> s < pc \/ s = pc
    BY <1>1, <2>1
  <2> QED BY <1>1, <2>2, <2>3 DEF Copied, Loadable
<1>3. \A s : Cells(s)' = Cells(s) /\ Contents(s)' = Contents(s)
  BY <1>1 DEF Cells, Contents
<1>4. CASE ~Loadable(pc)
  <2>1. memory' = memory
    BY <1>4 DEF LoadSection
  <2> QED BY <1>1, <1>2, <1>3, <1>4, <2>1 DEF MemoryHolds
<1>5. CASE Loadable(pc)
  <2> DEFINE byteAt(a) == CHOOSE i \in DOMAIN Contents(pc) :
                            (base_address[pc] + i - 1) % MemorySize = a
  <2>1. memory' = [a \in DOMAIN memory \cup Cells(pc) |->
                     IF a \in Cells(pc) THEN Contents(pc)[byteAt(a)] ELSE memory[a]]
    BY <1>5 DEF LoadSection
  <2>2. DOMAIN memory' = UNION {Cells(s)' : s \in Copied'}
    <3>1. DOMAIN memory' = DOMAIN memory \cup Cells(pc)
      BY <2>1
    <3>2. UNION {Cells(s) : s \in Copied \cup {pc}}
            = (UNION {Cells(s) : s \in Copied}) \cup Cells(pc)
      OBVIOUS
    <3> QED BY <1>2, <1>3, <1>5, <3>1, <3>2 DEF MemoryHolds
  <2>3. ASSUME NEW s \in Copied', NEW i \in DOMAIN Contents(s)
        PROVE  memory'[base_address[s] + i - 1] = Contents(s)[i]
    <3> DEFINE a == base_address[s] + i - 1
    <3>1. s \in DOMAIN table
      BY <1>1, <2>3 DEF Copied
    <3>2. a \in Cells(s)
      BY <1>1, <3>1, FlatCells
    <3>3. CASE s = pc
      <4>1. a \in Cells(pc)
        BY <3>2, <3>3
      <4>2. byteAt(a) = i
        <5>1. \A j \in DOMAIN Contents(pc) :
                (base_address[pc] + j - 1) % MemorySize = a <=> j = i
          <6>1. ASSUME NEW j \in DOMAIN Contents(pc)
                PROVE  (base_address[pc] + j - 1) % MemorySize = a <=> j = i
            <7>1. /\ (base_address[pc] + j - 1) % MemorySize = base_address[pc] + j - 1
                  /\ j \in Nat /\ i \in Nat
              BY <1>1, <3>3, FlatCells
            <7>2. base_address[pc] \in Nat
              BY <1>1
            <7> QED BY <3>3, <7>1, <7>2
          <6> QED BY <6>1
        <5> HIDE DEF a
        <5> QED BY <3>3, <5>1
      <4> HIDE DEF a, byteAt
      <4> QED BY <2>1, <3>3, <4>1, <4>2 DEF a
    <3>4. CASE s # pc
      <4>1. s \in Copied
        BY <1>2, <3>4
      <4>2. a \notin Cells(pc)
        BY <1>1, <3>1, <3>4, FlatSectionsAreApart
      <4>3. a \in DOMAIN memory /\ memory[a] = Contents(s)[i]
        BY <3>2, <4>1 DEF MemoryHolds
      <4> HIDE DEF a, byteAt
      <4> QED BY <2>1, <4>2, <4>3 DEF a
    <3> QED BY <3>3, <3>4
  <2>4. \A s \in Copied' : \A i \in DOMAIN Contents(s)' :
          memory'[base_address'[s] + i - 1] = Contents(s)'[i]
    BY <1>1, <1>3, <2>3
  <2> QED BY <2>2, <2>4 DEF MemoryHolds
<1> QED BY <1>4, <1>5

LEMMA FlatStays ==
  ASSUME UNCHANGED <<table, base_address>>
  PROVE  Flat' <=> Flat
BY DEF Flat, Disjoint, End, Contents

LEMMA MemoryNext == BaseInv /\ ErrorInv /\ MemoryInv /\ [Next]_vars => MemoryInv'
<1> SUFFICES ASSUME BaseInv, ErrorInv, MemoryInv, [Next]_vars
             PROVE  MemoryInv'
  OBVIOUS
<1> USE DEF MemoryInv
<1>0. phase # "exit" => result = 0
  BY DEF ErrorInv
<1>1. CASE ParseLine
  BY <1>0, <1>1 DEF ParseLine, endVars, Succeeded
<1>2. CASE Visits
  <2>1. phase = "generate" /\ UNCHANGED <<phase, endVars>>
    BY <1>2, VisitPhase, VisitsWriteTheirExtent
  <2> QED BY <2>1 DEF endVars, Succeeded
<1>3. CASE Relocate
  BY <1>3 DEF Relocate, endVars, Succeeded
<1>4. CASE SyntaxError
  BY <1>4 DEF SyntaxError, Succeeded
<1>5. CASE EndOfFile \/ EndOfCode \/ EndOfLocation
  <2>1. /\ phase \notin {"load", "exit"}
        /\ \E p \in {"generate", "locate", "relocate"} : GoTo(p)
    BY <1>5 DEF EndOfFile, EndOfCode, EndOfLocation
  <2> QED BY <2>1 DEF GoTo, Succeeded
<1>6. CASE EndOfRelocation
  <2>1. /\ memory' = <<>> /\ pc' = 1 /\ phase' \in {"load", "exit"}
        /\ phase' = "exit" => result' = 1
    BY <1>6 DEF EndOfRelocation, GoTo
  <2>2. MemoryHolds'
    <3>1. /\ table' \in Seq(S!Section)
      <4>1. TableOK'
        BY BaseNext DEF BaseInv
      <4> QED BY <4>1 DEF TableOK, S!TypeOK
    <3>2. \A s \in DOMAIN table' : ~(s < 1)
      BY <3>1
    <3>3. Copied' = {}
      BY <2>1, <3>2 DEF Copied
    <3> QED BY <2>1, <3>3 DEF MemoryHolds
  <2> QED BY <2>1, <2>2 DEF Succeeded
<1>7. CASE VisitOther
  BY <1>7 DEF VisitOther, endVars, Succeeded
<1>8. CASE LocateSection \/ OverlapExit
  BY <1>8 DEF LocateSection, OverlapExit, endVars, Succeeded
<1>9. CASE LoadSection
  <2>1. phase = "load" /\ phase' = "load" /\ UNCHANGED <<table, base_address>>
    BY <1>9 DEF LoadSection, sectionVars, locateVars
  <2>2. Flat' => Flat /\ MemoryHolds
    BY <2>1, FlatStays
  <2> QED BY <1>9, <2>1, <2>2, LoadHolds DEF Succeeded
<1>10. CASE WriteOutput
  <2>1. /\ phase = "load" /\ pc > Len(table) /\ phase' = "exit"
        /\ UNCHANGED <<table, base_address, pc, memory>>
    BY <1>10 DEF WriteOutput, sectionVars, locateVars
  <2>2. Flat' => MemoryHolds
    BY <2>1, FlatStays
  <2>3. MemoryHolds => MemoryHolds'
    BY <2>1 DEF MemoryHolds, Copied, Cells, Contents
  <2> QED BY <2>1, <2>2, <2>3
<1>11. CASE UNCHANGED vars
  <2>1. UNCHANGED <<table, base_address, phase, result, pc, memory>>
    BY <1>11 DEF vars, sectionVars, locateVars, endVars
  <2>2. MemoryHolds => MemoryHolds'
    BY <2>1 DEF MemoryHolds, Copied, Cells, Contents
  <2> QED BY <2>1, <2>2, FlatStays DEF Succeeded
<1> QED BY <1>1, <1>2, <1>3, <1>4, <1>5, <1>6, <1>7, <1>8, <1>9, <1>10, <1>11, StepKinds

LEMMA MemoryInit == Init => MemoryInv
BY DEF Init, MemoryInv, Succeeded

LEMMA MemoryShown == BaseInv /\ MemoryInv => ImageHoldsSections
<1> SUFFICES ASSUME BaseInv, MemoryInv, Succeeded, Flat
             PROVE  LET loaded == {s \in DOMAIN table : table[s].flags = "LOADABLE"}
                    IN  /\ DOMAIN memory = UNION {Cells(s) : s \in loaded}
                        /\ \A s \in loaded : \A i \in DOMAIN Contents(s) :
                             memory[base_address[s] + i - 1] = Contents(s)[i]
  BY DEF ImageHoldsSections, Flat
<1>1. MemoryHolds /\ pc > Len(table) /\ pc \in Nat
  BY DEF MemoryInv, BaseInv, CountsOK
<1>2. \A s \in DOMAIN table : s < pc
  <2>1. DOMAIN table = 1 .. Len(table) /\ Len(table) \in Nat
    BY TableTypes DEF BaseInv
  <2> QED BY <1>1, <2>1
<1>3. Copied = {s \in DOMAIN table : table[s].flags = "LOADABLE"}
  BY <1>2 DEF Copied
<1> QED BY <1>1, <1>3 DEF MemoryHolds

\* Where sections fit the memory and do not meet, what the dumpers read is every
\* loadable section at its address and zeros elsewhere, for any -s options.
THEOREM ImageIsTheSections == Spec => []ImageHoldsSections
<1>1. Init => BaseInv /\ ErrorInv /\ MemoryInv
  BY BaseInit, ErrorInit, MemoryInit
<1>2. BaseInv /\ ErrorInv /\ MemoryInv /\ [Next]_vars
        => (BaseInv /\ ErrorInv /\ MemoryInv)'
  BY BaseNext, ErrorNext, MemoryNext
<1> QED BY <1>1, <1>2, MemoryShown, PTL DEF Spec
-----------------------------------------------------------------------------
\* What the fields of references hold: where they are.

\* Statements of one section follow each other.
InOrder ==
  \A j, k \in DOMAIN ast :
    j < k /\ ast[j].section = ast[k].section =>
      ast[j].offset + ast[j].size <= ast[k].offset

LEMMA ParseKeepsOrder ==
  ASSUME BaseInv, InOrder, ParseLine
  PROVE  InOrder'
<1>1. PICK n \in Nodes : AddsNode(n)
  BY ParseAdds
<1>2. /\ AstOK /\ ast \in Seq(Nodes) /\ ast' = Append(ast, n)
      /\ Lengthens(n.section, n.offset, n.size)
  BY <1>1 DEF AddsNode, BaseInv, AstOK
<1>3. /\ DOMAIN ast' = 1 .. Len(ast) + 1 /\ DOMAIN ast = 1 .. Len(ast) /\ Len(ast) \in Nat
      /\ ast'[Len(ast) + 1] = n /\ \A j \in DOMAIN ast : ast'[j] = ast[j]
  BY <1>2, AppendedNode
<1>4. ASSUME NEW j \in DOMAIN ast, ast[j].section = n.section
      PROVE  ast[j].offset + ast[j].size <= n.offset
  <2>1. NodeFits(ast[j])
    BY <1>2 DEF AstOK
  <2>2. /\ n.section \in DOMAIN table
        /\ ast[j].offset + ast[j].size <= Len(Contents(n.section))
    BY <1>4, <2>1 DEF NodeFits
  <2> QED BY <1>2, <2>2 DEF Lengthens
<1> SUFFICES ASSUME NEW j \in DOMAIN ast', NEW k \in DOMAIN ast', j < k,
                    ast'[j].section = ast'[k].section
             PROVE  ast'[j].offset + ast'[j].size <= ast'[k].offset
  BY DEF InOrder
<1>5. j \in DOMAIN ast /\ (k \in DOMAIN ast \/ k = Len(ast) + 1)
  BY <1>3
<1>6. ast'[j] = ast[j]
  BY <1>3, <1>5
<1>7. CASE k = Len(ast) + 1
  <2>1. ast'[k] = n
    BY <1>3, <1>7
  <2> QED BY <1>4, <1>5, <1>6, <2>1
<1>8. CASE k \in DOMAIN ast
  <2>1. ast'[k] = ast[k]
    BY <1>3, <1>8
  <2> QED BY <1>5, <1>6, <1>8, <2>1 DEF InOrder
<1> QED BY <1>5, <1>7, <1>8

LEMMA OrderNext == BaseInv /\ InOrder /\ [Next]_vars => InOrder'
<1> SUFFICES ASSUME BaseInv, InOrder, [Next]_vars
             PROVE  InOrder'
  OBVIOUS
<1>1. CASE ParseLine
  BY <1>1, ParseKeepsOrder
<1>2. CASE ast' = ast
  BY <1>2 DEF InOrder
<1>3. Visits => ast' = ast
  BY VisitsWriteTheirExtent
<1>4. Relocate => ast' = ast
  BY DEF Relocate
<1>5. Quiet => ast' = ast
  BY DEF Quiet
<1> QED BY <1>1, <1>2, <1>3, <1>4, <1>5, StepKinds, QuietInv

LEMMA NodeTypes ==
  ASSUME BaseInv, NEW j \in DOMAIN ast
  PROVE  /\ ast[j] \in Nodes /\ NodeFits(ast[j]) /\ j \in Nat
         /\ ast[j].section \in DOMAIN table /\ ast[j].section \in Nat
         /\ ast[j].offset \in Nat /\ ast[j].size \in Nat
         /\ ast[j].offset + ast[j].size <= Len(Contents(ast[j].section))
         /\ StatementKinds(ast[j].stmt)
<1>1. ast[j] \in Nodes /\ NodeFits(ast[j]) /\ j \in Nat
  BY DEF BaseInv, AstOK
<1> DEFINE n == ast[j]
<1> HIDE DEF n
<1>2. n \in Nodes /\ NodeFits(n)
  BY <1>1 DEF n
<1>3. n.section \in Nat /\ n.offset \in Nat /\ n.size \in Nat /\ n.stmt \in Statement
  BY <1>2 DEF Nodes
<1> QED BY <1>1, <1>2, <1>3, StatementFields DEF NodeFits, n

\* No byte belongs to two statements.
LEMMA StatementsApart ==
  ASSUME BaseInv, InOrder, NEW j \in DOMAIN ast, NEW k \in DOMAIN ast, j # k,
         NEW s, NEW i \in Nat, Owns(ast[j], s, i)
  PROVE  ~Owns(ast[k], s, i)
<1>1. /\ j \in Nat /\ k \in Nat
      /\ ast[j].offset \in Nat /\ ast[j].size \in Nat
      /\ ast[k].offset \in Nat /\ ast[k].size \in Nat
  BY NodeTypes
<1>2. j < k \/ k < j
  BY <1>1
<1> QED BY <1>1, <1>2 DEF InOrder, Owns

\* The bytes of a field.
InField(r, s, i) == r.section = s /\ i > r.offset /\ i <= r.offset + FieldBytes(r)

\* The field of a relocation is in the statement it was made for.
LEMMA FieldOwned ==
  ASSUME BaseInv, NEW j \in DOMAIN ast, NEW r, MadeFor(r, ast[j])
  PROVE  \A s : \A i \in Nat : InField(r, s, i) => Owns(ast[j], s, i)
<1> DEFINE n == ast[j]
<1>0. NodeFits(n) /\ n.offset \in Nat /\ n.size \in Nat /\ StatementKinds(n.stmt)
  BY NodeTypes
<1>1. /\ r.section = n.section /\ r.offset \in Nat /\ FieldBytes(r) \in Nat
      /\ n.offset <= r.offset /\ r.offset + FieldBytes(r) <= n.offset + n.size
  <2>1. CASE n.stmt.op = "ldr" /\ r = LoadReloc(n)
    <3>1. n.size = 2
      BY <1>0, <2>1 DEF NodeFits, SizeFits
    <3>2. r.section = n.section /\ r.offset = n.offset /\ r.width = LdrWidth
      BY <2>1 DEF LoadReloc
    <3>3. FieldBytes(r) = 2
      BY <3>2, WidthAssumption DEF FieldBytes
    <3> HIDE DEF n
    <3> QED BY <1>0, <3>1, <3>2, <3>3
  <2>2. CASE n.stmt.op = "data" /\ \E i \in DOMAIN n.stmt.values : r = DataReloc(n, i)
    <3>1. PICK i \in DOMAIN n.stmt.values : r = DataReloc(n, i)
      BY <2>2
    <3> DEFINE g == n.stmt.grain
               m == Len(n.stmt.values)
    <3>2. g \in {1, 2} /\ n.size = g * m /\ m \in Nat /\ i \in 1 .. m
      <4>1. g \in {1, 2} /\ n.stmt.values \in Seq(Operand)
        BY <1>0, <2>2 DEF StatementKinds
      <4>2. n.size = g * m
        BY <1>0, <2>2 DEF NodeFits, SizeFits
      <4>3. m \in Nat /\ DOMAIN n.stmt.values = 1 .. m
        <5> DEFINE v == n.stmt.values
        <5>1. v \in Seq(Operand)
          BY <4>1
        <5> HIDE DEF v
        <5>2. Len(v) \in Nat /\ DOMAIN v = 1 .. Len(v)
          BY <5>1
        <5> QED BY <5>2 DEF v
      <4> QED BY <4>1, <4>2, <4>3
    <3>3. r.section = n.section /\ r.offset = n.offset + (i - 1) * g /\ r.width = 8 * g
      BY <3>1 DEF DataReloc
    <3> HIDE DEF n, g, m
    <3>4. FieldBytes(r) = g
      BY <3>2, <3>3 DEF FieldBytes
    <3>5. (i - 1) * g \in Nat /\ (i - 1) * g + g <= g * m
      <4>1. CASE g = 1
        BY <3>2, <4>1
      <4>2. CASE g = 2
        BY <3>2, <4>2
      <4> QED BY <3>2, <4>1, <4>2
    <3> DEFINE a == (i - 1) * g
               c == g * m
    <3>6. a \in Nat /\ c \in Nat /\ a + g <= c /\ n.size = c /\ r.offset = n.offset + a
      BY <3>2, <3>3, <3>5
    <3> HIDE DEF a, c
    <3> QED BY <1>0, <3>2, <3>3, <3>4, <3>6
  <2> QED BY <2>1, <2>2 DEF MadeFor
<1> HIDE DEF n
<1>2. \A s : \A i \in Nat : InField(r, s, i) => Owns(n, s, i)
  BY <1>0, <1>1 DEF InField, Owns
<1> QED BY <1>2 DEF n
\* The code generator has passed statement j.
Generated(j) == phase # "parse" /\ (phase = "generate" => j < pc)

\* Relocations come from statements the generator has passed, and their fields
\* have no byte in common.
HostsInv == \A k \in DOMAIN relocs :
              \E j \in DOMAIN ast : Generated(j) /\ MadeFor(relocs[k], ast[j])

FieldsApart == \A k, l \in DOMAIN relocs : k # l => Apart(relocs[k], relocs[l])

LEMMA MadeForKept ==
  ASSUME symbols' = symbols, NEW r, NEW n
  PROVE  MadeFor(r, n)' <=> MadeFor(r, n)
<1>1. \A e : ValueOf(e)' = ValueOf(e)
  BY SMT DEF ValueOf, IntOf, IsLabel
<1>2. LoadReloc(n)' = LoadReloc(n) /\ \A i : DataReloc(n, i)' = DataReloc(n, i)
  BY <1>1, Zenon DEF LoadReloc, DataReloc, LdrAddend, LdrPosition
<1> QED BY <1>2, Zenon DEF MadeFor

LEMMA GeneratedStays ==
  ASSUME BaseInv, [Next]_vars, phase # "parse"
  PROVE  /\ symbols' = symbols /\ ast' = ast
         /\ \A j \in DOMAIN ast : Generated(j) => Generated(j)'
<1>0. pc \in Nat /\ Len(ast) \in Nat /\ DOMAIN ast = 1 .. Len(ast)
  BY DEF BaseInv, CountsOK, AstOK
<1>1. CASE Visits
  <2>1. UNCHANGED <<symbols, ast, phase>>
    BY <1>1, VisitsWriteTheirExtent
  <2>2. AVisit
    BY <1>1, VisitsAreFit
  <2>3. pc' = pc + 1
    BY <2>2 DEF AVisit, VisitFits, Visited, VisitedAt
  <2> QED BY <1>0, <2>1, <2>3 DEF Generated
<1>2. CASE Relocate
  BY <1>2 DEF Relocate, Generated
<1>3. CASE VisitOther
  <2>1. UNCHANGED <<symbols, ast, phase>> /\ pc' = pc + 1
    BY <1>3 DEF VisitOther
  <2> QED BY <1>0, <2>1 DEF Generated
<1>4. CASE EndOfCode \/ LocateSection \/ OverlapExit \/ EndOfLocation
            \/ EndOfRelocation \/ LoadSection \/ WriteOutput
  <2>1. UNCHANGED <<symbols, ast>>
    BY <1>4 DEF EndOfCode, LocateSection, OverlapExit, EndOfLocation, EndOfRelocation,
                LoadSection, WriteOutput
  <2>2. phase' \in {"locate", "relocate", "load", "exit"}
    BY <1>4 DEF EndOfCode, LocateSection, OverlapExit, EndOfLocation, EndOfRelocation,
                LoadSection, WriteOutput, GoTo
  <2> QED BY <2>1, <2>2 DEF Generated
<1>5. CASE UNCHANGED vars
  BY <1>5 DEF vars, Generated
<1> QED BY <1>1, <1>2, <1>3, <1>4, <1>5, StepKinds
        DEF ParseLine, SyntaxError, EndOfFile

\* Two fields apart have no byte in common.
LEMMA ApartFields ==
  ASSUME NEW r, NEW q, r.section = q.section,
         r.offset \in Nat, q.offset \in Nat, NEW i \in Nat, Apart(r, q), InField(r, q.section, i)
  PROVE  ~InField(q, q.section, i)
<1>1. FieldBytes(r) \in Nat /\ FieldBytes(q) \in Nat
  BY DEF FieldBytes
<1> QED BY <1>1 DEF Apart, InField

\* Fields made for two statements are apart.
LEMMA HostedApart ==
  ASSUME BaseInv, InOrder, NEW j \in DOMAIN ast, NEW k \in DOMAIN ast, j # k,
         NEW r \in Reloc, NEW q \in Reloc, MadeFor(r, ast[j]), MadeFor(q, ast[k])
  PROVE  Apart(r, q)
<1>1. /\ FieldBytes(r) \in {1, 2} /\ FieldBytes(q) \in {1, 2}
      /\ r.offset \in Nat /\ q.offset \in Nat
  BY DEF FieldBytes, Reloc
<1> DEFINE i == IF r.offset <= q.offset THEN q.offset + 1 ELSE r.offset + 1
<1>2. SUFFICES ASSUME ~Apart(r, q) PROVE FALSE
  OBVIOUS
<1>3. i \in Nat /\ r.section = q.section
  BY <1>1, <1>2 DEF Apart
<1>4. InField(r, r.section, i) /\ InField(q, r.section, i)
  BY <1>1, <1>2, <1>3 DEF Apart, InField
<1> HIDE DEF i
<1>5. Owns(ast[j], r.section, i) /\ Owns(ast[k], r.section, i)
  BY <1>3, <1>4, FieldOwned
<1> QED BY <1>3, <1>5, StatementsApart

\* The relocations after a visit are those before it and its own.
Joined(new) ==
  /\ DOMAIN relocs \subseteq DOMAIN relocs'
  /\ \A k \in DOMAIN relocs : relocs'[k] = relocs[k]
  /\ \A l \in DOMAIN new : \E k \in DOMAIN relocs' : relocs'[k] = new[l]
  /\ \A k \in DOMAIN relocs' \ DOMAIN relocs :
       k - Len(relocs) \in DOMAIN new /\ relocs'[k] = new[k - Len(relocs)]

LEMMA RelocsJoin ==
  ASSUME relocs \in Seq(Reloc), NEW new \in Seq(Reloc), relocs' = relocs \o new
  PROVE  Joined(new)
<1> DEFINE n == Len(relocs)
           m == Len(new)
<1>1. /\ n \in Nat /\ m \in Nat /\ DOMAIN relocs = 1 .. n /\ DOMAIN new = 1 .. m
      /\ DOMAIN relocs' = 1 .. n + m
      /\ \A k \in 1 .. n + m : relocs'[k] = IF k <= n THEN relocs[k] ELSE new[k - n]
  OBVIOUS
<1> HIDE DEF n, m
<1>2. ASSUME NEW l \in DOMAIN new PROVE \E k \in DOMAIN relocs' : relocs'[k] = new[l]
  <2>1. n + l \in 1 .. n + m /\ ~(n + l <= n) /\ (n + l) - n = l
    BY <1>1
  <2>2. relocs'[n + l] = new[l]
    BY <1>1, <2>1
  <2> QED BY <1>1, <2>1, <2>2
<1>3. ASSUME NEW k \in DOMAIN relocs' \ DOMAIN relocs
      PROVE  k - n \in DOMAIN new /\ relocs'[k] = new[k - n]
  BY <1>1
<1>4. DOMAIN relocs \subseteq DOMAIN relocs' /\ \A k \in DOMAIN relocs : relocs'[k] = relocs[k]
  BY <1>1
<1> QED BY <1>2, <1>3, <1>4 DEF Joined, n
\* What a visit does, in one place.
VisitDoes(b, new, errors) ==
  /\ b \in Seq(S!Byte) /\ Len(b) <= This.size /\ InPlace(b)
  /\ new \in Seq(Reloc) /\ VisitMakes(This, b, new, errors) /\ Joined(new)
  /\ errors \in Nat /\ error_count' = error_count + errors
  /\ UNCHANGED <<symbols, ast, phase, base_address>> /\ pc' = pc + 1

LEMMA VisitEffects ==
  ASSUME BaseInv, Visits
  PROVE  /\ phase = "generate" /\ pc \in DOMAIN ast /\ This = ast[pc]
         /\ \E b, new, errors : VisitDoes(b, new, errors)
<1>1. phase = "generate" /\ pc <= Len(ast) /\ AVisit
  BY VisitPhase, VisitsAreFit
<1>2. PICK b, new, errors, warnings : VisitFits(b, new, errors, warnings)
  BY <1>1 DEF AVisit
<1>3. /\ b \in Seq(S!Byte) /\ Len(b) <= This.size
      /\ new \in Seq(Reloc) /\ VisitMakes(This, b, new, errors) /\ errors \in Nat
      /\ S!WriteBlock(This.section, This.offset, b)
      /\ relocs' = relocs \o new /\ error_count' = error_count + errors
      /\ UNCHANGED <<symbols, ast, phase, base_address>> /\ pc' = pc + 1
  BY <1>2 DEF VisitFits, Visited, VisitedAt, locateVars
<1>4. InPlace(b)
  BY <1>1, <1>3, VisitIsInPlace
<1>5. Joined(new)
  BY <1>3, RelocsJoin DEF BaseInv, RelocsOK
<1>6. VisitDoes(b, new, errors)
  BY <1>3, <1>4, <1>5, Zenon DEF VisitDoes
<1> QED BY <1>1, <1>6, ThisFits DEF This

LEMMA VisitHosts ==
  ASSUME BaseInv, InOrder, HostsInv, FieldsApart, Visits
  PROVE  HostsInv' /\ FieldsApart'
<1>1. phase = "generate" /\ pc \in DOMAIN ast /\ This = ast[pc] /\ pc \in Nat
  BY VisitEffects DEF BaseInv, CountsOK
<1>2. PICK b, new, errors : VisitDoes(b, new, errors)
  BY VisitEffects
<1>3. /\ Joined(new) /\ \A l \in DOMAIN new : MadeFor(new[l], ast[pc])
      /\ \A k, l \in DOMAIN new : k # l => Apart(new[k], new[l])
      /\ symbols' = symbols /\ ast' = ast /\ phase' = phase /\ pc' = pc + 1
  BY <1>1, <1>2 DEF VisitDoes, VisitMakes
<1>4. \A r, n : MadeFor(r, n)' <=> MadeFor(r, n)
  BY <1>3, MadeForKept
<1> PICK p \in DOMAIN ast : p = pc
  BY <1>1
<1>5. Generated(p)' /\ \A j \in DOMAIN ast : Generated(j) => Generated(j)' /\ j < pc
  <2>1. DOMAIN ast \subseteq Nat
    BY DEF BaseInv, AstOK
  <2> QED BY <1>1, <1>3, <2>1 DEF Generated
<1>6. ASSUME NEW k \in DOMAIN relocs
      PROVE  \E j \in DOMAIN ast : j < pc /\ Generated(j)' /\ MadeFor(relocs[k], ast[j])
  BY <1>5 DEF HostsInv
<1>7. ASSUME NEW k \in DOMAIN relocs', k \notin DOMAIN relocs
      PROVE  k - Len(relocs) \in DOMAIN new /\ relocs'[k] = new[k - Len(relocs)]
  BY <1>3, <1>7 DEF Joined
<1>8. HostsInv'
  <2> SUFFICES ASSUME NEW k \in DOMAIN relocs'
               PROVE  \E j \in DOMAIN ast : Generated(j)' /\ MadeFor(relocs'[k], ast[j])
    BY <1>3, <1>4 DEF HostsInv
  <2>1. CASE k \in DOMAIN relocs
    <3>1. relocs'[k] = relocs[k]
      BY <1>3, <2>1 DEF Joined
    <3> QED BY <1>6, <2>1, <3>1
  <2>2. CASE k \notin DOMAIN relocs
    <3>1. MadeFor(relocs'[k], ast[pc])
      BY <1>3, <1>7, <2>2
    <3> QED BY <1>1, <1>5, <3>1
  <2> QED BY <2>1, <2>2
<1>9. ASSUME NEW k \in DOMAIN relocs, NEW l \in DOMAIN new
      PROVE  Apart(relocs[k], new[l]) /\ Apart(new[l], relocs[k])
  <2>1. PICK j \in DOMAIN ast : j < pc /\ MadeFor(relocs[k], ast[j])
    BY <1>6
  <2>2. j # pc
    BY <1>1, <2>1, NodeTypes
  <2>3. relocs[k] \in Reloc /\ new[l] \in Reloc
    BY <1>2 DEF BaseInv, RelocsOK, VisitDoes
  <2> QED BY <1>1, <1>3, <2>1, <2>2, <2>3, HostedApart
<1>10. FieldsApart'
  <2>0. \A r, q : Apart(r, q)' <=> Apart(r, q)
    BY DEF Apart, FieldBytes
  <2> SUFFICES ASSUME NEW k \in DOMAIN relocs', NEW l \in DOMAIN relocs', k # l
               PROVE  Apart(relocs'[k], relocs'[l])
    BY <2>0, Zenon DEF FieldsApart
  <2>1. \A i \in DOMAIN relocs : relocs'[i] = relocs[i]
    BY <1>3 DEF Joined
  <2>2. CASE k \in DOMAIN relocs /\ l \in DOMAIN relocs
    BY <2>1, <2>2 DEF FieldsApart
  <2>3. CASE k \in DOMAIN relocs /\ l \notin DOMAIN relocs
    BY <1>7, <1>9, <2>1, <2>3
  <2>4. CASE k \notin DOMAIN relocs /\ l \in DOMAIN relocs
    BY <1>7, <1>9, <2>1, <2>4
  <2>5. CASE k \notin DOMAIN relocs /\ l \notin DOMAIN relocs
    <3>1. k - Len(relocs) # l - Len(relocs)
      <4>1. Len(relocs) \in Int /\ relocs' \in Seq(Reloc)
        <5>1. BaseInv'
          BY <1>1, VisitsAreFit, VisitInv, VisitPhase
        <5> QED BY <5>1 DEF BaseInv, RelocsOK
      <4>2. k \in Int /\ l \in Int
        BY <4>1
      <4> QED BY <2>1, <4>1, <4>2
    <3> QED BY <1>3, <1>7, <2>5, <3>1
  <2> QED BY <2>2, <2>3, <2>4, <2>5
<1> QED BY <1>8, <1>10
LEMMA OnlyVisitsQueue ==
  ASSUME BaseInv, [Next]_vars, ~Visits
  PROVE  relocs' = relocs
<1>1. Quiet => relocs' = relocs
  BY DEF Quiet
<1> QED BY <1>1, StepKinds, QuietInv DEF ParseLine, Relocate

PlaceInv == InOrder /\ HostsInv /\ FieldsApart

LEMMA PlaceNext == BaseInv /\ PlaceInv /\ [Next]_vars => PlaceInv'
<1> SUFFICES ASSUME BaseInv, PlaceInv, [Next]_vars
             PROVE  PlaceInv'
  OBVIOUS
<1>1. InOrder'
  BY OrderNext DEF PlaceInv
<1>2. CASE Visits
  BY <1>1, <1>2, VisitHosts DEF PlaceInv
<1>3. CASE ~Visits
  <2>1. relocs' = relocs
    BY <1>3, OnlyVisitsQueue
  <2>2. FieldsApart'
    BY <2>1 DEF PlaceInv, FieldsApart, Apart, FieldBytes
  <2>3. CASE phase = "parse"
    <3>1. DOMAIN relocs = {}
      BY <2>3 DEF PlaceInv, HostsInv, Generated
    <3> QED BY <1>1, <2>1, <2>2, <3>1 DEF PlaceInv, HostsInv
  <2>4. CASE phase # "parse"
    <3>1. /\ symbols' = symbols /\ ast' = ast
          /\ \A j \in DOMAIN ast : Generated(j) => Generated(j)'
      BY <2>4, GeneratedStays
    <3>2. \A r, n : MadeFor(r, n)' <=> MadeFor(r, n)
      BY <3>1, MadeForKept
    <3>3. HostsInv'
      BY <2>1, <3>1, <3>2 DEF PlaceInv, HostsInv
    <3> QED BY <1>1, <2>2, <3>3 DEF PlaceInv
  <2> QED BY <2>3, <2>4
<1> QED BY <1>2, <1>3

LEMMA PlaceInit == Init => PlaceInv
BY DEF Init, PlaceInv, InOrder, HostsInv, FieldsApart

-----------------------------------------------------------------------------
\* What the fields of references hold: when they change.

LEMMA SameWord ==
  ASSUME NEW c, NEW d, NEW o \in Nat, Len(c) \in Nat, Len(d) \in Nat,
         o + 2 <= Len(c), o + 2 <= Len(d), d[o + 1] = c[o + 1], d[o + 2] = c[o + 2]
  PROVE  WordAt(d, o) = WordAt(c, o)
<1>1. o + 1 <= Len(c) /\ o + 1 <= Len(d)
  OBVIOUS
<1> QED BY <1>1, Zenon DEF WordAt

\* The high byte of a word, and its low byte.
LEMMA BytesOfWord ==
  ASSUME NEW x \in S!Byte, NEW y \in S!Byte
  PROVE  /\ (x + 256 * y) \div 256 = y /\ (x + 256 * y) % 256 = x
         /\ FieldOf(x + 256 * y, 0, 8) = x
<1>1. (y * 256 + x) \div 256 = y /\ (y * 256 + x) % 256 = x
  <2>1. x \in 0 .. 256 - 1 /\ y \in Int
    BY DEF S!Byte
  <2> QED BY <2>1, DivMod
<1>2. x + 256 * y = y * 256 + x /\ x + 256 * y \in Int
  BY DEF S!Byte
<1> DEFINE w == x + 256 * y
<1>3. FieldOf(w, 0, 8) = w % 256
  <2>1. w \in Int
    BY <1>2
  <2> HIDE DEF w
  <2>2. 2^0 = 1 /\ 2^8 = 256 /\ w \div 1 = w
    BY <2>1
  <2> QED BY <2>2 DEF FieldOf
<1> QED BY <1>1, <1>2, <1>3

\* The bytes a word is read from.
LEMMA WordReads ==
  ASSUME NEW c \in Seq(S!Byte), NEW o \in Nat, o + 1 <= Len(c)
  PROVE  \E y \in S!Byte : /\ WordAt(c, o) = c[o + 1] + 256 * y
                           /\ o + 2 <= Len(c) => y = c[o + 2]
                           /\ c[o + 1] \in S!Byte
<1>1. /\ Len(c) \in Nat /\ \A i \in 1 .. Len(c) : c[i] \in S!Byte
  OBVIOUS
<1>2. c[o + 1] \in S!Byte
  BY <1>1
<1> DEFINE y == IF o + 2 <= Len(c) THEN c[o + 2] ELSE S!Filler
<1>3. y \in S!Byte
  <2>1. CASE o + 2 <= Len(c)
    <3>1. o + 2 \in 1 .. Len(c)
      BY <1>1, <2>1
    <3> QED BY <1>1, <2>1, <3>1
  <2>2. CASE ~(o + 2 <= Len(c))
    BY <2>2 DEF S!Filler, S!Byte
  <2> QED BY <2>1, <2>2
<1>4. WordAt(c, o) = c[o + 1] + 256 * y
  BY Zenon DEF WordAt
<1> HIDE DEF y
<1>5. o + 2 <= Len(c) => y = c[o + 2]
  BY DEF y
<1> QED BY <1>2, <1>3, <1>4, <1>5

\* A relocation changes the bytes of its field only.
LEMMA RelocateInField ==
  ASSUME BaseInv, Relocate, NEW s \in DOMAIN table, NEW i \in DOMAIN Contents(s),
         table'[s].contents[i] # Contents(s)[i]
  PROVE  InField(relocs[pc], s, i)
<1> DEFINE r == relocs[pc]
           o == r.offset
           c == Contents(s)
           d == table'[s].contents
           old == WordAt(Contents(r.section), r.offset)
           new == WordAt(table'[r.section].contents, r.offset)
<1>1. pc \in DOMAIN relocs /\ phase = "relocate" /\ pc <= Len(relocs)
  BY RelocateWrites DEF Relocate
<1>2. /\ s = r.section /\ i \in {o + 1, o + 2}
      /\ old \div 2^(r.position + r.width) = new \div 2^(r.position + r.width)
  <2>1. RelocateStep
    BY RelocateStays
  <2> QED BY <1>1, <2>1 DEF RelocateStep
<1>3. /\ o \in Nat /\ FieldBytes(r) \in {1, 2} /\ (FieldBytes(r) = 1 <=> r.width = 8)
      /\ FieldFits(r)
  BY <1>1, RelocFields
<1>4. /\ c \in Seq(S!Byte) /\ d \in Seq(S!Byte) /\ Len(d) >= Len(c)
      /\ Len(c) \in Nat /\ Len(d) \in Nat /\ i \in 1 .. Len(c)
  <2>1. TableOK /\ TableOK'
    BY RelocateInv DEF BaseInv
  <2>2. TableGrows /\ s \in DOMAIN table'
    <3>1. PICK b \in Seq(S!Byte) : Len(b) = 2 /\ S!WriteBlock(r.section, r.offset, b)
      BY RelocateWrites
    <3> QED BY <1>1, <3>1, PatchTable
  <2> QED BY <2>1, <2>2, TableTypes, ContentsAfter DEF TableGrows
<1>5. CASE FieldBytes(r) = 2
  BY <1>2, <1>3, <1>5 DEF InField
<1>6. CASE FieldBytes(r) = 1
  <2>1. r.width = 8 /\ r.position = 0
    BY <1>3, <1>6, WidthAssumption DEF FieldFits
  <2>2. old = WordAt(c, o) /\ new = WordAt(d, o)
    BY <1>2
  <2>3. WordAt(c, o) \div 256 = WordAt(d, o) \div 256
    <3>1. 2^(0 + 8) = 256
      OBVIOUS
    <3>2. old \div 256 = new \div 256
      BY <1>2, <2>1, <3>1
    <3> QED BY <2>2, <3>2
  <2> HIDE DEF old, new
  <2>4. i # o + 2
    <3> SUFFICES ASSUME i = o + 2 PROVE c[o + 2] = d[o + 2]
      OBVIOUS
    <3> HIDE DEF o, c, d
    <3>1. o + 1 <= Len(c) /\ o + 1 <= Len(d) /\ o + 2 <= Len(c) /\ o + 2 <= Len(d)
      BY <1>3, <1>4
    <3>2. PICK y \in S!Byte : /\ WordAt(c, o) = c[o + 1] + 256 * y
                              /\ y = c[o + 2] /\ c[o + 1] \in S!Byte
      BY <1>3, <1>4, <3>1, WordReads
    <3>3. PICK z \in S!Byte : /\ WordAt(d, o) = d[o + 1] + 256 * z
                              /\ z = d[o + 2] /\ d[o + 1] \in S!Byte
      BY <1>3, <1>4, <3>1, WordReads
    <3>4. WordAt(c, o) \div 256 = y /\ WordAt(d, o) \div 256 = z
      BY <3>2, <3>3, BytesOfWord
    <3> QED BY <2>3, <3>2, <3>3, <3>4
  <2> QED BY <1>2, <1>3, <1>6, <2>4 DEF InField
<1> QED BY <1>3, <1>5, <1>6
\* A field reads the same after a step.
FieldSame(r) ==
  LET old == WordAt(Contents(r.section), r.offset)
      new == WordAt(table'[r.section].contents, r.offset)
  IN  IF r.width = 8 THEN FieldOf(new, 0, 8) = FieldOf(old, 0, 8) ELSE new = old

\* A statement of one word reads the same after a step.
WordSame(n) == WordAt(table'[n.section].contents, n.offset)
                 = WordAt(Contents(n.section), n.offset)

LEMMA FieldKept ==
  ASSUME TableOK, TableOK', TableGrows, NEW r \in Reloc, RelocFits(r),
         \A i \in DOMAIN Contents(r.section) :
           InField(r, r.section, i) =>
             table'[r.section].contents[i] = Contents(r.section)[i]
  PROVE  FieldSame(r)
<1> DEFINE o == r.offset
           c == Contents(r.section)
           d == table'[r.section].contents
<1>1. /\ r.section \in DOMAIN table /\ r.section \in DOMAIN table' /\ o \in Nat
      /\ o + FieldBytes(r) <= Len(c)
  BY DEF RelocFits, Reloc, TableGrows
<1>2. /\ c \in Seq(S!Byte) /\ d \in Seq(S!Byte) /\ Len(d) >= Len(c)
      /\ Len(c) \in Nat /\ Len(d) \in Nat /\ DOMAIN c = 1 .. Len(c)
  BY <1>1, TableTypes, ContentsAfter DEF TableGrows
<1> HIDE DEF c, d
<1>3. \A i \in 1 .. Len(c) : i > o /\ i <= o + FieldBytes(r) => d[i] = c[i]
  BY <1>2 DEF InField, c, d
<1> HIDE DEF o
<1>4. CASE r.width = 8
  <2>1. FieldBytes(r) = 1
    BY <1>4 DEF FieldBytes
  <2>2. o + 1 <= Len(c) /\ o + 1 <= Len(d) /\ d[o + 1] = c[o + 1]
    <3>1. o + 1 <= Len(c) /\ o + 1 <= Len(d) /\ o + 1 \in 1 .. Len(c)
      BY <1>1, <1>2, <2>1
    <3> QED BY <1>1, <1>3, <2>1, <3>1
  <2>3. PICK y \in S!Byte : /\ WordAt(c, o) = c[o + 1] + 256 * y
                            /\ c[o + 1] \in S!Byte
    BY <1>1, <1>2, <2>2, WordReads
  <2>4. PICK z \in S!Byte : /\ WordAt(d, o) = d[o + 1] + 256 * z
                            /\ d[o + 1] \in S!Byte
    BY <1>1, <1>2, <2>2, WordReads
  <2>5. FieldOf(WordAt(d, o), 0, 8) = FieldOf(WordAt(c, o), 0, 8)
    BY <2>2, <2>3, <2>4, BytesOfWord
  <2> QED BY <1>4, <2>5 DEF FieldSame, c, d, o
<1>5. CASE r.width # 8
  <2>1. FieldBytes(r) = 2
    BY <1>5 DEF FieldBytes
  <2>2. /\ o + 2 <= Len(c) /\ o + 2 <= Len(d)
        /\ o + 1 \in 1 .. Len(c) /\ o + 2 \in 1 .. Len(c)
    BY <1>1, <1>2, <2>1
  <2>3. d[o + 1] = c[o + 1] /\ d[o + 2] = c[o + 2]
    BY <1>1, <1>3, <2>1, <2>2
  <2>4. WordAt(d, o) = WordAt(c, o)
    BY <1>1, <1>2, <2>2, <2>3, SameWord
  <2> QED BY <1>5, <2>4 DEF FieldSame, c, d, o
<1> QED BY <1>4, <1>5

LEMMA StatementKept ==
  ASSUME TableOK, TableOK', TableGrows, NEW n \in Nodes, NodeFits(n), n.size = 2,
         \A i \in DOMAIN Contents(n.section) :
           Owns(n, n.section, i) => table'[n.section].contents[i] = Contents(n.section)[i]
  PROVE  WordSame(n)
<1> DEFINE o == n.offset
           c == Contents(n.section)
           d == table'[n.section].contents
<1>1. /\ n.section \in DOMAIN table /\ n.section \in DOMAIN table' /\ o \in Nat
      /\ o + 2 <= Len(c)
  BY DEF NodeFits, Nodes, TableGrows
<1>2. /\ Len(d) >= Len(c) /\ Len(c) \in Nat /\ Len(d) \in Nat /\ DOMAIN c = 1 .. Len(c)
  BY <1>1, TableTypes, ContentsAfter DEF TableGrows
<1> HIDE DEF c, d
<1>3. \A i \in 1 .. Len(c) : i > o /\ i <= o + 2 => d[i] = c[i]
  BY <1>2 DEF Owns, c, d
<1> HIDE DEF o
<1>4. /\ o + 2 <= Len(d) /\ o + 1 \in 1 .. Len(c) /\ o + 2 \in 1 .. Len(c)
  BY <1>1, <1>2
<1>5. d[o + 1] = c[o + 1] /\ d[o + 2] = c[o + 2]
  BY <1>1, <1>3, <1>4
<1>6. WordAt(d, o) = WordAt(c, o)
  BY <1>1, <1>2, <1>4, <1>5, SameWord
<1> QED BY <1>6 DEF WordSame, c, d, o

\* A visit leaves the fields queued before it, and the other statements.
LEMMA VisitKeeps ==
  ASSUME BaseInv, PlaceInv, Visits
  PROVE  /\ \A k \in DOMAIN relocs : FieldSame(relocs[k])
         /\ \A j \in DOMAIN ast : j # pc /\ ast[j].size = 2 => WordSame(ast[j])
<1>1. phase = "generate" /\ pc \in DOMAIN ast /\ This = ast[pc]
  BY VisitEffects
<1>2. VisitStep
  BY VisitsWriteTheirExtent
<1>3. TableOK /\ TableOK' /\ TableGrows
  <2>1. PICK b : InPlace(b)
    BY VisitsWriteTheirExtent
  <2> QED BY <2>1, InPlaceGrows DEF InPlace, BaseInv
<1>4. ASSUME NEW s \in DOMAIN table, NEW i \in DOMAIN Contents(s),
             table'[s].contents[i] # Contents(s)[i]
      PROVE  Owns(ast[pc], s, i) /\ i \in Nat
  <2>1. This.section = s /\ i \in Extent(pc)
    BY <1>1, <1>2, <1>4 DEF VisitStep
  <2>2. i \in Nat
    BY <1>3, TableTypes
  <2> QED BY <1>1, <2>1, <2>2, OwnedExtent DEF BaseInv
<1>5. ASSUME NEW j \in DOMAIN ast, j # pc, NEW s \in DOMAIN table, NEW i \in DOMAIN Contents(s),
             Owns(ast[j], s, i)
      PROVE  table'[s].contents[i] = Contents(s)[i]
  <2> SUFFICES ASSUME table'[s].contents[i] # Contents(s)[i] PROVE FALSE
    OBVIOUS
  <2>1. Owns(ast[pc], s, i) /\ i \in Nat
    BY <1>4
  <2> QED BY <1>1, <1>5, <2>1, StatementsApart DEF PlaceInv
<1>6. ASSUME NEW j \in DOMAIN ast, j # pc, ast[j].size = 2
      PROVE  WordSame(ast[j])
  <2>1. ast[j] \in Nodes /\ NodeFits(ast[j]) /\ ast[j].section \in DOMAIN table
    BY NodeTypes
  <2> QED BY <1>3, <1>5, <1>6, <2>1, StatementKept
<1>7. ASSUME NEW k \in DOMAIN relocs
      PROVE  FieldSame(relocs[k])
  <2>1. PICK j \in DOMAIN ast : Generated(j) /\ MadeFor(relocs[k], ast[j])
    BY DEF PlaceInv, HostsInv
  <2>2. j # pc
    BY <1>1, <2>1, NodeTypes DEF Generated
  <2>3. relocs[k] \in Reloc /\ RelocFits(relocs[k]) /\ relocs[k].section \in DOMAIN table
    BY RelocFields
  <2>4. ASSUME NEW i \in DOMAIN Contents(relocs[k].section),
               InField(relocs[k], relocs[k].section, i)
        PROVE  table'[relocs[k].section].contents[i] = Contents(relocs[k].section)[i]
    <3>1. i \in Nat
      BY <1>3, <2>3, TableTypes
    <3>2. Owns(ast[j], relocs[k].section, i)
      BY <2>1, <2>4, <3>1, FieldOwned
    <3> QED BY <1>5, <2>2, <2>3, <3>2
  <2> QED BY <1>3, <2>3, <2>4, FieldKept
<1> QED BY <1>6, <1>7

\* A relocation leaves the other fields, and the statements without one.
LEMMA RelocateKeeps ==
  ASSUME BaseInv, PlaceInv, Relocate
  PROVE  /\ \A k \in DOMAIN relocs : k # pc => FieldSame(relocs[k])
         /\ \A j \in DOMAIN ast :
              ast[j].size = 2 /\ ast[j].stmt.op = "branch" => WordSame(ast[j])
<1> DEFINE r == relocs[pc]
<1>1. pc \in DOMAIN relocs
  BY RelocateWrites
<1>2. TableOK /\ TableOK' /\ TableGrows
  <2>1. PICK b \in Seq(S!Byte) : Len(b) = 2 /\ S!WriteBlock(r.section, r.offset, b)
    BY RelocateWrites
  <2> QED BY <1>1, <2>1, PatchTable DEF BaseInv
<1>3. PICK h \in DOMAIN ast : MadeFor(r, ast[h])
  BY <1>1 DEF PlaceInv, HostsInv
<1>4. ASSUME NEW j \in DOMAIN ast, ast[j].size = 2, ast[j].stmt.op = "branch"
      PROVE  WordSame(ast[j])
  <2>1. ast[j] \in Nodes /\ NodeFits(ast[j]) /\ ast[j].section \in DOMAIN table
    BY NodeTypes
  <2>2. h # j
    BY <1>3, <1>4 DEF MadeFor
  <2>3. ASSUME NEW i \in DOMAIN Contents(ast[j].section), Owns(ast[j], ast[j].section, i)
        PROVE  table'[ast[j].section].contents[i] = Contents(ast[j].section)[i]
    <3> SUFFICES ASSUME table'[ast[j].section].contents[i] # Contents(ast[j].section)[i]
                 PROVE FALSE
      OBVIOUS
    <3>1. InField(r, ast[j].section, i) /\ i \in Nat
      BY <1>2, <2>1, RelocateInField, TableTypes
    <3>2. Owns(ast[h], ast[j].section, i)
      BY <1>3, <3>1, FieldOwned
    <3> QED BY <2>2, <2>3, <3>1, <3>2, StatementsApart DEF PlaceInv
  <2> QED BY <1>2, <1>4, <2>1, <2>3, StatementKept
<1>5. ASSUME NEW k \in DOMAIN relocs, k # pc
      PROVE  FieldSame(relocs[k])
  <2> DEFINE q == relocs[k]
  <2>1. q \in Reloc /\ RelocFits(q) /\ q.section \in DOMAIN table /\ q.offset \in Nat
    BY RelocFields
  <2>2. Apart(r, q) /\ r.offset \in Nat
    BY <1>1, <1>5, RelocFields DEF PlaceInv, FieldsApart
  <2>3. ASSUME NEW i \in DOMAIN Contents(q.section), InField(q, q.section, i)
        PROVE  table'[q.section].contents[i] = Contents(q.section)[i]
    <3> SUFFICES ASSUME table'[q.section].contents[i] # Contents(q.section)[i]
                 PROVE FALSE
      OBVIOUS
    <3>1. InField(r, q.section, i) /\ i \in Nat
      BY <1>2, <2>1, RelocateInField, TableTypes
    <3>2. r.section = q.section
      BY <3>1 DEF InField
    <3> HIDE DEF r, q
    <3> QED BY <2>1, <2>2, <2>3, <3>1, <3>2, ApartFields
  <2> HIDE DEF q
  <2>4. FieldSame(q)
    BY <1>2, <2>1, <2>3, FieldKept
  <2> QED BY <2>4 DEF q
<1> QED BY <1>4, <1>5
-----------------------------------------------------------------------------
\* What the fields of references hold: the values.

\* What the generator made of a statement that mentions a label.
Coded(n) ==
  /\ n.stmt.op = "ldr" /\ Refers(n.stmt.target) =>
       /\ LabelNear(n.stmt.target, n.section)
       /\ \E k \in DOMAIN relocs : relocs[k] = LoadReloc(n)
  /\ n.stmt.op = "branch" /\ Refers(n.stmt.target) =>
       /\ LabelNear(n.stmt.target, n.section) /\ BranchInRange(n)
       /\ WordAt(Contents(n.section), n.offset) = BranchWord(n)
  /\ n.stmt.op = "data" =>
       \A i \in DOMAIN n.stmt.values :
         Refers(n.stmt.values[i]) =>
           /\ Evaluates(n.stmt.values[i])
           /\ \E k \in DOMAIN relocs : relocs[k] = DataReloc(n, i)

CodedInv == error_count = 0 => \A j \in DOMAIN ast : Generated(j) => Coded(ast[j])

\* A field before and after its relocation is applied.
FieldWord(r) == WordAt(Contents(r.section), r.offset)

Waiting(r) == r.type = "RELATIVE_UNSIGNED" => FieldWord(r) = LdrOpcode

Applied(r) ==
  /\ ValueFits(r)
  /\ IF r.type = "RELATIVE_UNSIGNED"
     THEN FieldWord(r) = PatchField(LdrOpcode, LdrPosition, LdrWidth, PatchValue(r))
     ELSE FieldOf(FieldWord(r), 0, r.width) = PatchValue(r) % 2^r.width

Patched(k) == (phase = "relocate" /\ k < pc) \/ phase \in {"load", "exit"}

FieldsInv ==
  error_count = 0 =>
    \A k \in DOMAIN relocs : IF Patched(k) THEN Applied(relocs[k]) ELSE Waiting(relocs[k])

\* The meaning of operands depends on the labels only.
LEMMA MeaningKept ==
  ASSUME symbols' = symbols
  PROVE  /\ \A e : Evaluates(e)' <=> Evaluates(e)
         /\ \A e, s : LabelNear(e, s)' <=> LabelNear(e, s)
         /\ \A n : LoadReloc(n)' = LoadReloc(n)
         /\ \A n, i : DataReloc(n, i)' = DataReloc(n, i)
         /\ \A n : BranchWord(n)' = BranchWord(n)
         /\ \A n : BranchInRange(n)' <=> BranchInRange(n)
<1>1. \A e : ValueOf(e)' = ValueOf(e)
  BY SMT DEF ValueOf, IntOf, IsLabel
<1>2. \A e : Evaluates(e)' <=> Evaluates(e)
  BY SMT DEF Evaluates, NumberFits, IntOf, IsLabel, Fits16, MaxWord, Defined, Undefined
<1>3. \A e, s : LabelNear(e, s)' <=> LabelNear(e, s)
  BY <1>2, Zenon DEF LabelNear, SectionOf, IsLabel
<1>4. \A n : LoadReloc(n)' = LoadReloc(n)
  BY <1>1, Zenon DEF LoadReloc, LdrAddend, LdrPosition
<1>5. \A n, i : DataReloc(n, i)' = DataReloc(n, i)
  BY <1>1, Zenon DEF DataReloc
<1>6. \A n : BranchLength(n)' = BranchLength(n)
  BY <1>1, Zenon DEF BranchLength
<1>7. \A n : BranchWord(n)' = BranchWord(n)
  BY <1>6, SMT DEF BranchWord, BranchOpcode
<1>8. \A n : BranchInRange(n)' <=> BranchInRange(n)
  BY <1>6, Zenon DEF BranchInRange
<1> QED BY <1>2, <1>3, <1>4, <1>5, <1>7, <1>8

LEMMA CodedKept ==
  ASSUME symbols' = symbols, \A k \in DOMAIN relocs : \E l \in DOMAIN relocs' : relocs'[l] = relocs[k],
         NEW n, Coded(n), n.stmt.op = "branch" => WordSame(n)
  PROVE  Coded(n)'
<1>1. /\ \A e : Evaluates(e)' <=> Evaluates(e)
      /\ \A e, s : LabelNear(e, s)' <=> LabelNear(e, s)
      /\ LoadReloc(n)' = LoadReloc(n)
      /\ \A i : DataReloc(n, i)' = DataReloc(n, i)
      /\ BranchWord(n)' = BranchWord(n)
      /\ BranchInRange(n)' <=> BranchInRange(n)
  BY MeaningKept
<1>2. ASSUME NEW r, \E k \in DOMAIN relocs : relocs[k] = r
      PROVE  \E k \in DOMAIN relocs' : relocs'[k] = r
  BY <1>2
<1>3. \A e : Refers(e)' <=> Refers(e)
  BY ReferencesKept
<1>4. (n.stmt.op = "ldr" /\ Refers(n.stmt.target))' =>
        /\ LabelNear(n.stmt.target, n.section)'
        /\ \E k \in DOMAIN relocs' : relocs'[k] = LoadReloc(n)'
  BY <1>1, <1>2, <1>3, Zenon DEF Coded
<1>5. (n.stmt.op = "branch" /\ Refers(n.stmt.target))' =>
        /\ LabelNear(n.stmt.target, n.section)' /\ BranchInRange(n)'
        /\ WordAt(table'[n.section].contents, n.offset) = BranchWord(n)'
  BY <1>1, <1>3, Zenon DEF Coded, WordSame
<1>6. n.stmt.op = "data" =>
        \A i \in DOMAIN n.stmt.values :
          Refers(n.stmt.values[i])' =>
            /\ Evaluates(n.stmt.values[i])'
            /\ \E k \in DOMAIN relocs' : relocs'[k] = DataReloc(n, i)'
  BY <1>1, <1>2, <1>3, ZenonT(40) DEF Coded
<1>7. WordAt(Contents(n.section), n.offset)' = WordAt(table'[n.section].contents, n.offset)
  BY DEF WordAt, Contents
<1> QED BY <1>4, <1>5, <1>6, <1>7, Zenon DEF Coded

LEMMA OpcodeWords ==
  /\ LdrOpcode \in Word
  /\ \A x \in Int : BranchOpcode + (x % 2^BranchWidth) \in Word
<1>1. LdrOpcode \in Nat /\ LdrOpcode < WordCount
  BY SMT DEF LdrOpcode, WordCount
<1>2. BranchOpcode \in Nat /\ BranchOpcode < 100 * 256
  BY SMT DEF BranchOpcode
<1>3. 2^BranchWidth \in Nat \ {0} /\ 2^BranchWidth <= 4 * 256
  <2>1. BranchWidth \in 0 .. 30
    BY WidthAssumption
  <2>2. 2^BranchWidth <= 4 * 256
    <3>1. /\ 2^1 <= 4 * 256 /\ 2^2 <= 4 * 256 /\ 2^3 <= 4 * 256 /\ 2^4 <= 4 * 256
          /\ 2^5 <= 4 * 256 /\ 2^6 <= 4 * 256 /\ 2^7 <= 4 * 256 /\ 2^8 <= 4 * 256
          /\ 2^9 <= 4 * 256 /\ 2^10 <= 4 * 256
      BY SMT
    <3>2. BranchWidth \in {1, 2, 3, 4, 5, 6, 7, 8, 9, 10}
      BY WidthAssumption
    <3> QED BY <3>1, <3>2, Zenon
  <2> QED BY <2>1, <2>2, Powers
<1> DEFINE k == 2^BranchWidth
<1>4. ASSUME NEW x \in Int PROVE BranchOpcode + (x % k) \in Word
  <2>1. k \in Nat \ {0} /\ k <= 4 * 256
    BY <1>3
  <2> HIDE DEF k
  <2>2. x % k \in 0 .. k - 1
    BY <2>1, QuotientAndRest
  <2> DEFINE m == x % k
  <2>3. m \in 0 .. k - 1
    BY <2>2
  <2> HIDE DEF m
  <2>4. BranchOpcode + m \in Nat /\ BranchOpcode + m < WordCount
    BY <1>2, <2>1, <2>3 DEF WordCount
  <2>5. BranchOpcode + m \in Word
    BY <2>4, WordLimit
  <2> QED BY <2>5 DEF m
<1> QED BY <1>1, <1>4, WordLimit
\* A word written over a whole statement is what it reads.
LEMMA WrittenWord ==
  ASSUME BaseInv, pc <= Len(ast), This.size = 2, NEW w \in Word, InPlace(Bytes(w, 2))
  PROVE  WordAt(table'[This.section].contents, This.offset) = w
<1> DEFINE o == This.offset
           b == Bytes(w, 2)
           d == table'[This.section].contents
           n == Len(Contents(This.section))
<1>1. /\ This.section \in DOMAIN table /\ o \in Nat /\ n \in Nat /\ o + 2 <= n
  BY ThisFits
<1>2. w \in Int
  BY WordsAreNumbers
<1>3. /\ Len(b) = 2 /\ b[1] = w % 256 /\ b[2] = (w \div 256) % 256
  BY <1>2, WordBytes
<1>4. /\ Len(d) = n
      /\ \A i \in 1 .. n : i > o /\ i <= o + 2 => d[i] = b[i - o]
  BY <1>1, <1>3 DEF InPlace
<1> HIDE DEF o, b, d, n
<1>5. /\ o + 1 \in 1 .. n /\ o + 2 \in 1 .. n /\ o + 1 > o /\ o + 1 <= o + 2
      /\ o + 2 > o /\ o + 2 <= o + 2 /\ (o + 1) - o = 1 /\ (o + 2) - o = 2
      /\ o + 1 <= n /\ o + 2 <= n
  BY <1>1
<1>6. d[o + 1] = b[1] /\ d[o + 2] = b[2]
  BY <1>4, <1>5
<1>7. WordAt(d, o) = d[o + 1] + 256 * d[o + 2]
  BY <1>4, <1>5, Zenon DEF WordAt
<1>8. (w % 256) + 256 * ((w \div 256) % 256) = w
  BY WordOfBytes
<1>9. WordAt(d, o) = w
  BY <1>3, <1>6, <1>7, <1>8, ZenonT(40)
<1> QED BY <1>9 DEF d, o

\* Errors are never taken back.
LEMMA ErrorsGrow ==
  ASSUME BaseInv, [Next]_vars, error_count' = 0
  PROVE  error_count = 0
<1>0. error_count \in Nat
  BY DEF BaseInv, CountsOK
<1>1. CASE Visits
  <2>1. PICK b, new, errors : VisitDoes(b, new, errors)
    BY <1>1, VisitEffects
  <2>2. errors \in Nat /\ error_count' = error_count + errors
    BY <2>1 DEF VisitDoes
  <2> QED BY <1>0, <2>2
<1>2. CASE Relocate
  <2>1. PICK errors, warnings : Patches(relocs[pc], PatchValue(relocs[pc]), errors, warnings)
    BY <1>2, RelocateValue
  <2>2. errors \in Nat /\ error_count' = error_count + errors
    BY <2>1 DEF Patches
  <2> QED BY <1>0, <2>2
<1>3. CASE ParseLine
  <2> DEFINE line == source[Len(ast) + 1]
             a == ParseErrors(line.stmt)
             c == Count(line.label # NoLabel /\ Defined(line.label))
  <2>1. error_count' = error_count + a + c
    BY <1>3 DEF ParseLine
  <2>2. c \in Nat /\ a \in Nat
    BY DEF Count, ParseErrors, EvalErrors
  <2> HIDE DEF a, c
  <2> QED BY <1>0, <2>1, <2>2
<1>4. CASE SyntaxError \/ OverlapExit
  <2>1. error_count' = error_count + 1
    BY <1>4 DEF SyntaxError, OverlapExit
  <2> QED BY <1>0, <2>1
<1>5. CASE EndOfFile \/ EndOfCode \/ EndOfLocation \/ EndOfRelocation
  <2>1. UNCHANGED error_count
    BY <1>5 DEF EndOfFile, EndOfCode, EndOfLocation, EndOfRelocation, GoTo, reports
  <2> QED BY <2>1
<1>6. CASE VisitOther \/ LocateSection \/ LoadSection \/ WriteOutput \/ UNCHANGED vars
  <2>1. UNCHANGED error_count
    BY <1>6 DEF VisitOther, LocateSection, LoadSection, WriteOutput, vars, reports
  <2> QED BY <2>1
<1> QED BY <1>1, <1>2, <1>3, <1>4, <1>5, <1>6, StepKinds
LEMMA QuietCoded ==
  ASSUME Quiet, NEW n, Coded(n)
  PROVE  Coded(n)'
<1>1. symbols' = symbols /\ relocs' = relocs /\ table' = table
  BY DEF Quiet, sectionVars
<1>2. WordSame(n)
  BY <1>1, Zenon DEF WordSame, Contents
<1> QED BY <1>1, <1>2, CodedKept

\* A visit without errors leaves its statement as coded.
LEMMA VisitCodes ==
  ASSUME BaseInv, Visits, error_count = 0, error_count' = 0, NEW n, n = This
  PROVE  Coded(n)'
<1>1. phase = "generate" /\ pc \in DOMAIN ast /\ This = ast[pc] /\ pc <= Len(ast)
  BY VisitEffects, VisitPhase
<1>2. PICK b, new, errors : VisitDoes(b, new, errors)
  BY VisitEffects
<1>3. /\ errors \in Nat /\ error_count' = error_count + errors
      /\ InPlace(b) /\ symbols' = symbols
      /\ Joined(new) /\ VisitMakes(n, b, new, errors)
  BY <1>2 DEF VisitDoes
<1>4. errors = 0
  BY <1>3
<1>5. ASSUME NEW r, \E k \in DOMAIN new : new[k] = r
      PROVE  \E l \in DOMAIN relocs' : relocs'[l] = r
  BY <1>3, <1>5 DEF Joined
<1>6. /\ \A e : Evaluates(e)' <=> Evaluates(e)
      /\ \A e, s : LabelNear(e, s)' <=> LabelNear(e, s)
      /\ LoadReloc(n)' = LoadReloc(n)
      /\ \A i : DataReloc(n, i)' = DataReloc(n, i)
      /\ BranchWord(n)' = BranchWord(n)
      /\ BranchInRange(n)' <=> BranchInRange(n)
      /\ \A e : Refers(e)' <=> Refers(e)
  BY <1>3, MeaningKept, ReferencesKept
<1>7. (n.stmt.op = "ldr" /\ Refers(n.stmt.target))' =>
        /\ LabelNear(n.stmt.target, n.section)'
        /\ \E k \in DOMAIN relocs' : relocs'[k] = LoadReloc(n)'
  BY <1>3, <1>4, <1>5, <1>6, Zenon DEF VisitMakes, LoadMade
<1>8. (n.stmt.op = "branch" /\ Refers(n.stmt.target))' =>
        /\ LabelNear(n.stmt.target, n.section)' /\ BranchInRange(n)'
        /\ WordAt(table'[n.section].contents, n.offset) = BranchWord(n)'
  <2> SUFFICES ASSUME n.stmt.op = "branch", Refers(n.stmt.target)
               PROVE  /\ LabelNear(n.stmt.target, n.section) /\ BranchInRange(n)
                      /\ WordAt(table'[n.section].contents, n.offset) = BranchWord(n)
    BY <1>6, Zenon
  <2>1. /\ LabelNear(n.stmt.target, n.section) /\ BranchInRange(n)
        /\ b = Bytes(BranchWord(n), 2)
    BY <1>3, <1>4, Zenon DEF VisitMakes, BranchMade
  <2>2. NodeFits(n) /\ n.offset \in Nat /\ StatementKinds(n.stmt)
    BY <1>1, NodeTypes
  <2>3. n.size = 2
    BY <2>2 DEF NodeFits, SizeFits
  <2>4. n.stmt.target \in Operand
    BY <2>2 DEF StatementKinds
  <2>5. BranchWord(n) \in Word
    <3> DEFINE x == BranchLength(n) \div 2
    <3>1. ValueOf(n.stmt.target) \in Nat
      BY <2>4, OperandValues, WordsAreNumbers DEF BaseInv, SymbolsOK
    <3>2. BranchLength(n) \in Int
      BY <2>2, <3>1 DEF BranchLength
    <3>3. x \in Int
      <4> DEFINE y == BranchLength(n)
      <4>1. y \in Int
        BY <3>2
      <4> HIDE DEF y
      <4>2. y \div 2 \in Int
        BY <4>1
      <4> QED BY <4>2 DEF y
    <3>4. BranchWord(n) = BranchOpcode + (x % 2^BranchWidth)
      BY DEF BranchWord
    <3> HIDE DEF x
    <3> QED BY <3>3, <3>4, OpcodeWords
  <2>6. This.size = 2 /\ InPlace(Bytes(BranchWord(n), 2))
    BY <1>3, <2>1, <2>3
  <2>7. WordAt(table'[This.section].contents, This.offset) = BranchWord(n)
    BY <1>1, <2>5, <2>6, WrittenWord
  <2> QED BY <2>1, <2>7
<1>9. n.stmt.op = "data" =>
        \A i \in DOMAIN n.stmt.values :
          Refers(n.stmt.values[i])' =>
            /\ Evaluates(n.stmt.values[i])'
            /\ \E k \in DOMAIN relocs' : relocs'[k] = DataReloc(n, i)'
  BY <1>3, <1>4, <1>5, <1>6, Zenon DEF VisitMakes, DataMade
<1>10. WordAt(Contents(n.section), n.offset)' = WordAt(table'[n.section].contents, n.offset)
  BY DEF WordAt, Contents
<1> QED BY <1>7, <1>8, <1>9, <1>10, Zenon DEF Coded

\* Statements without a label to find are coded as they are.
LEMMA SilentCoded ==
  ASSUME NEW n, n.stmt.op \in Silent
  PROVE  Coded(n)
BY DEF Silent, Coded
LEMMA CodedNext == BaseInv /\ PlaceInv /\ CodedInv /\ [Next]_vars => CodedInv'
<1> SUFFICES ASSUME BaseInv, PlaceInv, CodedInv, [Next]_vars, error_count' = 0,
                    NEW j \in DOMAIN ast', Generated(j)',
                    NEW n, n = ast'[j]
             PROVE  Coded(n)'
  BY Zenon DEF CodedInv
<1>0. /\ error_count = 0 /\ pc \in Nat /\ Len(ast) \in Nat /\ DOMAIN ast = 1 .. Len(ast)
      /\ \A i \in DOMAIN ast : Generated(i) => Coded(ast[i])
  BY ErrorsGrow DEF BaseInv, CountsOK, AstOK, CodedInv
<1>1. CASE ParseLine \/ SyntaxError \/ EndOfFile
  <2>1. CASE ParseLine
    BY <2>1 DEF ParseLine, Generated
  <2>2. CASE SyntaxError
    BY <1>0, <2>2 DEF SyntaxError
  <2>3. CASE EndOfFile
    <3>1. phase' = "generate" /\ pc' = 1 /\ ast' = ast
      BY <1>0, <2>3 DEF EndOfFile, GoTo
    <3> QED BY <1>0, <3>1 DEF Generated
  <2> QED BY <1>1, <2>1, <2>2, <2>3
<1>2. CASE Visits
  <2>1. /\ phase = "generate" /\ pc \in DOMAIN ast /\ This = ast[pc]
        /\ UNCHANGED <<symbols, ast, phase>> /\ pc' = pc + 1
    <3>1. PICK b, new, errors : VisitDoes(b, new, errors)
      BY <1>2, VisitEffects
    <3> QED BY <1>2, <3>1, VisitEffects DEF VisitDoes
  <2>2. j \in DOMAIN ast /\ n = ast[j] /\ j < pc + 1
    BY <2>1 DEF Generated
  <2>3. CASE j = pc
    BY <1>0, <1>2, <2>1, <2>2, <2>3, VisitCodes
  <2>4. CASE j # pc
    <3>1. Generated(j)
      BY <1>0, <2>1, <2>2, <2>4 DEF Generated
    <3>2. Coded(n)
      BY <1>0, <2>2, <3>1
    <3>3. n.stmt.op = "branch" => WordSame(n)
      <4>1. n.stmt.op = "branch" => n.size = 2
        BY <2>2, NodeTypes DEF NodeFits, SizeFits
      <4> QED BY <1>2, <2>2, <2>4, <4>1, VisitKeeps
    <3>4. \A k \in DOMAIN relocs : \E l \in DOMAIN relocs' : relocs'[l] = relocs[k]
      <4>1. PICK b, new, errors : VisitDoes(b, new, errors)
        BY <1>2, VisitEffects
      <4> QED BY <4>1 DEF VisitDoes, Joined
    <3> QED BY <2>1, <3>2, <3>3, <3>4, CodedKept
  <2> QED BY <2>3, <2>4
<1>3. CASE Relocate
  <2>1. phase = "relocate" /\ UNCHANGED <<symbols, ast, relocs>>
    BY <1>3 DEF Relocate
  <2>2. j \in DOMAIN ast /\ n = ast[j] /\ Generated(j)
    BY <2>1 DEF Generated
  <2>3. Coded(n)
    BY <1>0, <2>2
  <2>4. n.stmt.op = "branch" => WordSame(n)
    <3>1. n.stmt.op = "branch" => n.size = 2
      BY <2>2, NodeTypes DEF NodeFits, SizeFits
    <3> QED BY <1>3, <2>2, <3>1, RelocateKeeps
  <2> QED BY <2>1, <2>3, <2>4, CodedKept
<1>4. CASE VisitOther \/ EndOfCode \/ LocateSection \/ OverlapExit \/ EndOfLocation
            \/ EndOfRelocation \/ LoadSection \/ WriteOutput \/ UNCHANGED vars
  <2>1. Quiet /\ ast' = ast
    BY <1>4, QuietInv DEF Quiet
  <2>2. j \in DOMAIN ast /\ n = ast[j]
    BY <2>1
  <2>3. Coded(n)
    <3>1. CASE VisitOther
      <4>1. phase = "generate" /\ phase' = phase /\ pc' = pc + 1 /\ This.stmt.op \in Silent
        BY <3>1 DEF VisitOther
      <4>2. CASE j = pc
        BY <2>2, <4>1, <4>2, SilentCoded DEF This
      <4>3. CASE j # pc
        BY <1>0, <2>2, <4>1, <4>3 DEF Generated
      <4> QED BY <4>2, <4>3
    <3>2. CASE EndOfCode
      BY <1>0, <2>2, <3>2 DEF EndOfCode, Generated
    <3>3. CASE LocateSection \/ OverlapExit \/ EndOfLocation
                \/ EndOfRelocation \/ LoadSection \/ WriteOutput
      <4>1. phase \in {"locate", "relocate", "load"}
        BY <3>3 DEF LocateSection, OverlapExit, EndOfLocation, EndOfRelocation,
                    LoadSection, WriteOutput
      <4> QED BY <1>0, <2>2, <4>1 DEF Generated
    <3>4. CASE UNCHANGED vars
      <4>1. Generated(j)
        BY <3>4 DEF vars, Generated
      <4> QED BY <1>0, <2>2, <4>1
    <3> QED BY <1>4, <3>1, <3>2, <3>3, <3>4
  <2> QED BY <2>1, <2>3, QuietCoded
<1> QED BY <1>1, <1>2, <1>3, <1>4, StepKinds

LEMMA CodedInit == Init => CodedInv
BY DEF Init, CodedInv
LEMMA WaitingKept ==
  ASSUME NEW r, FieldFits(r), FieldSame(r), Waiting(r)
  PROVE  Waiting(r)'
<1>1. CASE r.type = "RELATIVE_UNSIGNED"
  <2>1. r.width # 8
    <3>1. r.width = LdrWidth
      BY <1>1 DEF FieldFits
    <3> QED BY <3>1, WidthAssumption
  <2>2. WordAt(table'[r.section].contents, r.offset) = FieldWord(r)
    BY <2>1, Zenon DEF FieldSame, FieldWord
  <2>3. FieldWord(r)' = WordAt(table'[r.section].contents, r.offset)
    BY DEF FieldWord, WordAt, Contents
  <2>4. FieldWord(r)' = LdrOpcode
    BY <1>1, <2>2, <2>3, Zenon DEF Waiting
  <2>5. LdrOpcode' = LdrOpcode
    BY Zenon DEF LdrOpcode
  <2> QED BY <2>4, <2>5, Zenon DEF Waiting
<1>2. CASE r.type # "RELATIVE_UNSIGNED"
  BY <1>2, Zenon DEF Waiting
<1> QED BY <1>1, <1>2

\* The value of a relocation depends on labels and addresses.
LEMMA ValueKept ==
  ASSUME symbols' = symbols, base_address' = base_address, NEW r
  PROVE  PatchValue(r)' = PatchValue(r) /\ (ValueFits(r)' <=> ValueFits(r))
<1>1. Target(r)' = Target(r)
  BY Zenon DEF Target
<1>2. RelocDistance(r)' = RelocDistance(r)
  BY <1>1, Zenon DEF RelocDistance
<1> QED BY <1>1, <1>2, Zenon DEF PatchValue, ValueFits

LEMMA AppliedKept ==
  ASSUME symbols' = symbols, base_address' = base_address,
         NEW r, FieldFits(r), FieldSame(r), Applied(r)
  PROVE  Applied(r)'
<1> DEFINE new == WordAt(table'[r.section].contents, r.offset)
<1>1. FieldWord(r)' = new
  BY DEF FieldWord, WordAt, Contents
<1>2. PatchValue(r)' = PatchValue(r) /\ (ValueFits(r)' <=> ValueFits(r))
  BY ValueKept
<1>3. IF r.width = 8 THEN FieldOf(new, 0, 8) = FieldOf(FieldWord(r), 0, 8)
      ELSE new = FieldWord(r)
  BY Zenon DEF FieldSame, FieldWord
<1> HIDE DEF new
<1>4. /\ LdrOpcode' = LdrOpcode /\ LdrPosition' = LdrPosition
      /\ \A w, v : PatchField(w, LdrPosition, LdrWidth, v)' = PatchField(w, LdrPosition, LdrWidth, v)
      /\ \A w, p, d : FieldOf(w, p, d)' = FieldOf(w, p, d)
  BY Zenon DEF LdrOpcode, LdrPosition, PatchField, FieldOf
<1>5. ValueFits(r)'
  BY <1>2 DEF Applied
<1>6. CASE r.type = "RELATIVE_UNSIGNED"
  <2>1. r.width # 8
    <3>1. r.width = LdrWidth
      BY <1>6 DEF FieldFits
    <3> QED BY <3>1, WidthAssumption
  <2>2. new = PatchField(LdrOpcode, LdrPosition, LdrWidth, PatchValue(r))
    BY <1>3, <1>6, <2>1, Zenon DEF Applied
  <2>3. FieldWord(r)' = PatchField(LdrOpcode, LdrPosition, LdrWidth, PatchValue(r))'
    <3>1. PatchField(LdrOpcode, LdrPosition, LdrWidth, PatchValue(r))'
            = PatchField(LdrOpcode, LdrPosition, LdrWidth, PatchValue(r))
      BY <1>2, <1>4, Zenon DEF PatchField, FieldOf
    <3> QED BY <1>1, <2>2, <3>1
  <2> QED BY <1>5, <1>6, <2>3, Zenon DEF Applied
<1>7. CASE r.type # "RELATIVE_UNSIGNED"
  <2>1. FieldOf(FieldWord(r), 0, r.width) = PatchValue(r) % 2^r.width
    BY <1>7, Zenon DEF Applied
  <2>2. FieldOf(new, 0, r.width) = PatchValue(r) % 2^r.width
    <3>1. CASE r.width = 8
      BY <1>3, <2>1, <3>1
    <3>2. CASE r.width # 8
      BY <1>3, <2>1, <3>2
    <3> QED BY <3>1, <3>2
  <2>3. FieldOf(FieldWord(r), 0, r.width)' = (PatchValue(r) % 2^r.width)'
    BY <1>1, <1>2, <2>2, Zenon DEF FieldOf
  <2> QED BY <1>5, <1>7, <2>3, Zenon DEF Applied
<1> QED BY <1>6, <1>7
\* What a relocation without errors leaves in its field.
LEMMA RelocateApplies ==
  ASSUME BaseInv, Relocate, error_count = 0, error_count' = 0,
         Waiting(relocs[pc]), NEW r, r = relocs[pc]
  PROVE  Applied(r)'
<1> DEFINE old == WordAt(Contents(r.section), r.offset)
           new == WordAt(table'[r.section].contents, r.offset)
           v == PatchValue(r)
<1>1. PICK errors, warnings : /\ Patches(r, v, errors, warnings)
                              /\ errors = 0 => ValueFits(r)
  BY RelocateValue
<1>2. /\ pc \in DOMAIN relocs /\ old \in Word /\ FieldPlace(r.position, r.width)
      /\ new = PatchField(old, r.position, r.width, v)
  BY <1>1, RelocatedWord
<1>3. v \in Int /\ ValueFits(r)
  <2>1. errors \in Nat /\ error_count' = error_count + errors /\ v \in Int
    BY <1>1 DEF Patches
  <2>2. errors = 0
    BY <2>1
  <2> QED BY <1>1, <2>1, <2>2
<1>4. FieldFits(r) /\ symbols' = symbols /\ base_address' = base_address
  BY <1>2, RelocFields DEF Relocate, locateVars
<1>5. v' = v /\ (ValueFits(r)' <=> ValueFits(r))
  BY <1>4, ValueKept
<1>6. FieldWord(r)' = new
  BY DEF FieldWord, WordAt, Contents
<1>7. Waiting(r) /\ FieldWord(r) = old
  BY Zenon DEF FieldWord
<1> HIDE DEF old, new
<1>8. FieldOf(new, r.position, r.width) = v % 2^r.width
  BY <1>2, <1>3, PatchedWord
<1>9. CASE r.type = "RELATIVE_UNSIGNED"
  <2>1. r.position = LdrPosition /\ r.width = LdrWidth
    BY <1>4, <1>9 DEF FieldFits
  <2>2. new = PatchField(LdrOpcode, LdrPosition, LdrWidth, v)
    BY <1>2, <1>7, <1>9, <2>1, Zenon DEF Waiting
  <2>3. LdrOpcode' = LdrOpcode /\ LdrPosition' = LdrPosition
    BY Zenon DEF LdrOpcode, LdrPosition
  <2> HIDE DEF v
  <2>4. PatchField(LdrOpcode, LdrPosition, LdrWidth, v)'
          = PatchField(LdrOpcode, LdrPosition, LdrWidth, v)
    BY <1>5, <2>3, Zenon DEF PatchField, FieldOf
  <2>5. FieldWord(r)' = PatchField(LdrOpcode, LdrPosition, LdrWidth, v)'
    BY <1>6, <2>2, <2>4
  <2> QED BY <1>3, <1>5, <1>9, <2>5, Zenon DEF Applied, v
<1>10. CASE r.type # "RELATIVE_UNSIGNED"
  <2>1. r.position = 0
    BY <1>4, <1>10 DEF FieldFits
  <2>2. FieldOf(new, 0, r.width) = v % 2^r.width
    BY <1>8, <2>1
  <2> HIDE DEF v
  <2>3. FieldOf(FieldWord(r), 0, r.width)' = (v % 2^r.width)'
    BY <1>5, <1>6, <2>2, Zenon DEF FieldOf
  <2> QED BY <1>3, <1>5, <1>10, <2>3, Zenon DEF Applied, v
<1> QED BY <1>9, <1>10

\* A field queued by a visit without errors holds the opcode it is to keep.
LEMMA QueuedWaits ==
  ASSUME BaseInv, Visits, NEW b, NEW new, NEW errors, VisitDoes(b, new, errors),
         NEW r, \E l \in DOMAIN new : new[l] = r
  PROVE  Waiting(r)'
<1>1. /\ pc \in DOMAIN ast /\ This = ast[pc] /\ pc <= Len(ast)
  BY VisitEffects, VisitPhase
<1>2. MadeFor(r, This) /\ LoadMade(This, b, new, errors) /\ InPlace(b)
  BY DEF VisitDoes, VisitMakes
<1>3. SUFFICES ASSUME r.type = "RELATIVE_UNSIGNED"
               PROVE  WordAt(table'[r.section].contents, r.offset) = LdrOpcode
  <2>1. FieldWord(r)' = WordAt(table'[r.section].contents, r.offset)
    BY DEF FieldWord, WordAt, Contents
  <2>2. LdrOpcode' = LdrOpcode
    BY Zenon DEF LdrOpcode
  <2> QED BY <2>1, <2>2, Zenon DEF Waiting
<1>4. This.stmt.op = "ldr" /\ r = LoadReloc(This)
  BY <1>2, <1>3 DEF MadeFor, DataReloc
<1>5. r.section = This.section /\ r.offset = This.offset
  BY <1>4 DEF LoadReloc
<1>6. InPlace(Bytes(LdrOpcode, 2))
  BY <1>2, <1>4, Zenon DEF LoadMade
<1>7. This.size = 2
  BY <1>1, <1>4, ThisFits DEF NodeFits, SizeFits
<1>8. WordAt(table'[This.section].contents, This.offset) = LdrOpcode
  BY <1>1, <1>6, <1>7, OpcodeWords, WrittenWord
<1> QED BY <1>5, <1>8
LEMMA FieldsNext == BaseInv /\ PlaceInv /\ FieldsInv /\ [Next]_vars => FieldsInv'
<1> SUFFICES ASSUME BaseInv, PlaceInv, FieldsInv, [Next]_vars, error_count' = 0,
                    NEW k \in DOMAIN relocs', NEW r, r = relocs'[k]
             PROVE  IF Patched(k)' THEN Applied(r)' ELSE Waiting(r)'
  BY Zenon DEF FieldsInv
<1>0. /\ error_count = 0 /\ pc \in Nat /\ Len(relocs) \in Nat
      /\ DOMAIN relocs = 1 .. Len(relocs)
      /\ \A i \in DOMAIN relocs : IF Patched(i) THEN Applied(relocs[i]) ELSE Waiting(relocs[i])
  BY ErrorsGrow DEF BaseInv, CountsOK, RelocsOK, FieldsInv
<1>1. CASE Visits
  <2>1. PICK b, new, errors : VisitDoes(b, new, errors)
    BY <1>1, VisitEffects
  <2>2. phase = "generate" /\ phase' = phase /\ Joined(new)
    BY <1>1, <2>1, VisitEffects DEF VisitDoes
  <2>3. ~Patched(k) /\ ~Patched(k)'
    BY <2>2 DEF Patched
  <2>4. CASE k \in DOMAIN relocs
    <3>1. r = relocs[k] /\ Waiting(r)
      BY <1>0, <2>2, <2>3, <2>4 DEF Joined
    <3>2. FieldSame(r) /\ FieldFits(r)
      BY <1>1, <2>4, <3>1, VisitKeeps, RelocFields
    <3> QED BY <2>3, <3>1, <3>2, WaitingKept
  <2>5. CASE k \notin DOMAIN relocs
    <3>1. \E l \in DOMAIN new : new[l] = r
      BY <2>2, <2>5 DEF Joined
    <3> QED BY <1>1, <2>1, <2>3, <3>1, QueuedWaits
  <2> QED BY <2>4, <2>5
<1>2. CASE ~Visits
  <2>1. relocs' = relocs /\ k \in DOMAIN relocs /\ r = relocs[k]
    BY <1>2, OnlyVisitsQueue
  <2>2. FieldFits(r)
    BY <2>1, RelocFields
  <2>3. CASE Relocate
    <3>1. /\ phase = "relocate" /\ phase' = phase /\ pc' = pc + 1
          /\ symbols' = symbols /\ base_address' = base_address
      BY <2>3 DEF Relocate, locateVars
    <3>2. CASE k = pc
      <4>1. Waiting(relocs[pc])
        BY <1>0, <2>1, <3>1, <3>2 DEF Patched
      <4>2. Applied(r)'
        BY <1>0, <2>1, <2>3, <3>2, <4>1, RelocateApplies
      <4>3. Patched(k)'
        BY <1>0, <3>1, <3>2 DEF Patched
      <4> QED BY <4>2, <4>3
    <3>3. CASE k # pc
      <4>1. Patched(k)' <=> Patched(k)
        BY <1>0, <2>1, <3>1, <3>3 DEF Patched
      <4>2. FieldSame(r)
        BY <2>1, <2>3, <3>3, RelocateKeeps
      <4>3. CASE Patched(k)
        BY <1>0, <2>1, <2>2, <3>1, <4>1, <4>2, <4>3, AppliedKept
      <4>4. CASE ~Patched(k)
        BY <1>0, <2>1, <2>2, <4>1, <4>2, <4>4, WaitingKept
      <4> QED BY <4>3, <4>4
    <3> QED BY <3>2, <3>3
  <2>4. CASE ~Relocate
    <3>1. /\ phase # "parse" /\ Quiet
          /\ \/ VisitOther \/ EndOfCode \/ LocateSection \/ OverlapExit \/ EndOfLocation
             \/ EndOfRelocation \/ LoadSection \/ WriteOutput \/ UNCHANGED vars
      <4>1. phase # "parse"
        BY <2>1 DEF PlaceInv, HostsInv, Generated
      <4>2. ~ParseLine /\ ~SyntaxError /\ ~EndOfFile
        BY <4>1 DEF ParseLine, SyntaxError, EndOfFile
      <4> QED BY <1>2, <2>4, <4>1, <4>2, StepKinds, QuietInv
    <3>2. FieldSame(r) /\ symbols' = symbols
      <4>1. table' = table /\ symbols' = symbols
        BY <3>1 DEF Quiet, sectionVars
      <4> QED BY <4>1, Zenon DEF FieldSame, Contents
    <3>3. CASE VisitOther \/ EndOfCode \/ LocateSection \/ EndOfLocation
      <4>1. ~Patched(k) /\ ~Patched(k)'
        <5>1. CASE VisitOther
          BY <5>1 DEF VisitOther, Patched
        <5>2. CASE EndOfCode
          BY <1>0, <5>2 DEF EndOfCode, GoTo, Patched
        <5>3. CASE LocateSection
          BY <5>3 DEF LocateSection, Patched
        <5>4. CASE EndOfLocation
          <6>1. phase = "locate" /\ phase' = "relocate" /\ pc' = 1
            BY <1>0, <5>4 DEF EndOfLocation, GoTo
          <6> QED BY <1>0, <2>1, <6>1 DEF Patched
        <5> QED BY <3>3, <5>1, <5>2, <5>3, <5>4
      <4> QED BY <1>0, <2>1, <2>2, <3>2, <4>1, WaitingKept
    <3>4. CASE OverlapExit
      BY <1>0, <3>4 DEF OverlapExit
    <3>5. CASE EndOfRelocation \/ LoadSection \/ WriteOutput \/ UNCHANGED vars
      <4>1. base_address' = base_address
        BY <3>5 DEF EndOfRelocation, LoadSection, WriteOutput, vars, locateVars
      <4>2. Patched(k)' <=> Patched(k)
        <5>1. CASE EndOfRelocation
          BY <1>0, <2>1, <5>1 DEF EndOfRelocation, GoTo, Patched
        <5>2. CASE LoadSection \/ WriteOutput
          BY <5>2 DEF LoadSection, WriteOutput, Patched
        <5>3. CASE UNCHANGED vars
          BY <5>3 DEF vars, Patched
        <5> QED BY <3>5, <5>1, <5>2, <5>3
      <4>3. CASE Patched(k)
        BY <1>0, <2>1, <2>2, <3>2, <4>1, <4>2, <4>3, AppliedKept
      <4>4. CASE ~Patched(k)
        BY <1>0, <2>1, <2>2, <3>2, <4>2, <4>4, WaitingKept
      <4> QED BY <4>3, <4>4
    <3> QED BY <3>1, <3>3, <3>4, <3>5
  <2> QED BY <2>3, <2>4
<1> QED BY <1>1, <1>2

LEMMA FieldsInit == Init => FieldsInv
BY DEF Init, FieldsInv
-----------------------------------------------------------------------------
\* What the fields of references hold: the address of the label.

\* Whole turns do not change a rest.
LEMMA WholeTurns ==
  ASSUME NEW d \in Nat \ {0}, NEW x \in Int, NEW k \in Int
  PROVE  (x + k * d) % d = x % d
<1> DEFINE q == x \div d
           r == x % d
<1>1. q \in Int /\ r \in 0 .. d - 1 /\ x = q * d + r
  BY QuotientAndRest
<1> HIDE DEF q, r
<1>2. x + k * d = (q + k) * d + r /\ q + k \in Int
  BY <1>1
<1>3. ((q + k) * d + r) % d = r
  <2> DEFINE m == q + k
  <2>1. m \in Int
    BY <1>2
  <2> HIDE DEF m
  <2>2. (m * d + r) % d = r
    BY <1>1, <2>1, DivMod
  <2> QED BY <2>2 DEF m
<1> QED BY <1>2, <1>3, Zenon DEF r

LEMMA WordTurns ==
  /\ WordCount \in Nat \ {0}
  /\ \A v \in Int : LowWord(v) = v % WordCount
  /\ \A e : ValueOf(e) = LowWord(IntOf(e))
<1>1. WordCount = 65536
  BY SMTT(60) DEF WordCount
<1>2. WordCount \in Nat \ {0}
  BY DEF WordCount
<1>3. \A v : LowWord(v) = v % WordCount
  BY <1>1, SMT DEF LowWord
<1>4. \A e : ValueOf(e) = LowWord(IntOf(e))
  BY SMT DEF ValueOf, LowWord
<1> QED BY <1>2, <1>3, <1>4, Zenon

LEMMA FitsBelow ==
  ASSUME NEW v \in Int, Fits16(v)
  PROVE  v < WordCount
<1>1. MaxWord \in Int /\ MaxWord < WordCount
  BY SMT DEF MaxWord, WordCount
<1>2. WordCount \in Int
  BY DEF WordCount
<1>3. v <= MaxWord
  BY <1>1 DEF Fits16
<1> QED BY <1>1, <1>2, <1>3

\* The value of an operand is the place it names, up to whole turns of 16 bits.
LEMMA OperandOffset ==
  ASSUME SymbolsTyped, NEW e \in Operand, IsLabel(e)
  PROVE  /\ symbols[e.symbol].offset \in Nat /\ ValueOf(e) \in Nat /\ e.addend \in Int
         /\ \E c \in Int : symbols[e.symbol].offset + e.addend = ValueOf(e) + c * WordCount
         /\ Evaluates(e) /\ symbols[e.symbol].offset < WordCount =>
              symbols[e.symbol].offset + e.addend <= ValueOf(e)
<1> DEFINE o == symbols[e.symbol].offset
           x == IntOf(e)
           v == ValueOf(e)
           m == e.addend
           l == LowWord(o)
<1>1. m \in Int /\ x \in Int /\ v \in Nat /\ o \in Nat
  <2>1. m \in Int /\ x \in Int /\ v \in Word /\ e.symbol \in Labels
    BY OperandValues
  <2>2. o \in Nat
    BY <2>1 DEF SymbolsTyped, Entry
  <2> QED BY <2>1, <2>2, WordsAreNumbers
<1>2. x = l + m
  BY SMT DEF IntOf, LowWord
<1>3. v = LowWord(x)
  BY WordTurns
<1>4. Evaluates(e) => x < WordCount
  BY <1>1, FitsBelow, Zenon DEF Evaluates
<1> HIDE DEF o, x, v, m
<1>5. /\ v = x % WordCount /\ l = o % WordCount /\ WordCount \in Nat \ {0}
  BY <1>1, <1>3, WordTurns
<1> HIDE DEF l
<1> DEFINE p == x \div WordCount
           q == o \div WordCount
<1>6. /\ p \in Int /\ q \in Int /\ x = p * WordCount + v /\ o = q * WordCount + l
      /\ v \in 0 .. WordCount - 1 /\ l \in 0 .. WordCount - 1
  <2>1. o \in Int
    BY <1>1
  <2> QED BY <1>1, <1>5, <2>1, QuotientAndRest, Zenon
<1> HIDE DEF p, q
<1>7. o + m = v + (p + q) * WordCount /\ p + q \in Int
  <2> DEFINE a == p * WordCount
             b == q * WordCount
  <2>1. a \in Int /\ b \in Int
    BY <1>5, <1>6, Multiples
  <2>2. (p + q) * WordCount = a + b
    BY <1>5, <1>6
  <2>3. x = a + v /\ o = b + l /\ l \in Int
    BY <1>6
  <2> HIDE DEF a, b, WordCount
  <2>4. o + m = v + (a + b)
    BY <1>1, <1>2, <2>1, <2>3
  <2> QED BY <1>6, <2>2, <2>4
<1>8. ASSUME x < WordCount, o < WordCount PROVE o + m <= v
  <2>1. q = 0
    <3>1. q * WordCount < WordCount /\ q * WordCount > -WordCount
      BY <1>1, <1>5, <1>6, <1>8
    <3> QED BY <1>5, <1>6, <3>1, Multiples
  <2>2. o = l
    BY <1>1, <1>5, <1>6, <2>1
  <2>3. ~(p >= 1)
    <3>1. p * WordCount < WordCount
      BY <1>1, <1>5, <1>6, <1>8
    <3> QED BY <1>5, <1>6, <3>1, Multiples
  <2>4. p * WordCount <= 0
    <3>1. CASE p = 0
      BY <1>5, <3>1
    <3>2. CASE p <= -1
      BY <1>5, <1>6, <3>2, Multiples
    <3> QED BY <1>6, <2>3, <3>1, <3>2
  <2>5. p * WordCount \in Int
    BY <1>5, <1>6, Multiples
  <2> DEFINE z == p * WordCount
  <2>6. x = z + v /\ z <= 0 /\ z \in Int
    BY <1>6, <2>4, <2>5
  <2> HIDE DEF z
  <2> QED BY <1>1, <1>2, <1>6, <2>2, <2>6
<1>9. \E c \in Int : o + m = v + c * WordCount
  BY <1>7
<1> HIDE DEF WordCount
<1> QED BY <1>1, <1>4, <1>8, <1>9 DEF o, v, m
\* A run that ends well has coded every statement and applied every relocation.
LEMMA Accepted ==
  ASSUME BaseInv, ErrorInv, CodedInv, FieldsInv, Succeeded
  PROVE  /\ \A j \in DOMAIN ast : Coded(ast[j])
         /\ \A k \in DOMAIN relocs : Applied(relocs[k])
         /\ base_address \in [DOMAIN table -> Nat]
<1>1. phase = "exit" /\ error_count = 0
  <2>1. phase = "exit" /\ (result = 1 <=> error_count > 0) /\ result # 1 /\ error_count \in Nat
    BY DEF Succeeded, ErrorInv, ErrorsStopOutput, BaseInv, CountsOK
  <2> QED BY <2>1
<1>2. \A j : Generated(j) /\ Patched(j)
  BY <1>1 DEF Generated, Patched
<1> QED BY <1>1, <1>2 DEF CodedInv, FieldsInv, BaseInv, BasesOK

\* A label of an operand has a section and an address.
LEMMA LabelPlace ==
  ASSUME BaseInv, NEW e \in Operand, IsLabel(e), Evaluates(e)
  PROVE  SectionOf(e) \in DOMAIN table
<1>1. e.symbol \in Labels /\ Defined(e.symbol)
  BY DEF Operand, IsLabel, Evaluates
<1> QED BY <1>1 DEF BaseInv, SymbolsOK, SectionOf

\* What .byte and .word hold for a label.
DataHolds(n, i) ==
  LET grain == n.stmt.grain
      e == n.stmt.values[i]
      word == WordAt(Contents(n.section), n.offset + (i - 1) * grain)
  IN  /\ word % 2^(8 * grain) = TargetOf(e) % 2^(8 * grain)
      /\ symbols[e.symbol].offset < WordCount => TargetOf(e) <= 2^(8 * grain)

\* The width of a .byte or of a .word divides the width of a word.
LEMMA GrainDivides ==
  ASSUME NEW g \in {1, 2}
  PROVE  2^(8 * g) \in Nat \ {0} /\ \E m \in Nat : WordCount = m * 2^(8 * g)
<1>1. CASE g = 1
  <2>1. 2^(8 * g) = 256
    BY <1>1
  <2> QED BY <2>1 DEF WordCount
<1>2. CASE g = 2
  <2>1. 2^(8 * g) = WordCount
    BY <1>2, SMT DEF WordCount
  <2>2. WordCount \in Nat \ {0} /\ WordCount = 1 * WordCount
    BY DEF WordCount
  <2> QED BY <2>1, <2>2
<1> QED BY <1>1, <1>2

LEMMA AcceptedData ==
  ASSUME BaseInv, ErrorInv, CodedInv, FieldsInv, Succeeded,
         NEW j \in DOMAIN ast, ast[j].stmt.op = "data",
         NEW i \in DOMAIN ast[j].stmt.values, Refers(ast[j].stmt.values[i])
  PROVE  DataHolds(ast[j], i)
<1> DEFINE n == ast[j]
           g == n.stmt.grain
           e == n.stmt.values[i]
           d == 2^(8 * g)
           r == DataReloc(n, i)
           word == WordAt(Contents(n.section), n.offset + (i - 1) * g)
           base == base_address[SectionOf(e)]
           o == symbols[e.symbol].offset
           v == ValueOf(e)
           a == e.addend
<1>1. StatementKinds(n.stmt) /\ Coded(n)
  BY NodeTypes, Accepted
<1>2. g \in {1, 2} /\ n.stmt.values \in Seq(Operand)
  BY <1>1 DEF StatementKinds
<1>3. e \in Operand /\ Refers(e) /\ IsLabel(e)
  <2> DEFINE s == n.stmt.values
  <2>1. s \in Seq(Operand) /\ i \in DOMAIN s
    BY <1>2
  <2> HIDE DEF s
  <2>2. s[i] \in Operand
    BY <2>1
  <2>3. Refers(e) /\ IsLabel(e)
    BY DEF Refers
  <2> QED BY <2>2, <2>3 DEF s
<1>4. Evaluates(e) /\ \E k \in DOMAIN relocs : relocs[k] = r
  <2> HIDE DEF n
  <2>1. n.stmt.op = "data" /\ i \in DOMAIN n.stmt.values
    BY DEF n
  <2> QED BY <1>1, <1>3, <2>1, Zenon DEF Coded
<1>5. Applied(r)
  BY <1>4, Accepted
<1>6. /\ r.section = n.section /\ r.offset = n.offset + (i - 1) * g
      /\ r.width = 8 * g /\ r.type = "ABSOLUTE" /\ r.symbol = e.symbol /\ r.addend = v
  BY DEF DataReloc
<1>7. /\ o \in Nat /\ v \in Nat /\ a \in Int
      /\ \E c \in Int : o + a = v + c * WordCount
      /\ o < WordCount => o + a <= v
  BY <1>3, <1>4, OperandOffset DEF BaseInv, SymbolsOK
<1>8. base \in Nat
  BY <1>3, <1>4, LabelPlace, Accepted
<1>9. Target(r) = base + v /\ TargetOf(e) = base + o + a
  BY <1>6, Zenon DEF Target, TargetOf, SectionOf
<1>10. FieldWord(r) = word
  BY <1>6, Zenon DEF FieldWord
<1> HIDE DEF n, g, e, r, word, base, o, v, a
<1>11. Target(r) <= d /\ FieldOf(word, 0, 8 * g) = Target(r) % d
  BY <1>5, <1>6, <1>10, Zenon DEF Applied, ValueFits, PatchValue
<1>12. d \in Nat \ {0} /\ \E m \in Nat : WordCount = m * d
  BY <1>2, GrainDivides
<1>13. FieldOf(word, 0, 8 * g) = word % d
  <2>1. word \in Int
    <3>1. n.section \in DOMAIN table /\ n.offset \in Nat /\ i \in Nat \ {0}
      BY <1>2, NodeTypes DEF n
    <3>2. n.offset + (i - 1) * g \in Nat
      BY <1>2, <3>1
    <3>3. word \in Nat
      BY <3>1, <3>2, WordType DEF word, BaseInv
    <3> QED BY <3>3
  <2>2. word \div 2^0 = word
    BY <2>1
  <2> QED BY <2>2, Zenon DEF FieldOf
<1> HIDE DEF d
<1>14. TargetOf(e) % d = Target(r) % d
  <2>1. PICK c \in Int : o + a = v + c * WordCount
    BY <1>7
  <2>2. PICK m \in Nat : WordCount = m * d
    BY <1>12
  <2>3. c * WordCount = (c * m) * d /\ c * m \in Int
    BY <1>12, <2>2
  <2> DEFINE k == c * m
             t == base + v
  <2>4. k \in Int /\ t \in Int
    BY <1>7, <1>8, <2>3
  <2>5. base + o + a = t + k * d
    <3>1. o + a = v + k * d /\ k * d \in Int
      BY <1>12, <2>1, <2>3, <2>4
    <3> HIDE DEF k
    <3> DEFINE z == k * d
    <3>2. o + a = v + z /\ z \in Int
      BY <3>1
    <3> HIDE DEF z
    <3>3. base + o + a = (base + v) + z
      BY <1>7, <1>8, <3>2
    <3> QED BY <3>3 DEF z
  <2> HIDE DEF k, t
  <2>6. (t + k * d) % d = t % d
    BY <1>12, <2>4, WholeTurns
  <2> QED BY <1>9, <2>5, <2>6 DEF t
<1>15. o < WordCount => TargetOf(e) <= d
  <2>1. base + v <= d /\ TargetOf(e) = base + o + a
    BY <1>9, <1>11
  <2> QED BY <1>7, <1>8, <1>12, <2>1
<1> QED BY <1>11, <1>13, <1>14, <1>15, Zenon DEF DataHolds, n, g, e, d, o, word
LEMMA CountLiteral == WordCount = 65536
BY SMTT(60) DEF WordCount

LEMMA DataShown == BaseInv /\ ErrorInv /\ CodedInv /\ FieldsInv => DataHoldsAddresses
<1> SUFFICES ASSUME BaseInv, ErrorInv, CodedInv, FieldsInv, Succeeded,
                    NEW j \in Instructions("data"), NEW i \in DataLabels(j)
             PROVE  LET grain == ast[j].stmt.grain
                        e == ast[j].stmt.values[i]
                        word == WordAt(Contents(ast[j].section), ast[j].offset + (i - 1) * grain)
                    IN  /\ word % 2^(8 * grain) = TargetOf(e) % 2^(8 * grain)
                        /\ symbols[e.symbol].offset < 65536 => TargetOf(e) <= 2^(8 * grain)
  BY SMT DEF DataHoldsAddresses
<1>1. DataHolds(ast[j], i)
  BY AcceptedData DEF Instructions, DataLabels
<1> QED BY <1>1, CountLiteral, SMT DEF DataHolds

\* Everything the steps keep.
RunInv == BaseInv /\ ErrorInv /\ PlaceInv /\ CodedInv /\ FieldsInv

LEMMA RunInvHolds == Spec => []RunInv
<1>1. Init => RunInv
  BY BaseInit, ErrorInit, PlaceInit, CodedInit, FieldsInit DEF RunInv
<1>2. RunInv /\ [Next]_vars => RunInv'
  BY BaseNext, ErrorNext, PlaceNext, CodedNext, FieldsNext DEF RunInv
<1> QED BY <1>1, <1>2, PTL DEF Spec

\* In a run that ends without errors every .byte and .word of a reference (a label
\* plus or minus a number of 16 bits) holds the final address, modulo the width of the directive; an address
\* that does not fit has stopped the run, for labels in the first 64 K of their
\* section.  Relocations applied later, to other fields, leave it there.
THEOREM DataIsAddresses == Spec => []DataHoldsAddresses
<1>1. RunInv => DataHoldsAddresses
  BY DataShown DEF RunInv
<1> QED BY <1>1, RunInvHolds, PTL
\* Where a label near its instruction is, seen from the instruction.
LEMMA NearDistance ==
  ASSUME BaseInv, ErrorInv, CodedInv, FieldsInv, Succeeded,
         NEW j \in DOMAIN ast, ast[j].stmt.op \in {"ldr", "branch"},
         LabelNear(ast[j].stmt.target, ast[j].section)
  PROVE  /\ BranchLength(ast[j]) \in Int
         /\ \E c \in Int : Distance(j) = BranchLength(ast[j]) + c * WordCount
<1> DEFINE n == ast[j]
           e == n.stmt.target
           base == base_address[n.section]
           o == symbols[e.symbol].offset
           v == ValueOf(e)
           a == e.addend
           p == n.offset
<1>1. /\ StatementKinds(n.stmt) /\ n.section \in DOMAIN table /\ p \in Nat
  BY NodeTypes
<1>2. e \in Operand /\ IsLabel(e) /\ SectionOf(e) = n.section
  BY <1>1 DEF StatementKinds, LabelNear
<1>3. /\ o \in Nat /\ v \in Nat /\ a \in Int
      /\ \E c \in Int : o + a = v + c * WordCount
  BY <1>2, OperandOffset DEF BaseInv, SymbolsOK
<1>4. base \in Nat
  BY <1>1, Accepted
<1>5. /\ BranchLength(n) = v - p - 2
      /\ Distance(j) = (base + o + a) - ((base + p) + 2)
  BY <1>2, Zenon DEF BranchLength, Distance, TargetOf, AddressOf
<1>6. PICK c \in Int : o + a = v + c * WordCount
  BY <1>3
<1> DEFINE z == c * WordCount
<1>7. z \in Int
  BY WordTurns, Multiples
<1>8. o + a = v + z
  BY <1>6
<1> HIDE DEF n, e, base, o, v, a, p, z
<1>9. (base + o + a) - ((base + p) + 2) = (v - p - 2) + z
  BY <1>1, <1>3, <1>4, <1>7, <1>8
<1>10. BranchLength(n) \in Int
  BY <1>1, <1>3, <1>5
<1>11. Distance(j) = BranchLength(n) + c * WordCount
  BY <1>5, <1>9 DEF z
<1> QED BY <1>10, <1>11 DEF n

\* An even distance and half of it, in words of 16 bits.
LEMMA EvenDistance ==
  ASSUME NEW b \in Int, NEW x, \E c \in Int : x = b + c * WordCount, x % 2 = 0
  PROVE  /\ b % 2 = 0 /\ 2 * (b \div 2) = b
         /\ SameAddress(b, x)
<1>1. PICK c \in Int : x = b + c * WordCount
  OBVIOUS
<1>2. b % 2 = 0
  <2> DEFINE k == c * (128 * 256)
  <2>1. k \in Int /\ c * WordCount = k * 2
    BY DEF WordCount
  <2> HIDE DEF k
  <2>2. (b + k * 2) % 2 = b % 2
    BY <2>1, WholeTurns
  <2> QED BY <1>1, <2>1, <2>2
<1>3. 2 * (b \div 2) = b
  BY <1>2
<1>4. x % WordCount = b % WordCount
  <2>1. WordCount \in Nat \ {0}
    BY WordTurns
  <2>2. (b + c * WordCount) % WordCount = b % WordCount
    BY <2>1, WholeTurns
  <2> QED BY <1>1, <2>2
<1>5. SameAddress(b, x)
  BY <1>4, CountLiteral, SMT DEF SameAddress
<1> QED BY <1>2, <1>3, <1>5

\* The constant of a load: the bits of its field in the opcode are zero.
LEMMA LoadWord ==
  ASSUME NEW v \in 0 .. 2^LdrWidth - 1
  PROVE  PatchField(LdrOpcode, LdrPosition, LdrWidth, v) = LdrOpcode + v * 2^LdrPosition
<1> DEFINE k == 2^LdrWidth
<1>1. k \in Nat \ {0} /\ FieldOf(LdrOpcode, LdrPosition, LdrWidth) = 0
  <2>1. LdrOpcode \div 2^LdrPosition = 192
    BY SMT DEF LdrOpcode, LdrPosition
  <2>2. FieldOf(LdrOpcode, LdrPosition, LdrWidth) = 192 % k
    BY <2>1, Zenon DEF FieldOf
  <2>3. /\ 192 % 2^1 = 0 /\ 192 % 2^2 = 0 /\ 192 % 2^3 = 0
        /\ 192 % 2^4 = 0 /\ 192 % 2^5 = 0 /\ 192 % 2^6 = 0
    BY SMT
  <2>4. LdrWidth \in {1, 2, 3, 4, 5, 6}
    BY WidthAssumption
  <2>5. 192 % k = 0
    BY <2>3, <2>4, ZenonT(40)
  <2>6. LdrWidth \in 0 .. 30
    BY <2>4
  <2> QED BY <2>2, <2>5, <2>6, Powers
<1>2. v \in 0 .. k - 1
  OBVIOUS
<1>3. PatchField(LdrOpcode, LdrPosition, LdrWidth, v)
        = LdrOpcode + ((v % k) - FieldOf(LdrOpcode, LdrPosition, LdrWidth)) * 2^LdrPosition
  BY Zenon DEF PatchField
<1> HIDE DEF k
<1>4. v % k = v /\ v - 0 = v
  BY <1>1, <1>2
<1> QED BY <1>1, <1>3, <1>4, Zenon
\* What a load that reaches its label looks like.
LoadReaches(j) ==
  LET constant == (StoredWord(j) - LdrOpcode) \div 2^LdrPosition
  IN  /\ constant \in 0 .. 2^LdrWidth - 1
      /\ StoredWord(j) = LdrOpcode + constant * 2^LdrPosition
      /\ Distance(j) % 2 = 0 => SameAddress(2 * constant, Distance(j))

LEMMA AcceptedLoad ==
  ASSUME BaseInv, ErrorInv, CodedInv, FieldsInv, Succeeded,
         NEW j \in DOMAIN ast, ast[j].stmt.op = "ldr", Refers(ast[j].stmt.target)
  PROVE  LoadReaches(j)
<1> DEFINE n == ast[j]
           e == n.stmt.target
           r == LoadReloc(n)
           b == BranchLength(n)
           v == b \div 2
           w == StoredWord(j)
           base == base_address[n.section]
           x == Distance(j)
<1>1. /\ LabelNear(e, n.section) /\ \E k \in DOMAIN relocs : relocs[k] = r
  <2>1. Coded(n)
    BY Accepted
  <2> HIDE DEF n
  <2> QED BY <2>1, Zenon DEF Coded, n
<1>2. Applied(r)
  BY <1>1, Accepted
<1>3. /\ r.section = n.section /\ r.offset = n.offset /\ r.width = LdrWidth
      /\ r.type = "RELATIVE_UNSIGNED" /\ r.symbol = e.symbol /\ r.addend = ValueOf(e) - 2
  BY Zenon DEF LoadReloc, LdrAddend
<1>4. b \in Int /\ \E c \in Int : x = b + c * WordCount
  BY <1>1, NearDistance
<1>5. /\ base \in Nat /\ n.offset \in Nat /\ ValueOf(e) \in Nat
  <2>1. n.section \in DOMAIN table /\ n.offset \in Nat /\ StatementKinds(n.stmt)
    BY NodeTypes
  <2>2. e \in Operand /\ IsLabel(e)
    BY <2>1 DEF StatementKinds, Refers
  <2> QED BY <2>1, <2>2, Accepted, OperandOffset DEF BaseInv, SymbolsOK
<1>6. symbols[e.symbol].section = n.section
  BY <1>1 DEF LabelNear, SectionOf
<1>7. /\ RelocDistance(r) = (base + (ValueOf(e) - 2)) - (base + n.offset)
      /\ b = ValueOf(e) - n.offset - 2
  BY <1>3, <1>6, Zenon DEF RelocDistance, Target, BranchLength
<1>8. w = FieldWord(r)
  BY <1>3, Zenon DEF StoredWord, FieldWord
<1> HIDE DEF n, e, r, b, w, base, x
<1>9. RelocDistance(r) = b
  BY <1>5, <1>7
<1>10. /\ b >= 0 /\ b < 2^(LdrWidth + 1)
       /\ w = PatchField(LdrOpcode, LdrPosition, LdrWidth, v)
  BY <1>2, <1>3, <1>8, <1>9, Zenon DEF Applied, ValueFits, PatchValue
<1> DEFINE k == 2^LdrWidth
<1>11. k \in Nat \ {0} /\ 2^(LdrWidth + 1) = 2 * k
  <2>1. LdrWidth \in {1, 2, 3, 4, 5, 6}
    BY WidthAssumption
  <2>2. /\ 2^(1 + 1) = 2 * 2^1 /\ 2^(2 + 1) = 2 * 2^2 /\ 2^(3 + 1) = 2 * 2^3
        /\ 2^(4 + 1) = 2 * 2^4 /\ 2^(5 + 1) = 2 * 2^5 /\ 2^(6 + 1) = 2 * 2^6
    BY SMT
  <2>3. 2^(LdrWidth + 1) = 2 * 2^LdrWidth
    BY <2>1, <2>2, Zenon
  <2>4. LdrWidth \in 0 .. 30
    BY <2>1
  <2> QED BY <2>3, <2>4, Powers
<1>12. v \in 0 .. k - 1
  <2>1. b < 2 * k
    BY <1>10, <1>11
  <2> HIDE DEF k
  <2> QED BY <1>4, <1>10, <1>11, <2>1
<1>13. w = LdrOpcode + v * 2^LdrPosition
  BY <1>10, <1>12, LoadWord
<1>14. (w - LdrOpcode) \div 2^LdrPosition = v
  <2>1. LdrOpcode \in Int /\ 2^LdrPosition = 16 /\ v \in Int
    <3>1. LdrOpcode \in Int /\ 2^LdrPosition = 16
      BY SMT DEF LdrOpcode, LdrPosition
    <3> HIDE DEF v, k
    <3> QED BY <1>11, <1>12, <3>1
  <2> DEFINE m == LdrOpcode
  <2>2. w = m + v * 16 /\ m \in Int /\ v \in Int
    BY <1>13, <2>1
  <2> HIDE DEF m, v
  <2>3. w - m = v * 16
    BY <2>2
  <2>4. (w - m) \div 16 = v
    BY <2>2, <2>3
  <2> QED BY <2>1, <2>4 DEF m
<1>15. ASSUME x % 2 = 0 PROVE SameAddress(2 * v, x)
  <2>1. 2 * (b \div 2) = b /\ SameAddress(b, x)
    BY <1>4, <1>15, EvenDistance
  <2> QED BY <2>1, Zenon
<1> HIDE DEF v, k
<1>16. v \in 0 .. 2^LdrWidth - 1
  BY <1>12 DEF k
<1> QED BY <1>13, <1>14, <1>15, <1>16, Zenon DEF LoadReaches, w, x

LEMMA LoadsShown == BaseInv /\ ErrorInv /\ CodedInv /\ FieldsInv => LdrReachesItsLabel
<1> SUFFICES ASSUME BaseInv, ErrorInv, CodedInv, FieldsInv, Succeeded,
                    NEW j \in Instructions("ldr"), Refers(ast[j].stmt.target)
             PROVE  LoadReaches(j)
  BY Zenon DEF LdrReachesItsLabel, LoadReaches
<1> QED BY AcceptedLoad DEF Instructions

\* In a run that ends without errors every ldr of a reference (a label plus or
\* minus a number of 16 bits) has its opcode intact and a constant of LdrWidth bits, and PC + 2 * constant is the address of the
\* label, unless the distance is odd: the distance is computed from the offsets
\* in one phase and applied in another, after all sections have their address.
THEOREM LoadsReachTheirLabel == Spec => []LdrReachesItsLabel
<1>1. RunInv => LdrReachesItsLabel
  BY LoadsShown DEF RunInv
<1> QED BY <1>1, RunInvHolds, PTL
\* Half the distance of a branch fits in the field, and reads back with its sign.
LEMMA SignedField ==
  ASSUME NEW b \in Int, b < 2^BranchWidth, b >= -(2^BranchWidth)
  PROVE  Signed((b \div 2) % 2^BranchWidth, BranchWidth) = b \div 2
<1> DEFINE k == 2^BranchWidth
           h == 2^(BranchWidth - 1)
           v == b \div 2
           f == v % k
<1>1. h \in Nat \ {0} /\ k = 2 * h
  <2>1. BranchWidth \in {1, 2, 3, 4, 5, 6, 7, 8, 9, 10}
    BY WidthAssumption
  <2>2. /\ 2^1 = 2 * 2^(1 - 1) /\ 2^2 = 2 * 2^(2 - 1) /\ 2^3 = 2 * 2^(3 - 1)
        /\ 2^4 = 2 * 2^(4 - 1) /\ 2^5 = 2 * 2^(5 - 1) /\ 2^6 = 2 * 2^(6 - 1)
        /\ 2^7 = 2 * 2^(7 - 1) /\ 2^8 = 2 * 2^(8 - 1) /\ 2^9 = 2 * 2^(9 - 1)
        /\ 2^10 = 2 * 2^(10 - 1)
    BY SMT
  <2>3. 2^BranchWidth = 2 * 2^(BranchWidth - 1)
    BY <2>1, <2>2, Zenon
  <2>4. BranchWidth - 1 \in 0 .. 30
    BY <2>1
  <2> QED BY <2>3, <2>4, Powers
<1>2. b < k /\ b >= -k
  OBVIOUS
<1>3. Signed(f, BranchWidth) = IF f >= h THEN f - k ELSE f
  BY Zenon DEF Signed
<1> HIDE DEF k, h
<1>4. v \in Int /\ v < h /\ v >= -h
  BY <1>1, <1>2
<1> HIDE DEF v
<1>5. f = IF v >= 0 THEN v ELSE v + k
  <2>1. k \in Nat \ {0}
    BY <1>1
  <2>2. CASE v >= 0
    <3>1. v \in 0 .. k - 1
      BY <1>1, <1>4, <2>2
    <3>2. (0 * k + v) % k = v
      BY <2>1, <3>1, DivMod
    <3>3. 0 * k + v = v
      BY <1>4, <2>1
    <3> QED BY <2>2, <3>2, <3>3
  <2>3. CASE ~(v >= 0)
    <3>1. v + k \in 0 .. k - 1
      BY <1>1, <1>4, <2>3
    <3>2. (v + 1 * k) % k = v % k
      <4>1. 1 \in Int
        OBVIOUS
      <4> QED BY <1>4, <2>1, <4>1, WholeTurns, Zenon
    <3>3. (v + k) % k = v + k /\ v + 1 * k = v + k
      BY <1>4, <2>1, <3>1
    <3> QED BY <2>3, <3>2, <3>3
  <2> QED BY <2>2, <2>3
<1> HIDE DEF f
<1>6. (IF f >= h THEN f - k ELSE f) = v
  BY <1>1, <1>4, <1>5
<1> QED BY <1>3, <1>6 DEF f, v, k

LEMMA AcceptedBranch ==
  ASSUME BaseInv, ErrorInv, CodedInv, FieldsInv, Succeeded,
         NEW j \in DOMAIN ast, ast[j].stmt.op = "branch", Refers(ast[j].stmt.target),
         Distance(j) % 2 = 0
  PROVE  SameAddress(2 * Signed(StoredWord(j) - BranchOpcode, BranchWidth), Distance(j))
<1> DEFINE n == ast[j]
           b == BranchLength(n)
           x == Distance(j)
           f == (b \div 2) % 2^BranchWidth
<1>1. /\ LabelNear(n.stmt.target, n.section) /\ BranchInRange(n)
      /\ WordAt(Contents(n.section), n.offset) = BranchWord(n)
  <2>1. Coded(n)
    BY Accepted
  <2> HIDE DEF n
  <2> QED BY <2>1, Zenon DEF Coded, n
<1>2. b \in Int /\ \E c \in Int : x = b + c * WordCount
  BY <1>1, NearDistance
<1>3. StoredWord(j) = BranchOpcode + f
  BY <1>1, Zenon DEF StoredWord, BranchWord
<1>4. b < 2^BranchWidth /\ b >= -(2^BranchWidth)
  BY <1>1 DEF BranchInRange
<1> HIDE DEF n, b
<1>5. Signed(f, BranchWidth) = b \div 2
  BY <1>2, <1>4, SignedField
<1>6. StoredWord(j) - BranchOpcode = f
  <2>1. f \in Int /\ BranchOpcode \in Int
    <3>1. 2^BranchWidth \in Nat \ {0}
      <4>1. BranchWidth \in 0 .. 30
        BY WidthAssumption
      <4> QED BY <4>1, Powers
    <3>2. b \div 2 \in Int
      BY <1>2
    <3>3. f \in Int
      <4> DEFINE k == 2^BranchWidth
                 v == b \div 2
      <4>1. k \in Nat \ {0} /\ v \in Int
        BY <3>1, <3>2
      <4> HIDE DEF k, v
      <4>2. v % k \in Int
        BY <4>1, QuotientAndRest
      <4> QED BY <4>2 DEF k, v
    <3>4. BranchOpcode \in Int
      BY SMT DEF BranchOpcode
    <3> QED BY <3>3, <3>4
  <2> HIDE DEF f
  <2> QED BY <1>3, <2>1
<1>7. 2 * (b \div 2) = b /\ SameAddress(b, x)
  BY <1>2, EvenDistance
<1> HIDE DEF f, x
<1>8. SameAddress(2 * Signed(StoredWord(j) - BranchOpcode, BranchWidth), x)
  BY <1>5, <1>6, <1>7, Zenon
<1> QED BY <1>8 DEF x

LEMMA BranchesShown == BaseInv /\ ErrorInv /\ CodedInv /\ FieldsInv => BranchReachesItsLabel
<1> SUFFICES ASSUME BaseInv, ErrorInv, CodedInv, FieldsInv, Succeeded,
                    NEW j \in Instructions("branch"), Refers(ast[j].stmt.target),
                    Distance(j) % 2 = 0
             PROVE  SameAddress(2 * Signed(StoredWord(j) - BranchOpcode, BranchWidth), Distance(j))
  BY Zenon DEF BranchReachesItsLabel
<1> QED BY AcceptedBranch DEF Instructions

\* In a run that ends without errors every branch to a reference (a label plus or
\* minus a number of 16 bits) goes there: twice
\* the offset in its field, with its sign, added to the PC is the address of the
\* label unless the distance is odd, wherever the sections have been placed.
THEOREM BranchesReachTheirLabel == Spec => []BranchReachesItsLabel
<1>1. RunInv => BranchReachesItsLabel
  BY BranchesShown DEF RunInv
<1> QED BY <1>1, RunInvHolds, PTL
=============================================================================
