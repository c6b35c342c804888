------------------------------ MODULE Assembler ------------------------------
(***************************************************************************)
(* The pipeline of p16as (src/src/pas.cpp) over its global structures: the *)
(* section table (module Sections), the label table, the list of           *)
(* relocations and the location of sections (module Locator).  The input   *)
(* is a sequence of lines and the -s options.  Symbols are labels: what    *)
(* .equ adds to the evaluation of expressions is in module Evaluation.     *)
(***************************************************************************)
EXTENDS Integers, Sequences, FiniteSets

CONSTANTS
  Names,                    \* section names
  Labels, NoLabel,          \* label names; the absence of one
  Programs,                 \* inputs: [lines, addresses], addresses from -s
  AddressLimit,             \* range of base_address (2^32 in the code)
  MemorySize,               \* size of the memory space (64 K in the code)
  BranchWidth, LdrWidth     \* BRANCH_OFFSET_SIZE (10),
                            \* LDR_RELATIVE_CONSTANT_SIZE (6)

ASSUME NamesAssumption == ".text" \in Names
ASSUME LabelAssumption == NoLabel \notin Labels
ASSUME WidthAssumption == BranchWidth \in 1 .. 10 /\ LdrWidth \in 1 .. 6
ASSUME RangeAssumption == AddressLimit \in Nat \ {0} /\ MemorySize \in Nat \ {0}

\* An operand is a number, or a label plus or minus a number.
Operand == [symbol : Labels \cup {NoLabel}, addend : Int]

\* A code word of the machine.
Word == 0 .. 65535

\* The statements the parser builds, one record set per constructor.  1 << n is
\* defined for the powers of .align.
Statement ==
  [op : {"empty"}] \cup [op : {"section"}, name : Names]
  \cup [op : {"inst"}, code : Word]
  \cup [op : {"ldr", "branch"}, target : Operand] \cup [op : {"shift"}, amount : Operand]
  \cup [op : {"data"}, grain : {1, 2}, values : Seq(Operand)]
  \cup [op : {"space"}, size : Operand, fill : Operand]
  \cup [op : {"align"}, power : 0 .. 30] \cup [op : {"ascii"}, text : Seq(0 .. 255)]

SourceLine == [label : Labels \cup {NoLabel}, stmt : Statement]

ASSUME ProgramsAssumption ==
  \A p \in Programs :
    /\ p.lines \in Seq(SourceLine)
    /\ DOMAIN p.addresses \subseteq Names
    /\ \A name \in DOMAIN p.addresses : p.addresses[name] \in 0 .. AddressLimit - 1

VARIABLES
  source,                   \* the lines of the input
  table, current_section,   \* Sections
  symbols,                  \* Labels -> entry, or Undefined
  ast,                      \* the statements, with the bytes they reserved
  relocs,                   \* Relocations::list
  section_addresses, base_address, list, next, current_address,
  empty_warnings, outcome,  \* Locator
  memory,                   \* cells written in the memory space
  phase,                    \* where main is
  pc,                       \* loop index of the phase, from 1
  error_count, warning_count,
  output,                   \* "old" until the output files are replaced
  result                    \* exit status, when phase is "exit"

sectionVars == <<table, current_section>>
locateVars  == <<section_addresses, base_address, list, next, current_address,
                 empty_warnings, outcome>>
reports     == <<error_count, warning_count>>
endVars     == <<source, memory, output, result>>
vars == <<sectionVars, symbols, ast, relocs, locateVars, phase, pc, reports,
          endVars>>

S == INSTANCE Sections WITH Blocks <- {}, Sizes <- {}, MaxSize <- 0

L == INSTANCE Locator
       WITH sections <- [s \in DOMAIN table |->
                           [name |-> table[s].name, size |-> Len(table[s].contents)]],
            Layouts <- {}, AddressMaps <- {}

Undefined == [section |-> 0, offset |-> 0, home |-> ""]

Defined(l) == symbols[l] # Undefined

Contents(s) == table[s].contents

-----------------------------------------------------------------------------
\* Machine words and fields.

\* A word as n bytes, little endian.
Bytes(word, n) == [i \in 1 .. n |-> (word \div 2^(8 * (i - 1))) % 256]

\* Section::read16: bytes past the end read as 0x55.
WordAt(contents, offset) ==
  LET byte(i) == IF i <= Len(contents) THEN contents[i] ELSE S!Filler
  IN  byte(offset + 1) + 256 * byte(offset + 2)

FieldOf(word, position, width) == (word \div 2^position) % 2^width

\* Mutant: the value is not masked.
PatchFieldUnmasked(word, position, width, value) ==
  word + (value - FieldOf(word, position, width)) * 2^position

\* content &= ~(mask << position); content |= (value & mask) << position
PatchField(word, position, width, value) ==
  word + ((value % 2^width) - FieldOf(word, position, width)) * 2^position

LdrOpcode    == 3072        \* 0x0c00
BranchOpcode == 22528       \* 0x5800
ShiftOpcode  == 57344       \* 0xe000
LdrPosition  == 4
ShiftPosition == 7

-----------------------------------------------------------------------------
\* evaluate() computes an int and get_value() returns its low 16 bits.

IsLabel(e) == e.symbol # NoLabel

IntOf(e) == IF IsLabel(e) THEN (symbols[e.symbol].offset % 65536) + e.addend
            ELSE e.addend

MaxWord == 65535

Fits16(v) == v \in -MaxWord .. MaxWord

\* The number of an operand, a Value of its own.
NumberFits(e) == Fits16(e.addend)

Evaluates(e) == /\ NumberFits(e)
                /\ IsLabel(e) => Defined(e.symbol)
                /\ Fits16(IntOf(e))

ValueOf(e) == IntOf(e) % 65536

\* What evaluate() reports when it fails.  The label is evaluated first and must
\* be defined; then the number, which only warns when it has more than 16 bits,
\* with a label before it or not; then a sum of more than 16 bits is an error.
EvalErrors(e) ==
  IF IsLabel(e) /\ (Defined(e.symbol) => NumberFits(e) /\ ~Fits16(IntOf(e)))
  THEN 1 ELSE 0

EvalWarnings(e) ==
  IF ~NumberFits(e) /\ (IsLabel(e) => Defined(e.symbol)) THEN 1 ELSE 0

SectionOf(e) == symbols[e.symbol].section

Count(condition) == IF condition THEN 1 ELSE 0

-----------------------------------------------------------------------------
\* The parser: a constructor per line reserves the bytes of the statement.

AlignUp(offset, n) == ((offset + 2^n - 1) \div 2^n) * 2^n

\* .space needs the value of its operand in the constructor.
SpaceSize(stmt) == IF Evaluates(stmt.size) THEN ValueOf(stmt.size) ELSE 0

SizeOf(stmt, offset) ==
  CASE stmt.op \in {"inst", "ldr", "branch", "shift"} -> 2
    [] stmt.op = "data"  -> stmt.grain * Len(stmt.values)
    [] stmt.op = "space" -> SpaceSize(stmt)
    [] stmt.op = "align" -> AlignUp(offset, stmt.power) - offset
    [] stmt.op = "ascii" -> Len(stmt.text)
    [] OTHER -> 0

\* Labels an operand of the line mentions enter the symbol table undefined,
\* which is how they start here.  Only .space needs a value at once.
ParseErrors(stmt) ==
  IF stmt.op = "space" /\ ~Evaluates(stmt.size) THEN 1 + EvalErrors(stmt.size) ELSE 0
ParseWarnings(stmt) == IF stmt.op = "space" THEN EvalWarnings(stmt.size) ELSE 0

\* The bytes move the end of the current section, or a directive moves the
\* current section itself.
Construct(stmt) ==
  CASE stmt.op = "section" -> S!SetSection(stmt.name)
    [] stmt.op = "ascii"   -> S!AppendBlock(stmt.text)
    [] OTHER -> S!Increase(SizeOf(stmt, Len(Contents(current_section))))

\* The section the source text names last; "" when it has named none.
LastDirective(statements) ==
  LET ds == {j \in DOMAIN statements : statements[j].stmt.op = "section"}
      last == CHOOSE j \in ds : \A k \in ds : k <= j
  IN  IF ds = {} THEN "" ELSE statements[last].stmt.name

\* add_label: after the constructor, with the place of the statement.  `home`
\* is history: the section the source puts the label in.
AddLabel(label, section, offset) ==
  IF label = NoLabel \/ Defined(label)
  THEN UNCHANGED symbols
  ELSE symbols' = [symbols EXCEPT ![label] =
                     [section |-> section, offset |-> offset,
                      home |-> LastDirective(ast')]]

\* Mutant: the offset is read after the bytes were reserved.
NodeAfterItsBytes(stmt, section, offset) ==
  [stmt |-> stmt, section |-> section,
   offset |-> offset + SizeOf(stmt, offset), size |-> SizeOf(stmt, offset)]

\* section_index, section_offset and size_in_memory of a statement.
Node(stmt, section, offset) ==
  [stmt |-> stmt, section |-> section, offset |-> offset,
   size |-> SizeOf(stmt, offset)]

ParseLine ==
  LET line == source[Len(ast) + 1]
      section == current_section'
      offset == IF line.stmt.op = "section" THEN Len(table'[section].contents)
                ELSE Len(Contents(section))
  IN  /\ phase = "parse" /\ Len(ast) < Len(source)
      /\ Construct(line.stmt)
      /\ ast' = Append(ast, Node(line.stmt, section, offset))
      /\ AddLabel(line.label, section, offset)
      /\ error_count' = error_count + ParseErrors(line.stmt)
           + Count(line.label # NoLabel /\ Defined(line.label))
      /\ warning_count' = warning_count + ParseWarnings(line.stmt)
      /\ UNCHANGED <<relocs, locateVars, phase, pc, endVars>>

\* The next line has no syntax: yyerror ends the process.
SyntaxError ==
  /\ phase = "parse" /\ Len(ast) < Len(source)
  /\ phase' = "exit" /\ result' = 1 /\ error_count' = error_count + 1
  /\ UNCHANGED <<sectionVars, symbols, ast, relocs, locateVars, pc,
                 warning_count, source, memory, output>>

\* End of a phase: main goes on only when no error has been reported.
GoTo(phase2) ==
  /\ phase' = IF error_count > 0 THEN "exit" ELSE phase2
  /\ result' = IF error_count > 0 THEN 1 ELSE result
  /\ pc' = 1
  /\ UNCHANGED <<reports, source, memory, output>>

EndOfFile ==
  /\ phase = "parse" /\ Len(ast) = Len(source)
  /\ GoTo("generate")
  /\ UNCHANGED <<sectionVars, symbols, ast, relocs, locateVars>>

-----------------------------------------------------------------------------
\* The code generator: one visit per statement.

This == ast[pc]

Visiting(op) == phase = "generate" /\ pc <= Len(ast) /\ This.stmt.op = op

\* A visit ends: it wrote `bytes`, queued relocations and reported errors and
\* warnings.
VisitedAt(offset, bytes, newRelocs, errors, warnings) ==
  /\ S!WriteBlock(This.section, offset, bytes)
  /\ relocs' = relocs \o newRelocs
  /\ error_count' = error_count + errors
  /\ warning_count' = warning_count + warnings
  /\ pc' = pc + 1
  /\ UNCHANGED <<symbols, ast, locateVars, phase, endVars>>

\* Mutant: the bytes are written where the section starts.
VisitedAtStart(bytes, newRelocs, errors, warnings) ==
  VisitedAt(0, bytes, newRelocs, errors, warnings)

\* A visit writes at the start of its statement.
Visited(bytes, newRelocs, errors, warnings) ==
  VisitedAt(This.offset, bytes, newRelocs, errors, warnings)

\* check_alignment
Misaligned == Count(This.offset % 2 # 0)

\* An instruction without address operand.
VisitInstruction ==
  /\ Visiting("inst")
  /\ Visited(Bytes(This.stmt.code, 2), <<>>, 0, Misaligned)

\* Mutant: the PC is taken to be at the instruction.
LdrAddendFromHere(e) == ValueOf(e)

\* The addend brings the value from the instruction to the PC, two bytes ahead.
LdrAddend(e) == ValueOf(e) - 2

\* Inst_load_relative: the field is left to a relocation.
VisitLoadRelative ==
  LET e == This.stmt.target
      near == IsLabel(e) /\ SectionOf(e) = This.section
      reloc == [section |-> This.section, offset |-> This.offset,
                position |-> LdrPosition, width |-> LdrWidth,
                type |-> "RELATIVE_UNSIGNED", symbol |-> e.symbol,
                addend |-> LdrAddend(e)]
  IN  /\ Visiting("ldr")
      /\ Visited(Bytes(LdrOpcode, 2),
                 IF Evaluates(e) /\ near THEN <<reloc>> ELSE <<>>,
                 EvalErrors(e) + Count(Evaluates(e) /\ ~near),
                 Misaligned + EvalWarnings(e))

\* Mutant: the distance is counted from the instruction.
BranchDistanceFromHere(e) == ValueOf(e) - This.offset

BranchDistance(e) == ValueOf(e) - This.offset - 2

\* Inst_branch: a label of the same section is resolved at once, the PC being
\* two bytes ahead; a number is encoded as the offset itself.
VisitBranch ==
  LET e == This.stmt.target
      near == IsLabel(e) /\ SectionOf(e) = This.section
      distance == BranchDistance(e)
      codable == distance < 2^BranchWidth /\ distance >= -(2^BranchWidth)
      offset == CASE ~Evaluates(e)  -> 0
                  [] ~IsLabel(e)    -> ValueOf(e) \div 2
                  [] near           -> distance \div 2
                  [] OTHER          -> 0
      odd == IF IsLabel(e) THEN near /\ distance % 2 # 0 ELSE ValueOf(e) % 2 # 0
  IN  /\ Visiting("branch")
      /\ Visited(Bytes(BranchOpcode + (offset % 2^BranchWidth), 2), <<>>,
                 EvalErrors(e) + Count(/\ Evaluates(e) /\ IsLabel(e)
                                       /\ (near => ~codable)),
                 Misaligned + EvalWarnings(e) + Count(Evaluates(e) /\ odd))

\* Inst_shift writes its word only when the constant evaluates to a number.
VisitShift ==
  LET e == This.stmt.amount
      ok == Evaluates(e) /\ ~IsLabel(e)
  IN  /\ Visiting("shift")
      /\ Visited(IF ok THEN Bytes(ShiftOpcode + (ValueOf(e) % 16) * 2^ShiftPosition, 2)
                 ELSE <<>>,
                 <<>>,
                 EvalErrors(e) + Count(Evaluates(e) /\ IsLabel(e)),
                 Misaligned + EvalWarnings(e) + Count(ok /\ ValueOf(e) > 15))

\* Dir_byte: .byte has grain 1 and .word grain 2; a label is relocated later,
\* its offset being written now.
VisitData ==
  LET grain == This.stmt.grain
      values == This.stmt.values
      stored(e) == IF Evaluates(e) THEN ValueOf(e) ELSE 0
      relocOf(i) == [section |-> This.section,
                     offset |-> This.offset + (i - 1) * grain,
                     position |-> 0, width |-> 8 * grain, type |-> "ABSOLUTE",
                     symbol |-> values[i].symbol, addend |-> ValueOf(values[i])]
      queued[i \in 0 .. Len(values)] ==
        IF i = 0 THEN <<>>
        ELSE queued[i - 1] \o IF IsLabel(values[i]) /\ Evaluates(values[i])
                              THEN <<relocOf(i)>> ELSE <<>>
      errs(e) == \/ EvalErrors(e) = 1
                 \/ /\ Evaluates(e) /\ ValueOf(e) # 0
                    /\ table[This.section].flags = "BSS"
      warns(e) == \/ EvalWarnings(e) = 1
                  \/ ~IsLabel(e) /\ Evaluates(e) /\ ValueOf(e) >= 2^(8 * grain)
  IN  /\ Visiting("data")
      /\ Visited([k \in 1 .. grain * Len(values) |->
                    Bytes(stored(values[((k - 1) \div grain) + 1]), grain)
                      [((k - 1) % grain) + 1]],
                 queued[Len(values)],
                 Cardinality({i \in DOMAIN values : errs(values[i])}),
                 Cardinality({i \in DOMAIN values : warns(values[i])})
                   + Count(This.offset % grain # 0) + Count(values = <<>>))

\* Dir_space fills what its constructor reserved, from operands evaluated now.
VisitSpace ==
  LET size == This.stmt.size
      fill == This.stmt.fill
      sized == Evaluates(size) /\ ~IsLabel(size)
      filled == sized /\ Evaluates(fill) /\ ~IsLabel(fill)
  IN  /\ Visiting("space")
      /\ Visited(IF filled THEN S!Repeat(ValueOf(fill) % 256, ValueOf(size)) ELSE <<>>,
                 <<>>,
                 EvalErrors(size) + Count(Evaluates(size) /\ IsLabel(size))
                   + IF sized THEN EvalErrors(fill)
                                   + Count(Evaluates(fill) /\ IsLabel(fill))
                     ELSE 0,
                 EvalWarnings(size) + IF sized
                                      THEN EvalWarnings(fill)
                                           + Count(filled /\ ValueOf(fill) > 255)
                                      ELSE 0)

\* Dir_align fills with zeros what its constructor reserved.
VisitAlign ==
  /\ Visiting("align")
  /\ Visited(S!Repeat(0, This.size), <<>>, 0, 0)

Silent == {"empty", "section", "ascii"}

\* Labels alone, section directives and strings generate nothing.
VisitOther ==
  /\ phase = "generate" /\ pc <= Len(ast)
  /\ This.stmt.op \in Silent
  /\ pc' = pc + 1
  /\ UNCHANGED <<sectionVars, symbols, ast, relocs, locateVars, phase, reports,
                 endVars>>

\* main enters locate with every base address still 0.
EndOfCode ==
  /\ phase = "generate" /\ pc > Len(ast)
  /\ GoTo("locate")
  /\ base_address' = [s \in DOMAIN table |-> 0]
  /\ UNCHANGED <<sectionVars, symbols, ast, relocs, section_addresses, list,
                 next, current_address, empty_warnings, outcome>>

-----------------------------------------------------------------------------
\* Sections::locate, one section per step; an overlap ends the process.
LocateSection ==
  /\ phase = "locate"
  /\ UNCHANGED <<sectionVars, symbols, ast, relocs, phase, pc, error_count, endVars>>
  /\ L!PlaceSection
  /\ warning_count' = warning_count + Count(empty_warnings' # empty_warnings)

OverlapExit ==
  /\ phase = "locate"
  /\ UNCHANGED <<sectionVars, symbols, ast, relocs, pc, warning_count, source,
                 memory, output>>
  /\ L!OverlapExit
  /\ error_count' = error_count + 1
  /\ phase' = "exit" /\ result' = 1

EndOfLocation ==
  /\ phase = "locate"
  /\ UNCHANGED <<sectionVars, symbols, ast, relocs>>
  /\ L!Finish
  /\ GoTo("relocate")

-----------------------------------------------------------------------------
\* Mutant: the base is that of the section that holds the field.
TargetInOwnSection(r) == base_address[r.section] + r.addend

Target(r) == base_address[symbols[r.symbol].section] + r.addend

\* Relocations::relocate, one relocation per step.  The field is patched even
\* when the value does not fit; the error stops main afterwards.  A relocation of
\* an undefined symbol (lines 48-53) does not come up: it is queued only after
\* its expression has evaluated, and a label once defined stays defined.
Relocate ==
  LET r == relocs[pc]
      target == Target(r)
      distance == target - (base_address[r.section] + r.offset)
      relative == r.type = "RELATIVE_UNSIGNED"
      errors == IF relative
                THEN Count(distance < 0) + Count(distance >= 2^(r.width + 1))
                ELSE Count(target > 2^r.width)
      value == IF relative THEN distance \div 2 ELSE target
      word == WordAt(Contents(r.section), r.offset)
  IN  /\ phase = "relocate" /\ pc <= Len(relocs)
      /\ S!WriteBlock(r.section, r.offset,
                      Bytes(PatchField(word, r.position, r.width, value), 2))
      /\ error_count' = error_count + errors
      /\ warning_count' = warning_count + Count(relative /\ target % 2 # 0)
      /\ pc' = pc + 1
      /\ UNCHANGED <<symbols, ast, relocs, locateVars, phase, endVars>>

EndOfRelocation ==
  /\ phase = "relocate" /\ pc > Len(relocs)
  /\ GoTo("load")
  /\ UNCHANGED <<sectionVars, symbols, ast, relocs, locateVars>>

-----------------------------------------------------------------------------
\* load_memory_space: loadable sections are copied in table order to a memory
\* that wraps at MemorySize and reads zero where nothing was written.
Cells(s) == {(base_address[s] + i - 1) % MemorySize : i \in DOMAIN Contents(s)}

\* Mutant: only .stack is left out.
LoadableUnlessStack(s) == table[s].flags # "none"

Loadable(s) == table[s].flags = "LOADABLE"

LoadSection ==
  LET byteAt(a) == CHOOSE i \in DOMAIN Contents(pc) :
                     (base_address[pc] + i - 1) % MemorySize = a
  IN  /\ phase = "load" /\ pc <= Len(table)
      /\ memory' = IF ~Loadable(pc) THEN memory
                   ELSE [a \in DOMAIN memory \cup Cells(pc) |->
                           IF a \in Cells(pc) THEN Contents(pc)[byteAt(a)]
                           ELSE memory[a]]
      /\ pc' = pc + 1
      /\ UNCHANGED <<sectionVars, symbols, ast, relocs, locateVars, phase, reports,
                     source, output, result>>

\* Mutant: warnings do not show in the exit status.
StatusWithoutWarnings == 0

ExitStatus == IF warning_count > 0 THEN 2 ELSE 0

\* The listing and the image replace the old files.
WriteOutput ==
  /\ phase = "load" /\ pc > Len(table)
  /\ output' = "new"
  /\ result' = ExitStatus
  /\ phase' = "exit"
  /\ UNCHANGED <<sectionVars, symbols, ast, relocs, locateVars, pc, reports,
                 source, memory>>

-----------------------------------------------------------------------------
Init == /\ S!Init
        /\ symbols = [l \in Labels |-> Undefined]
        /\ ast = <<>> /\ relocs = <<>>
        /\ \E program \in Programs : /\ source = program.lines
                                     /\ section_addresses = program.addresses
        /\ base_address = <<>> /\ list = <<>> /\ next = 1
        /\ current_address = 0 /\ empty_warnings = {} /\ outcome = "locating"
        /\ memory = <<>> /\ phase = "parse" /\ pc = 1
        /\ error_count = 0 /\ warning_count = 0
        /\ output = "old" /\ result = 0

Generate == \/ VisitInstruction \/ VisitLoadRelative \/ VisitBranch \/ VisitShift
            \/ VisitData \/ VisitSpace \/ VisitAlign \/ VisitOther \/ EndOfCode

Locate == LocateSection \/ OverlapExit \/ EndOfLocation

Next == \/ ParseLine \/ SyntaxError \/ EndOfFile
        \/ Generate
        \/ Locate
        \/ Relocate \/ EndOfRelocation
        \/ LoadSection \/ WriteOutput

Spec == Init /\ [][Next]_vars

-----------------------------------------------------------------------------
\* What the properties speak of.

Succeeded == phase = "exit" /\ result # 1

Extent(j) == ast[j].offset + 1 .. ast[j].offset + ast[j].size

\* Every byte of a section belongs to exactly one statement.
Tiled == \A s \in DOMAIN table :
           \A i \in DOMAIN Contents(s) :
             Cardinality({j \in DOMAIN ast : ast[j].section = s /\ i \in Extent(j)}) = 1

AddressOf(j) == base_address[ast[j].section] + ast[j].offset

TargetOf(e) == base_address[SectionOf(e)] + symbols[e.symbol].offset + e.addend

StoredWord(j) == WordAt(Contents(ast[j].section), ast[j].offset)

\* The field as the processor reads a branch offset.
Signed(value, width) == IF value >= 2^(width - 1) THEN value - 2^width ELSE value

Instructions(op) == {j \in DOMAIN ast : ast[j].stmt.op = op}

Distance(j) == TargetOf(ast[j].stmt.target) - (AddressOf(j) + 2)

\* Expressions are evaluated in 16 bits, and the processor adds in 16 bits.
SameAddress(a, b) == a % 65536 = b % 65536

\* A reference to a label.  With a number of more than 16 bits beside the label
\* the expression only warns, and the statement is left without its value.
Refers(e) == IsLabel(e) /\ NumberFits(e)

DataLabels(j) == {i \in DOMAIN ast[j].stmt.values : Refers(ast[j].stmt.values[i])}

End(s) == base_address[s] + Len(Contents(s))

RelocatesLastByte ==
  /\ phase = "relocate" /\ pc <= Len(relocs)
  /\ LET r == relocs[pc]
     IN  /\ r.width = 8 /\ r.offset + 1 = Len(Contents(r.section))
         /\ \A s \in DOMAIN table :
              Len(table'[s].contents) = Len(Contents(s)) + Count(s = r.section)

Disjoint == \A s, t \in DOMAIN table :
              s # t => End(s) <= base_address[t] \/ End(t) <= base_address[s]

-----------------------------------------------------------------------------
TypeOK ==
  /\ S!TypeOK
  /\ symbols \in [Labels -> [section : 0 .. Len(table), offset : Nat,
                             home : Names \cup {""}]]
  /\ \A j \in DOMAIN ast : ast[j].section \in DOMAIN table /\ ast[j].size \in Nat
  /\ phase \in {"parse", "generate", "locate", "relocate", "load", "exit"}
  /\ phase \in {"relocate", "load"} => base_address \in [DOMAIN table -> Nat]
  /\ output \in {"old", "new"} /\ result \in {0, 1, 2}
  /\ error_count \in Nat /\ warning_count \in Nat

\* Statements tile their sections, whatever section directives come between
\* them: no byte is reserved twice or by nobody until relocations are applied.
ReservedBytesTileSections ==
  phase \in {"parse", "generate", "locate"} => Tiled

\* A generated ldr reads the word its label names: opcode intact, and
\* PC + 2 * constant the address of the label, unless the distance is odd, or a
\* number beside the label has more than 16 bits: that only warns, and the image
\* has the field empty (expression.cpp 79-87, code_generator.cpp 111).
LdrReachesItsLabel ==
  Succeeded =>
    \A j \in Instructions("ldr") :
      LET constant == (StoredWord(j) - LdrOpcode) \div 2^LdrPosition
      IN  Refers(ast[j].stmt.target) =>
          /\ constant \in 0 .. 2^LdrWidth - 1
          /\ StoredWord(j) = LdrOpcode + constant * 2^LdrPosition
          /\ Distance(j) % 2 = 0 => SameAddress(2 * constant, Distance(j))

\* A generated branch to a label goes there: PC + 2 * offset, sign extended.  A
\* number of more than 16 bits beside the label only warns, as in an ldr.
BranchReachesItsLabel ==
  Succeeded =>
    \A j \in Instructions("branch") :
      Refers(ast[j].stmt.target) /\ Distance(j) % 2 = 0 =>
        SameAddress(2 * Signed(StoredWord(j) - BranchOpcode, BranchWidth), Distance(j))

\* .word and .byte of a label hold its final address, modulo the width; an
\* address past the width has stopped the program, for labels in the first 64 K
\* of their section.  A number of more than 16 bits beside the label only warns,
\* and what is stored is zero.
DataHoldsAddresses ==
  Succeeded =>
    \A j \in Instructions("data") : \A i \in DataLabels(j) :
      LET grain == ast[j].stmt.grain
          e == ast[j].stmt.values[i]
          word == WordAt(Contents(ast[j].section), ast[j].offset + (i - 1) * grain)
      IN  /\ word % 2^(8 * grain) = TargetOf(e) % 2^(8 * grain)
          /\ symbols[e.symbol].offset < 65536 => TargetOf(e) <= 2^(8 * grain)

\* What is dumped: the memory holds each loadable section at its address and
\* nothing else, when sections fit the memory and do not meet.
ImageHoldsSections ==
  Succeeded /\ Disjoint /\ (\A s \in DOMAIN table : End(s) <= MemorySize) =>
    LET loaded == {s \in DOMAIN table : table[s].flags = "LOADABLE"}
    IN  /\ DOMAIN memory = UNION {Cells(s) : s \in loaded}
        /\ \A s \in loaded : \A i \in DOMAIN Contents(s) :
             memory[base_address[s] + i - 1] = Contents(s)[i]

\* Output files change exactly when no phase reported an error, and the exit
\* status tells errors, warnings and success apart.
ErrorsStopOutput ==
  phase = "exit" =>
    /\ result = 1 <=> error_count > 0
    /\ result = 2 <=> error_count = 0 /\ warning_count > 0
    /\ output = "new" <=> error_count = 0

\* A visit writes its own statement's bytes and resizes no section.
VisitsStayInTheirStatement ==
  [][phase = "generate" =>
       \A s \in DOMAIN table :
         /\ Len(table'[s].contents) = Len(Contents(s))
         /\ \A i \in DOMAIN Contents(s) :
              table'[s].contents[i] # Contents(s)[i] =>
                pc <= Len(ast) /\ This.section = s /\ i \in Extent(pc)]_vars

\* A relocation changes the bits of its field and no other: not the opcode,
\* not the byte next to a .byte.
RelocationsPatchTheirField ==
  [][phase = "relocate" /\ pc <= Len(relocs) =>
       LET r == relocs[pc]
           old == WordAt(Contents(r.section), r.offset)
           new == WordAt(table'[r.section].contents, r.offset)
       IN  /\ \A s \in DOMAIN table : \A i \in DOMAIN Contents(s) :
                table'[s].contents[i] # Contents(s)[i] =>
                  s = r.section /\ i \in {r.offset + 1, r.offset + 2}
           /\ old % 2^r.position = new % 2^r.position
           /\ old \div 2^(r.position + r.width) = new \div 2^(r.position + r.width)]_vars

\* Seen from the section table, the whole run is a run of the store of one body
\* per name, with one exception: relocating the last byte of a section writes a
\* word there, and the section gets a byte more (relocations.cpp 83-118).
ImplementsSections ==
  /\ S!Store!Init
  /\ [][S!Store!Next \/ RelocatesLastByte]_sectionVars

-----------------------------------------------------------------------------
\* A claim of a comment that the code does not keep.

\* Once the program has named a section itself, a label written there stays
\* there: only the .text created for the program is replaced ("Se o utilizador
\* começar por definir uma secção, esta vai substituir a secção .text
\* inicialmente criada", sections.cpp 144-148).
LabelsStayInTheirSection ==
  \A l \in Labels :
    Defined(l) /\ symbols[l].home # "" =>
      table[symbols[l].section].name = symbols[l].home
=============================================================================
