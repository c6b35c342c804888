---------------------------- MODULE ImageWriters ----------------------------
(***************************************************************************)
(* From located sections to image files: load_memory_space copies the       *)
(* sections into the paged memory (module MemorySpace), and for each output *)
(* file main (src/src/pas.cpp 274-334) runs binary_hex_intel, binary_raw,   *)
(* binary_logisim or binary_logisim16 (src/src/sections.cpp 219-336), which *)
(* read it back.  Text is abstracted to the numbers it spells.              *)
(***************************************************************************)
EXTENDS MemorySpace, FiniteSets

CONSTANTS
  Tables,                   \* located tables: Seq([base, contents, loadable])
  AddressRange,             \* values of an unsigned address: 2^32
  Windows,                  \* -a options tried: [lower, higher]
  NoWindow,                 \* no -a option
  Formats,                  \* subset of {"hexintel", "binary", "logisim8",
                            \*            "logisim16"}
  WordSizes,                \* 1, or 2 when -l is given
  RecordSize                \* data bytes in an Intel HEX record (16)

ASSUME RecordAssumption == RecordSize \in Nat \ {0}
ASSUME WordSizeAssumption == WordSizes \subseteq {1, 2}
\* The parser leaves a section at least, and location a base for each, whose
\* end is in the range of addresses after a cursor has stepped past it too.
ASSUME TablesAssumption ==
  \A t \in Tables :
    /\ t # <<>>
    /\ t \in Seq([base : Nat, contents : Seq(Byte), loadable : BOOLEAN])
    /\ \A s \in DOMAIN t : t[s].base + Len(t[s].contents) + 4 <= AddressRange
ASSUME WindowAssumption ==
  /\ AddressRange \in Nat \ {0}
  /\ \A w \in Windows : w \in [lower : Nat, higher : Nat] /\ w.higher + 4 <= AddressRange
ASSUME NoWindowAssumption == NoWindow \notin Windows

VARIABLES
  sections,                 \* what location left: a table of Tables
  option_address,           \* the -a option, or NoWindow
  format, word_size,
  byte_order,               \* the file being written, from 0
  out,                      \* its elements so far
  files,                    \* the files finished
  i,                        \* section loops of load_memory_space, binary_hex_intel
  address, size,            \* cursor, and units left in the section
  run,                      \* Logisim: [value, count] being repeated
  pc

inputs == <<sections, option_address, format, word_size>>
cursor == <<i, address, size, run>>
writerVars == <<inputs, byte_order, out, files, cursor, pc>>
vars == <<memoryVars, writerVars>>

-----------------------------------------------------------------------------
EndOf(s) == sections[s].base + Len(sections[s].contents)

\* Sections::lower_address and higher_address: first base and last end in
\* address order, over all the sections of the table.
LowestBase == CHOOSE b \in {sections[s].base : s \in DOMAIN sections} :
                \A s \in DOMAIN sections : b <= sections[s].base
HighestEnd == CHOOSE e \in {EndOf(s) : s \in DOMAIN sections} :
                \A s \in DOMAIN sections : e >= EndOf(s)

lower_address == IF option_address = NoWindow THEN LowestBase
                 ELSE option_address.lower
higher_address == IF option_address = NoWindow THEN HighestEnd
                  ELSE option_address.higher

Larger(m, n)  == IF m >= n THEN m ELSE n

\* Logisim words of 16 bits take two cells and ignore -l.
Wide == format = "logisim16"
Stride == IF Wide THEN 2 ELSE word_size
Unit(a) == IF Wide THEN Read16(a) ELSE Read8(a)
FileCount == IF Wide THEN 1 ELSE word_size

\* Mutant: the high byte of the load address is left out of the checksum.
HeaderSumOfLowByte(load, n) == n + load

HeaderSum(load, n) == n + load + (load \div ByteLimit)

\* The address field of a record has the digits of two bytes.
FormatLimit == ByteLimit * ByteLimit

\* A record of type 00.  %04X prints at least the digits of the address field:
\* those of a larger load address come before them, as extra.  The checksum
\* counts the two bytes of the field.
DataRecord(load, octets) ==
  LET sum[k \in 0 .. Len(octets)] == IF k = 0 THEN HeaderSum(load, Len(octets))
                                     ELSE sum[k - 1] + octets[k]
  IN  [extra |-> load \div FormatLimit, load |-> load % FormatLimit,
       type |-> 0, octets |-> octets,
       checksum |-> (ByteLimit - (sum[Len(octets)] % ByteLimit)) % ByteLimit]

EndRecord == [extra |-> 0, load |-> 0, type |-> 1, octets |-> <<>>,
              checksum |-> ByteLimit - 1]

-----------------------------------------------------------------------------
Init == /\ MemoryInit
        /\ sections \in Tables
        /\ option_address \in Windows \cup {NoWindow}
        /\ format \in Formats /\ word_size \in WordSizes
        /\ byte_order = 0 /\ out = <<>> /\ files = <<>>
        /\ i = 1 /\ address = 0 /\ size = 0
        /\ run = [value |-> 0, count |-> 0]
        /\ pc = "load"

\* load_memory_space, a call of write per loadable section.
LoadSection ==
  /\ pc = "load" /\ i <= Len(sections) /\ data = <<>>
  /\ IF sections[i].loadable THEN Write(sections[i].base, sections[i].contents)
     ELSE UNCHANGED memoryVars
  /\ i' = i + 1
  /\ UNCHANGED <<inputs, byte_order, out, files, address, size, run, pc>>

LoadChunk == WriteChunk /\ UNCHANGED writerVars

EndOfLoad == /\ pc = "load" /\ i > Len(sections) /\ data = <<>>
             /\ pc' = "open"
             /\ UNCHANGED <<memoryVars, inputs, byte_order, out, files, cursor>>

\* Mutant: both interleaved files start at the same cell.
FirstCellIgnoringOrder == lower_address

FirstCell == lower_address + byte_order

\* remove() the old file, open the new one, set the cursor.
OpenFile ==
  /\ pc = "open" /\ byte_order < FileCount
  /\ out' = <<>> /\ i' = 1
  /\ address' = FirstCell
  /\ pc' = CASE format = "hexintel" -> "section"
             [] format = "binary"   -> "bytes"
             [] OTHER               -> "token"
  /\ UNCHANGED <<inputs, byte_order, files, size, run>>

CloseFile(last) ==
  /\ files' = Append(files, out \o last)
  /\ byte_order' = byte_order + 1
  /\ pc' = "open"
  /\ UNCHANGED <<inputs, out, cursor>>

Finish == /\ pc = "open" /\ byte_order = FileCount
          /\ pc' = "done"
          /\ UNCHANGED <<inputs, byte_order, out, files, cursor>>

-----------------------------------------------------------------------------
\* binary_raw: one cell per stride of the window.
RawByte == /\ pc = "bytes" /\ address < higher_address
           /\ out' = Append(out, Read8(address))
           /\ address' = address + word_size
           /\ UNCHANGED <<inputs, byte_order, files, i, size, run, pc>>

RawEnd == /\ pc = "bytes" /\ address >= higher_address
          /\ CloseFile(<<>>)

-----------------------------------------------------------------------------
\* binary_logisim and binary_logisim16: a value, or count * value when the
\* unit after it is the same.
SingleToken ==
  /\ pc = "token" /\ address < higher_address
  /\ Unit(address + Stride) # Unit(address)
  /\ out' = Append(out, [count |-> 1, value |-> Unit(address)])
  /\ address' = address + Stride
  /\ UNCHANGED <<inputs, byte_order, files, i, size, run, pc>>

\* Mutant: the second unit of the run is not counted.
NewRunOfOne == [value |-> Unit(address), count |-> 1]

NewRun == [value |-> Unit(address), count |-> 2]

StartRun ==
  /\ pc = "token" /\ address < higher_address
  /\ Unit(address + Stride) = Unit(address)
  /\ run' = NewRun
  /\ address' = address + 2 * Stride
  /\ pc' = "run"
  /\ UNCHANGED <<inputs, byte_order, out, files, i, size>>

InRun == address < higher_address /\ Unit(address) = run.value

ExtendRun ==
  /\ pc = "run" /\ InRun
  /\ run' = [run EXCEPT !.count = @ + 1]
  /\ address' = address + Stride
  /\ UNCHANGED <<inputs, byte_order, out, files, i, size, pc>>

EndRun ==
  /\ pc = "run" /\ ~InRun
  /\ out' = Append(out, run)
  /\ pc' = "token"
  /\ UNCHANGED <<inputs, byte_order, files, cursor>>

LogisimEnd == /\ pc = "token" /\ address >= higher_address
              /\ CloseFile(<<>>)

-----------------------------------------------------------------------------
\* binary_hex_intel: the sections in table order.
AtSection == pc = "section" /\ i <= Len(sections)

\* `break`: a loadable section past the window ends the loop.
PastWindow == /\ sections[i].loadable
              /\ higher_address < sections[i].base

OutsideWindow == \/ ~sections[i].loadable
                 \/ ~PastWindow /\ lower_address >= EndOf(i)

SkipSection ==
  /\ AtSection /\ OutsideWindow
  /\ i' = i + 1
  /\ UNCHANGED <<inputs, byte_order, out, files, address, size, run, pc>>

\* Mutant: the part past the window is written too.
SectionEndUncut == EndOf(i)

SectionEnd == Smaller(higher_address, EndOf(i))

EnterSection ==
  /\ AtSection /\ ~OutsideWindow /\ ~PastWindow
  /\ LET low  == Larger(lower_address, sections[i].base)
         \* unsigned: with the bounds of -a reversed the difference wraps
         extent == (SectionEnd + AddressRange - low) % AddressRange
     IN  /\ address' = low + byte_order
         /\ size' = extent \div word_size
  /\ pc' = "records"
  /\ UNCHANGED <<inputs, byte_order, out, files, i, run>>

RecordLength == Smaller(RecordSize, size)

WriteRecord ==
  LET rec_len == RecordLength
      octets == [k \in 1 .. rec_len |-> Read8(address + (k - 1) * word_size)]
  IN  /\ pc = "records" /\ size > 0
      /\ out' = Append(out, DataRecord(address \div word_size, octets))
      /\ address' = (address + rec_len * word_size) % AddressRange
      /\ size' = size - rec_len
      /\ UNCHANGED <<inputs, byte_order, files, i, run, pc>>

LeaveSection ==
  /\ pc = "records" /\ size = 0
  /\ i' = i + 1 /\ pc' = "section"
  /\ UNCHANGED <<inputs, byte_order, out, files, address, size, run>>

LoopEnded == i > Len(sections) \/ (i <= Len(sections) /\ PastWindow)

HexEnd == /\ pc = "section" /\ LoopEnded
          /\ CloseFile(<<EndRecord>>)

-----------------------------------------------------------------------------
\* The writers only read the memory.
Read == \/ OpenFile \/ Finish
        \/ RawByte \/ RawEnd
        \/ SingleToken \/ StartRun \/ ExtendRun \/ EndRun \/ LogisimEnd
        \/ SkipSection \/ EnterSection \/ WriteRecord \/ LeaveSection \/ HexEnd

Next == \/ LoadSection \/ LoadChunk \/ EndOfLoad
        \/ Read /\ UNCHANGED memoryVars

Spec == Init /\ [][Next]_vars

-----------------------------------------------------------------------------
\* What the sections promise, and what a reader of the files recovers.

Done == pc = "done"

Extent(s) == sections[s].base .. EndOf(s) - 1

Loadable == {s \in DOMAIN sections : sections[s].loadable}

Loaded == UNION {Extent(s) : s \in Loadable}

\* The places of the loadable bytes that go to the cell of address a, as
\* <<section, element>>: more than one when sections meet in the memory.
PlacesOf(a) ==
  {p \in UNION {{s} \X DOMAIN sections[s].contents : s \in Loadable} :
     (sections[p[1]].base + p[2] - 1) % Space = a % Space}

IsLastOf(places, p) ==
  \A q \in places : q[1] < p[1] \/ (q[1] = p[1] /\ q[2] <= p[2])

LastOf(places) == CHOOSE p \in places : IsLastOf(places, p)

\* The byte the sections have at address a, that of the last section loaded
\* where they meet, and zero where there is none.
ByteAt(a) == IF PlacesOf(a) = {} THEN 0
             ELSE LET last == LastOf(PlacesOf(a))
                  IN  sections[last[1]].contents[last[2]]

UnitAt(a) == IF Wide THEN ByteAt(a) + ByteLimit * ByteAt(a + 1) ELSE ByteAt(a)

\* Intel HEX: the cells a file sets, as address |-> byte in the memory that is
\* loaded with it; file k of an interleaved pair feeds the cells of parity k.
HexCells(k) ==
  UNION {{<<(r.load + n - 1) * word_size + k, r.octets[n]>> : n \in DOMAIN r.octets} :
           r \in {files[k + 1][m] : m \in DOMAIN files[k + 1]}}

\* Logisim: the sequence of units the tokens stand for.
Expand(tokens) ==
  LET units[k \in 0 .. Len(tokens)] ==
        IF k = 0 THEN <<>>
        ELSE units[k - 1] \o [n \in 1 .. tokens[k].count |-> tokens[k].value]
  IN  units[Len(tokens)]

\* The first m units of a file that begins at cell a, in address order.
UnitsFrom(a, m) == [n \in 1 .. m |-> UnitAt(a + (n - 1) * Stride)]

\* How many units the window has for file k, and which they are.
UnitCount(k) ==
  LET first == lower_address + k
  IN  IF higher_address <= first THEN 0
      ELSE (higher_address - first + Stride - 1) \div Stride

WindowUnits(k) == UnitsFrom(lower_address + k, UnitCount(k))

\* The last unit of the window is not part of a run in it, and the unit past
\* the window is equal to it.
EqualUnitFollows(k) ==
  LET last == lower_address + k + (UnitCount(k) - 1) * Stride
  IN  /\ UnitCount(k) > 0
      /\ UnitAt(last + Stride) = UnitAt(last)
      /\ UnitCount(k) > 1 => UnitAt(last - Stride) # UnitAt(last)

\* The loadable cells of the window with the parity of file k.
WindowCells(k) ==
  {<<a, ByteAt(a)>> : a \in {b \in Loaded : /\ lower_address <= b
                                             /\ b < higher_address
                                             /\ b % word_size = k}}

FileNumbers == 0 .. FileCount - 1

InAddressOrder == \A s, t \in DOMAIN sections :
                    s < t => sections[s].base <= sections[t].base

\* The window is in order and what it has of a section ends where the address
\* field of a record does.
AddressesFit ==
  /\ lower_address <= higher_address
  /\ \A s \in Loadable : Smaller(higher_address, EndOf(s)) <= FormatLimit * word_size

\* Interleaving halves addresses and sizes: it is exact when nothing is odd.
NothingOdd == /\ lower_address % 2 = 0 /\ higher_address % 2 = 0
              /\ \A s \in DOMAIN sections :
                   sections[s].base % 2 = 0 /\ Len(sections[s].contents) % 2 = 0

-----------------------------------------------------------------------------
TypeOK ==
  /\ MemoryTypeOK
  /\ pc \in {"load", "open", "bytes", "token", "run", "section", "records", "done"}
  /\ byte_order \in 0 .. FileCount
  /\ Len(files) = byte_order
  /\ i \in 1 .. Len(sections) + 1
  /\ address \in Nat /\ size \in Nat
  /\ run.count \in Nat

\* Pages, their sharing and the cutting of a section at page ends cannot be
\* told from a plain array that wraps, in which each section lands as a whole
\* (memory_space.cpp 88-106).
ImplementsFlatMemory ==
  /\ Flat!Init
  /\ [][\E s \in DOMAIN sections :
          Flat!Write(sections[s].base, sections[s].contents)]_Cells

\* A raw file is the window of the sections cell by cell; a pair of interleaved
\* files has between them each cell of the window once.
RawIsTheWindow ==
  Done /\ format = "binary" =>
    \A k \in FileNumbers : files[k + 1] = WindowUnits(k)

\* The tokens of a Logisim file stand for the units of the window in order, and
\* for nothing else but in one case: the test for a run looks a unit ahead
\* without asking for the bound (sections.cpp 280, 311), so a last unit that
\* begins a run with the one past the window is written twice.
LogisimCoversTheWindow ==
  Done /\ format \in {"logisim8", "logisim16"} =>
    \A k \in FileNumbers :
      Expand(files[k + 1]) =
        UnitsFrom(lower_address + k,
                  UnitCount(k) + IF EqualUnitFollows(k) THEN 1 ELSE 0)

\* Intel HEX files carry the loadable cells of the window, each at its
\* address, and nothing else: when sections are in address order or no -a cuts
\* them, the bounds of -a are in order and within the reach of a record, and
\* nothing is odd if the image is interleaved.
HexCarriesTheWindow ==
  /\ Done /\ format = "hexintel" /\ AddressesFit
  /\ InAddressOrder \/ option_address = NoWindow
  /\ word_size = 1 \/ NothingOdd
  => \A k \in FileNumbers : HexCells(k) = WindowCells(k)

\* The bytes of every Intel HEX record add up to zero modulo 256, its address
\* has the four digits of the format, and it is no longer than the format
\* allows ("todos os bytes que formam a trama, some zero",
\* doc/pas_utilizacao.rst 248-249), when the window is in order and ends where
\* the addresses of the format do.  Past that, %04X prints more digits.
RecordsAddUpToZero ==
  format = "hexintel" /\ AddressesFit =>
    \A m \in DOMAIN out :
      LET r == out[m]
          sum[n \in 0 .. Len(r.octets)] ==
            IF n = 0 THEN Len(r.octets) + (r.load \div ByteLimit)
                          + (r.load % ByteLimit) + r.type + r.checksum
            ELSE sum[n - 1] + r.octets[n]
      IN  /\ r.extra = 0
          /\ sum[Len(r.octets)] % ByteLimit = 0
          /\ Len(r.octets) \in 1 .. RecordSize

-----------------------------------------------------------------------------
\* Claims of the documentation that the code does not keep.

\* "A opção --addresses permite definir a gama de endereços cujo conteúdo é
\* transcrito para o ficheiro binário de saída" (doc/pas_utilizacao.rst 51),
\* whatever the order of the sections in the source.
HexCarriesTheWindowInAnyOrder ==
  /\ Done /\ format = "hexintel" /\ word_size = 1 /\ AddressesFit
  => HexCells(0) = WindowCells(0)

\* "O conteúdo respeitante a endereços fora do intervalo especificado é
\* excluído do ficheiro binário de saída" (doc/pas_utilizacao.rst 52): the
\* tokens of a Logisim file stand for the units of the window and no more.
LogisimIsTheWindow ==
  Done /\ format \in {"logisim8", "logisim16"} /\ option_address # NoWindow =>
    \A k \in FileNumbers : Expand(files[k + 1]) = WindowUnits(k)
=============================================================================
