# A verification project for p16as, the P16 assembler

`p16as` translates one P16 assembly file into a listing and a binary image. It is
a sequential C++ program built as a pipeline of phases over three global
structures: the section table, the symbol table and the relocation list.
What is hard in it is not concurrency but *order*: a section, a symbol or a byte
is created in one phase, given a meaning in another and read in a third, and each
phase trusts what the earlier ones left behind.

## 1. Inventory

| Component | Source | State it keeps | Operations |
|---|---|---|---|
| Driver | `src/src/pas.cpp`, `error.cpp` | phase, `error_count`, `warning_count`, options, exit status | option parsing; parse, generate, locate, relocate, load, list, write; `goto exit_error` |
| Lexer / parser | `p16.l`, `p16.ypp` | `yylineno`, `yycolumn`, start condition, `ast_root` | tokens; one AST node per line; node constructors run *during* parsing |
| Statements | `statement.h`, `instruction.h`, `directive.cpp/.h` | per node `section_index`, `section_offset`, `size_in_memory` | constructors reserve bytes in the current section; `add_label`; `Dir_equ` |
| Section table | `sections.cpp/.h` | `table`, `current_section`, address-ordered `list` | `set_section`, `increase`, `append_block`, `write8/16/32`, `fill`, `read*`, `locate`, `address_is_free` |
| Symbol table | `symbols.cpp/.h` | name -> `Symbol{type, section, value_expression}` | `add`, `search`, `get_type` (lazy evaluation), `get_section` |
| Expressions | `expression.cpp/.h`, `expression_base.h`, `utils.h` | per node `value`, `type` (uninitialised until `evaluate`) | `evaluate`, `get_value` (16 bits), `get_symbol` |
| Code generator | `code_generator.cpp/.h`, `visitor.h` | none of its own | one `visit` per statement: encode, check, write, add relocations |
| Relocations | `relocations.cpp/.h` | `list` | `add`, `relocate` |
| Memory space | `memory_space.cpp/.h` | page table, `page_zero` | `read*`, `write*` over 4 KiB pages, 64 KiB in all |
| Image writers | `sections.cpp` (229-336) | output file, address cursor | Intel HEX, raw, Logisim 8 and 16, window `-a`, interleave `-l` |
| Listing | `listing.cpp`, `listing()` methods | `srcfile`, `current_line` | prints sections, symbols, lines with bytes |
| Properties, printf | `properties.h`, `cpp_printf.cpp` | `-s` addresses (first setting wins) | `set_property`, `get_property`, formatting |

How they interact: `main` creates `.text`, then `yyparse` builds the AST; each
constructor reserves its bytes at once, so label offsets are known when parsing
ends. `Code_generator` walks the AST, evaluates operands and overwrites the
reserved bytes, queueing a relocation for each address it cannot know.
`Sections::locate` gives every section a base address, `Relocations::relocate`
patches the queued fields, `load_memory_space` copies the loadable sections into
`Memory_space`, and a writer dumps it. After each phase `error_count > 0` ends the
run without output.

## 2. What is hard, and what must hold

The program has one thread, persists nothing but its output files and calls nobody
back: what can go wrong is a matter of *order*, *stale positions*, *boundaries* and
*partial failure*. `PROJECT.json` lists each hazard at its line; in short:

- **Section table.** A first section that is still empty is renamed by the next
  section directive. Statements keep section numbers and offsets for the whole run.
  So: one entry per name, flags that follow the name, and no section that holds bytes
  ever changes number or name (`TableWellFormed`, `NumbersAreStable`); to its callers
  the table is one body per name (`StoreSpec`).
- **Location.** The overlap test stops early, which is right only on an ordered list
  that it maintains itself, with `-s` addresses in any order and empty sections among
  the others (`ListInAddressOrder`, `ListIsComplete`, `OverlapIsReported`,
  `WindowHoldsSections`).
- **Statements, code generation, relocation.** Three phases share each field. The bytes
  reserved tile the sections (`ReservedBytesTileSections`), visits and relocations stay
  in their statement and field (`VisitsStayInTheirStatement`,
  `RelocationsPatchTheirField`), and the result means what the source says
  (`LdrReachesItsLabel`, `BranchReachesItsLabel`, `DataHoldsAddresses`).
- **Encodings.** Seventeen kinds of instruction share 16 bits, put together by OR or `+`
  from fields that only a mask keeps apart. What is accepted must read back as what was
  written (`CodesDecode`), what loses bits must be reported (`TruncationsAreReported`),
  and a field left to a relocation must be empty and in its place
  (`RelocatedFieldsAreConstants`).
- **Driver.** Errors only count; the tests between phases must keep wrong bytes out of
  the files (`ErrorsStopOutput`), and the program must come to its exit whatever the
  source and the command line (`FrontEndEnds`).
  Options come in any order and more than once; the files that change must be those they
  ask for, and only when nothing failed (`FilesMatchTheOptions`).
- **Lexer, parser and messages.** An end of line is a token whose location is already the
  next line; comments, ignored directives and a missing last newline take it away or make
  one up. Statements and reports must still name and show their own line
  (`StatementsNameTheirPlace`, `ErrorsShowTheirLine`).
- **Listing.** It walks lines and statements at once, trusting those locations, and shows
  bytes in rows of a different shape for each kind and size (`RowsFollowTheSource`,
  `ListingShowsTheBytes`).
- **Memory and writers.** Pages are shared until written and blocks cross page ends
  (`PagesAreSeparate`, `ImplementsFlatMemory`); the files carry the window
  (`ImageHoldsSections`, `RawIsTheWindow`, `LogisimCoversTheWindow`,
  `HexCarriesTheWindow`, `RecordsAddUpToZero`).
- **Symbols and expressions.** A `.equ` symbol is evaluated at its first use, in the middle
  of another evaluation, with whatever is known then, and its type is kept. Definitions
  must not change (`DefinitionsAreFinal`), a failure that is silent at later uses must have
  been reported at the first (`FailuresAreReported`), the order of uses must not show in
  the values (`DemandIsTransparent`, `SpaceFillsWhatItReserved`), and operators must receive
  what they assert (`OperandsAreTyped`, a part of `TypeOK`).

## 3. Modules

| Module | Models | State and actions |
|---|---|---|
| `SectionStore` | what the section table promises: one body per name, one place to append | `body`, `here`; `Select`, `Extend`, `Patch` |
| `Sections` | `sections.cpp` 34-164, `sections.h` | `table`, `current_section`; the three outcomes of `set_section` (`RenameFirst`, `Reenter`, `Create`), `WriteBlock`, `AppendBlock`, `Increase` |
| `Locator` | `sections.cpp` 177-211 | the table's names and sizes, `base_address`, `list`, `current_address`, loop index `next`; `PlaceSection` is one iteration, `OverlapExit` the exit |
| `Assembler` | `pas.cpp` main, constructors, `code_generator.cpp`, `relocations.cpp`, `load_memory_space` | all the globals, the phase main is in and the loop index `pc` of that phase; one action per line parsed, statement visited, section located, relocation applied, section loaded |
| `InstructionSet` | what a 16-bit word means, from the tables of `doc/pas_assembly_language.rst` | `Decode`, a pure operator that knows nothing of how words are built |
| `CodeGenerator` | `code_generator.cpp` 105-462: the visit of every instruction | a program of instructions with evaluated operands, the words, the reports of each statement and the relocations; one action per kind of instruction |
| `Expressions` | `expression.cpp`: what each operator computes | pure: from types and 16-bit values of the operands to type, value, symbol and reports |
| `Evaluation` | `symbols.*`, `expression.*`, the directives that evaluate and their visits | nodes in `heap`, `symbols`, the call `stack` of `evaluate` with one frame per call; an action per directive parsed, call made, call returned and statement visited |
| `FlatMemory` | what `Memory_space` promises: a plain array that wraps | `cells`; `Write` |
| `MemorySpace` | `memory_space.cpp` | page table of pointers into a heap whose first block is `page_zero`; `Write` is a call, `WriteChunk` an iteration of its loop |
| `ImageWriters` | `sections.cpp` 219-336, `pas.cpp` 274-334, over `MemorySpace` | the memory, the section being loaded; then the file being written, the address cursor, the run being counted; one action per iteration of each loop |
| `Options` | `pas.cpp` 65-178, `properties.h` | `optind`, the operands met, `settings` (the variables options set), `error_in_options`; one action per `case` of the switch |
| `Scanner` | `p16.l`, the statement rules of `p16.ypp`, `yyerror` | position, start condition, `yylineno`, `yycolumn`, `yylloc`; what the parser can shift, the statement in hand, `ast`; one action per kind of lexer rule |
| `Listing` | `listing.cpp` 29-73, `listing()` and `more_listing()` of the statements | `current_line`, the rows written; one action per statement |
| `FrontEnd` | `main` around all of these | `phase`, the files and which are new, the exit status |
| `NumberLemmas` | facts about numbers and sequences the proofs share | |
| `SectionsProofs`, `LocatorProofs`, `CodeGeneratorProofs`, `AssemblerProofs`, `ImageWritersProofs`, `EvaluationProofs`, `FrontEndProofs` | theorems about the module of that name; `ImageWritersProofs` has those about `MemorySpace` too, `FrontEndProofs` those about `Options`, `Scanner` and `Listing` | |
| `MC*` | small instances | |

`Assembler` composes: it instantiates `Sections` (as `S`) and `Locator` (as `L`, over
the names and sizes of the table) and conjoins their actions with its own, so the same
definitions are checked alone and in place. `ImplementsSections` closes the circle: the
whole run, seen from the table, is a run of `SectionStore`, but for one way in which a
relocation makes a section longer.

`ImageWriters` extends `MemorySpace`: the sections are loaded chunk by chunk over shared
pages and read back by the writers, so the file properties compare what is in the files
with what the sections hold, with nothing assumed of the memory between.

`FrontEnd` extends `Options` and `Listing`, which extends `Scanner`: a run goes from a
command line and a source text to rows, files and an exit status. The phases in the
middle are `Assembler`'s; `FrontEnd!Assemble` only lets them report errors or warnings.

Correspondence with the code:

- A C++ section number `k` is the index `k + 1`; the vector `contents` is the
  sequence of the same name. `Filler` is the `0x55` that `increase` writes.
- `Assembler!ast` keeps what a node keeps (`section_index`, `section_offset`,
  `size_in_memory`) and the operands. The label is added *after* the constructor ran, as
  in `p16.ypp`. `home` is a history field: the section the source puts the label in.
- An operand is a number, or a label plus or minus a number. `Evaluates`, `EvalErrors`
  and `EvalWarnings` say what `evaluate` returns and reports for it, in the order the code
  does: an undefined label is an error, a number above 16 bits a warning, with a label
  before it or not (`NumberFits`), a sum above 16 bits an error. `ValueOf` is `get_value`,
  which keeps 16 bits.
- A record of the Intel HEX file has in `load` the four digits of the format and in
  `extra` those `%04X` prints before them when the address has more (`DataRecord`).
- `CodeGenerator` is `Assembler`'s generation seen from the other side: `Assembler`
  has every address and few words (a branch, an ldr, a shift, data, and one action with
  a given word for the rest); `CodeGenerator` has every word and only the offsets of one
  section. Its `Operand` is what `evaluate` leaves behind: a number, a label, or one of
  three ways to fail.
- A word is a sum of fields. `OrRn` is the one place where the code's OR is not a sum:
  the fourth bit of a register above 7 meets the field above it.
- `Evaluation` has the recursion of the code as a stack: `Descend` is a call of
  `evaluate` on an operand or on the expression of a symbol without a type, the four
  returning actions are what `evaluate` does after its operands returned. `heap` keeps
  `type` and `value` of every node as the last evaluation left them; before the first one
  they are what `new` found (`Garbage`). A symbol deleted by `Dir_equ` is a statement
  with `live = FALSE`: the test of its type at the visit may go either way.
- `Evaluation!Meaning` is the reference: the value an expression has under the
  definitions as they are at the end, computed at once and with nothing kept. `Expressions`
  is used by both, so what an operator computes is not what `DemandIsTransparent` tests;
  when it computes is.
- `Scanner` reads a file as a sequence of pieces of text, each one column wide: a newline,
  a blank, `;`, `/*`, `*/`, a quote, `.global` (for the four directives the lexer throws
  away), `a:`, `.ascii`, and whole statements. A column in the model is a piece, so the
  position in a line is kept and widths are not. `piece` in a location is a history field:
  where the lexeme is in the text, by which properties find the line it is really on.
- A token of the command line is a sequence of pieces too (`<<"-", "f">>`,
  `<<"prog", ".", "s">>`): what `getopt_long`, the two regular expressions and
  `find_last_of` look at. `getopt_long` moves operands to the end: `operands`.
- `Scanner!expected` is what the LALR automaton can shift between the tokens that matter:
  a label, then a statement or nothing, then EOL.
- Reports are counted, with the same number as the code, because the counts decide
  how the run goes on; their text is left out.
- `phase` and `pc` are where `main` is: a phase begins with `pc = 1`.
- Definitions commented `Mutant` are plausible mistakes, used by nothing in the
  specifications: each, put in place of the definition that follows it, breaks the
  property `PROJECT.json` pairs it with.

## 4. What the runs show

| Run | Question | Bounds, and why they are enough |
|---|---|---|
| `sections` | Is the table well formed, stable and a store of bodies under any order of operations? | three names, among them `.bss` and `.text`; sections of up to 3 bytes: empty, one statement, two statements. Renaming needs one section and reuse needs two. |
| `locator` | Does location produce an ordered map or report the overlap? | all tables of 2 and 3 sections with sizes 0 to 3, an address range of 16 so that rounding up wraps, `-s` on any part of the names. An overlap relates two sections; the third gives the list a middle and an end. |
| `assembler` | Do ldr and branch reach their labels, and stored labels become addresses? Do statements stay in their bytes, do errors stop the output? | programs of up to 4 lines out of 13 of code (label, reference, section change and a byte that makes things odd; fields of 2 and 3 bits make distances cross their limits; labels plus or minus 70000, which only warns, and plus 65535, whose sum is an error), and of up to 3 out of 15 of data, with operands at each limit (300 in a byte, 65536, 70000, also as the operand of an ldr; a label as size, fill and shift amount), a `.byte` of a label as the last byte of a section, `.data` at 4 (may overlap) and `.text` at 254 (the address of a label crosses 256). |
| `image_writers` | Do files carry the window of what the sections hold? Can shared pages be told from a plain array? | six tables (in order, with a gap and a `.bss`, reversed by `-s`, with an empty section, up to the end of the memory, over it to a cell that another section writes too). A byte has 8 values, so that a load address gets its second byte at 8 and leaves the four digits of a record at 64, where the memory wraps too; the sections lie on both sides of each. Six windows, two empty and one reversed; values 0 and 5 so runs may or may not continue; records of 3 bytes so that sections need more than one; 16 pages of 4 cells, so that sections cross page ends. |
| `code_generator` | Does every word read back, is every truncation reported, do relocations hit empty fields? | each instruction alone, with registers 0, 5, 7, 8, 10, 14, 15 in every place (the limits and alternating bits of fields of 3 and 4 bits), constants on both sides of 8, 16 and 256, labels on both sides of the reach of a branch, operands that fail in each way, even and odd offsets; pairs of `mov` and `b`, where the place of an instruction counts. The theorem covers the other registers and constants. |
| `evaluation` | Can evaluation on demand be told from evaluation at the end? Are failures reported? | up to 4 lines out of 12: two names of labels and `.equ`, one of them both, uses before and after the definition, `.space` and a repeated label (which evaluate while parsing), a conditional, a wide value (fails with a warning), `.`; a stack of 9 calls, more than the depth of any chain of two definitions; uninitialised memory holds 0 or 3. |
| `front_end` | Do statements, errors and listing rows keep their lines? Which files change? | every text of up to 5 pieces out of 9 (a comment over two lines after a label takes 5), and up to 3 lines out of 11 of data at the limits of a row of 4 bytes, for one command line; every command line of up to 3 options, right or wrong, and names, for one source; a directory that exists and has a dot in its name, one that does not exist, an image and a listing that exist before. |

Deadlock is checked where the modelled code has no end (`sections`); the other runs end
with the program. Termination is a property of `front_end` only (`FrontEndEnds`), where it
depends on what lexer, parser and `yyerror` leave for each other: the loops of the other
phases are bounded by lists that do not change under them.

Runs that show where the code departs from its documentation or messages (each checks
one property that must fail; `PROJECT.json` "findings" quotes the text):

| Run | What the code does |
|---|---|
| `label_moves` | a label moves to another section: `.text`, `a:`, `.data`, `.byte 7` |
| `hex_order` | with `-a`, a section past the window hides later ones inside it |
| `interleave_option` | `--interleave prog.s` takes `prog.s` as its argument and finds no source; `-l`, and the manual, take none |
| `logisim_window` | with `-a`, a unit past the window that is equal to the last one in it is written too |
| `equ_section` | `.equ x, a` in `.text`, with `a` in `.data`, makes `x` a label of `.text`: its address is `a`'s offset over the wrong base |

The properties of the passing runs are stated around these and more departures that
the models show at once and no run repeats:

- `.byte label` with the label at 256, or `.word label` at 65536, is stored as 0 without
  the message of `relocations.cpp` 91-93: the test is `>` where `>=` is meant
  (`Assembler!Relocate`). Hence `DataHoldsAddresses` is modulo the width.
- Relocating a `.byte` in the last byte of a section makes the section one byte longer,
  because 16 bits are read and written whatever the width (`Assembler!Relocate`); it may
  then meet the section after it. `ImplementsSections` names it as its only exception.
- `.space 1, 70000` is generated as `0x55`, and a shift by 70000 as two of them, after a
  warning that speaks of encoding only (`Assembler!VisitSpace`, `VisitShift`).
- A Logisim file has one unit past the window exactly when that unit is equal to the last
  of the window and the last is not yet in a run (`LogisimCoversTheWindow`,
  `EqualUnitFollows`; `logisim_window` has the case). Units of 16 bits are read whole, also
  when the window ends between their bytes.
- A number above 16 bits beside a label (`ldr r0, a + 70000`) warns and no more: the
  expression is false, so an ldr keeps an empty field, a branch has the
  offset zero, a stored label is zero, none is relocated, the image is written and the exit
  status is 2 (`Assembler!EvalErrors`, `EvalWarnings`). Hence the three
  properties about labels are about operands that `Refers` accepts.
- From address 0x10000 on (`-s`, or a section over the end of 64 K; halved with `-l`) a
  record of the Intel HEX file has five digits of address or more, and its bytes do not add
  up to zero (`ImageWriters!DataRecord`); a reversed `-a` goes there too. Hence
  `RecordsAddUpToZero` and `HexCarriesTheWindow` ask for `AddressesFit`.
- `ldr r0, 70000` is generated as an ldr of the word at the PC, after a warning that speaks
  of encoding only: `evaluate` is false but nothing counts as an error. Hence
  `LdrReachesItsLabel` is about operands with a label.
- Displacements, stored labels and `ldr` constants are 16 bits wide, addresses 32: with a
  section above 64 K, what comes out right is the address modulo 2^16. The three
  properties about labels compare with `SameAddress`.
- A branch to a number has no range check (`CodeGenerator!VisitBranch`): from 2048 on its
  low bits are kept in silence, the one exception in `TruncationsAreReported`.
- An odd `-s` address is used as it is (`Locator!Requested`); the manual
  (`pas_utilizacao.rst` 77) says sections start at even addresses.
- Sections 64 K apart pass the overlap test and overwrite each other in the image
  (`Assembler!Cells`); `ImageHoldsSections` asks for sections that fit the memory.
- A reversed `-a` is not refused: the Intel HEX writer goes round the whole address range
  (`ImageWriters!EnterSection`). With `-l` and an upper bound of `0xffffffff` a cursor
  wraps past it and the writer does not end (outside `WindowAssumption`, as sections that
  end within four bytes of 2^32 are outside `TablesAssumption`).
- Where two loaded sections meet in the memory (64 K apart), the one loaded last wins:
  `ImageWriters!ByteAt`, what the files are compared with, says so.
- Odd sections or windows make the two interleaved Intel HEX files swap parity and lose
  bytes (`ImageWriters!EnterSection`). Hence `HexCarriesTheWindow` asks for address order
  or no `-a`, and nothing odd when interleaving.
- Two symbols defined by each other exhaust the process stack at the first use of either
  (`Evaluation!StackOverflow`); no property is about such programs.
- `.align` with anything but a number takes its operand from uninitialised memory
  (`Evaluation!Dir_align`).
- A `.equ` whose value is a literal above 16 bits under an operator warns once and then
  reads as whatever memory held (`Evaluation!FailWithOperand` leaves `value` alone while
  `get_type` answers `ABSOLUTE`). Hence `DemandIsTransparent` asks for no report at all.
- `blo` is encoded as `bcc` and `bhs` as `bcs` since version 1.5; the tables of
  `pas_assembly_language.rst` (45, 47) still pair `blo` with `bcs` and `bhs` with `bcc`.
- A string or comment not ended on a last line without newline ends the process by an
  exception nobody catches, because `yyerror` looks for a line that `srcfile` does not
  have (`Scanner!Yyerror`); a string not ended elsewhere is reported with the number and
  the text of the next line. `ErrorsShowTheirLine` is about errors outside strings and
  comments.
- Columns are wrong after an ignored directive or a comment over several lines, which do
  not reset them (`Scanner!Ignored`, `Comment`).
- A label before an ignored directive goes to the statement of the line after it.
- Lines at the end of the source on which no statement begins (the rest of a comment or of
  a statement, an ignored directive) are not in the listing. `.space 0` lists the byte after it
  (`Listing!FirstCells`).
- For a source `../prog` the outputs are `..lst` and `..hex` of the current directory, and
  for `lib.d/prog` they are `lib.lst` and `lib.hex`, because the last dot is looked for in the
  whole path (`FrontEnd!Base`); the manual (`pas_utilizacao.rst` 32-35) says base name and
  directory of the source, and so does `FilesMatchTheOptions`, which leaves out sources
  whose only dots are in directories (`NamedAfterADirectory`).
- A syntax error at the end of a line is shown with the text of that line and the number of
  the next, a limitation the manual names (`pas_assembly_language.rst` 684);
  `ErrorsShowTheirLine` is about the text.
- A source whose name ends like an output (`prog.lst`) is overwritten.
- An output that cannot be created is missed in silence, with exit status 0
  (`FrontEnd!Write`). `--version`, in the help text, is not an option.
- `.equ` symbols that are numbers are listed with the address of a section added
  (`symbols.cpp` 66).
- A sum above 16 bits is an error, all other operators only warn
  (`Expressions!CheckedSum`), and `2 << 31` is 0 without a report (`ShiftLeft`).

## 5. Fairness

Only `FrontEnd!Spec` assumes fairness, `WF_vars(Next)`: the process has one thread, does not
block in any of its loops and is not stopped, so while a step is possible one is taken.
Nothing is assumed about which step: the phases `FrontEnd` leaves out may report anything.
Sources and command lines are finite (`Inputs`), as those of every run are. The other
specifications have safety properties only and assume none.

## 6. What is proved

For every value of the constants, from the assumptions the modules name. The argument is
always the same: an invariant that implies the property, true at the start and kept by
every action, one step of the proof per action. What is worth knowing is the invariant.
Every one was first checked by TLC on the instance of its run.

**`SectionsProofs`** (names with `.text` among them, any blocks and sizes).
`CurrentSectionExists` and `TableStaysWellFormed`: `TypeOK /\ TableWellFormed` is
inductive. `RenameFirst` happens only when the table has one entry, so the new name
cannot be a second copy; `Create` only when no entry has the name; writes change
neither names nor flags. `SectionNumbersAreStable` follows step by step: `WriteAt` never
shortens a sequence and `RenameFirst` needs an empty section. `ImplementsStore`
(`Spec => StoreSpec`): a name is mapped to the contents of its entry, which
`TableWellFormed` makes unique, and `current_section` to its name.

**`LocatorProofs`** (any tables, any `-s` map, any range of addresses).
`ListIsTheMemoryMap`, `ListHoldsEverySection` and `OverlapsAreReported`: a section
inserted at `k`, which ends before the section at `k` starts and meets none before, keeps
the order; in an ordered list no section after `k` can meet it, so the early break hides
no overlap. The invariant has one more conjunct, that all sections are placed once the
outcome is `located`. `WindowIsWideEnough`: the list holds every section and each ends
before the next begins, so the first begins lowest and the last ends highest.

**`CodeGeneratorProofs`** (programs of any length, all registers, all 16-bit operands).
`AcceptedCodeDecodes`: quotients and remainders of a sum of bounded fields are the
fields (`FieldsOfWord`, `ByteOfWord`, `OffsetOfWord`); one lemma per instruction. Where a
register is above 7 the word is only known to be a word: the error is what keeps
`CodesDecode`. `CutConstantsAreReported` rests on `SilenceMeansFit`, that a statement
without report has a constant that fits its field (a branch to a number, one below 2048); `RelocationsFindTheirField` on
`RelocsAwait`, that the word of a queued relocation is still the one its visit wrote.

**`AssemblerProofs`** (any programs over any names and labels, any `-s`, any widths up to
10 and 6 bits). The invariants, in the order they build on each other:

- `BaseInv`: what later phases may rely on. The table is well formed (the lemmas of
  `SectionsProofs` are used through INSTANCE); every node is in a section that exists,
  lies inside it and has the size its constructor reserves; every symbol and every
  relocation points into a section; locations exist from location on.
- `ErrorInv` gives `OutputFollowsErrors`: the counts only grow, and the load phase is
  reached without errors.
- `VisitsKeepToTheirBytes` is a step property: each visit writes as many bytes as the
  constructor reserved, at the offset it noted.
- `TileInv` gives `StatementsTileSections`: until relocations are applied, every byte of
  every section is owned by exactly one node. (A relocation of a last byte appends one
  that no statement reserved, which is why it stops there.)
- `RunKeepsTheStore`: each step is a step of `SectionStore` or a stutter, with the one
  named exception.
- `PlaceInv`: nodes are in order within their section, every relocation was queued for a
  node the generator has passed (`HostsInv`), and no two share a byte (`FieldsApart`).
  With `RelocationsKeepToTheirField`, a step property, patching one leaves the others.
- `MemoryInv` gives `ImageIsTheSections`.
- `CodedInv` and `FieldsInv` give `DataIsAddresses`, `LoadsReachTheirLabel` and
  `BranchesReachTheirLabel`. `CodedInv` says what a visit left behind when no error was
  counted: a branch word with the distance of the offsets, a relocation with the offset
  of the label (and, for ldr, the PC bias) as its addend. All three are about operands
  `Refers` accepts: with a number above 16 bits no error is counted and nothing is left
  behind. `FieldsInv` says of each
  relocation that its field is empty while it waits, and holds the sum once applied.
  Neither is inductive without `PlaceInv`: without it a later visit or relocation might
  write over the field.

**`ImageWritersProofs`** (any tables, windows, page sizes and record sizes).

- `PagesStaySeparate` and `MemoryIsFlat`: the memory of pages made on demand implements
  a flat array that wraps; `Cells` is the refinement mapping. The chunk loop is shown to
  overlay the block piece by piece (`OverlaySplit`), so that the last write to a cell wins
  whatever the cuts.
- `ImageInv`: the memory holds, at each cell, the byte of the last of the loaded sections
  that has one there, or zero. `ReadsAreSections` concludes that what a writer reads is
  `ByteAt`. The files then never speak of memory again.
- `RecordsAreValid`: while the window is in order and ends within the four digits of an
  address (`AddressesFit`), no record has more digits, and each adds up to zero modulo 256. It
  needs the cursor to be inside the section, which the order of the bounds gives.
- `RawFilesAreTheWindow`: `RawInv` says what is out so far is a prefix of the window, and
  where the cursor is; `LogisimFilesCoverTheWindow`: `LogisimInv` does so for tokens and
  the units they expand to, with the run that is being counted: a run is longer than what
  the window has of it only by the unit looked at when it began.
- `HexFilesCarryTheWindow`: `HexFileInv` says that between sections the file has the
  wanted cells of all sections before, and in a section also those below the cursor.
  The premises of `HexCarriesTheWindow` are each used where the code needs them:
  address order (or no `-a`) when the loop is left early, the order of the bounds where
  the extent of a section is a difference of unsigned numbers, `AddressesFit` where an
  address is printed, evenness where addresses and sizes are halved.

**`EvaluationProofs`** (programs of any length, expressions of any depth over all
operators, any names, any garbage in new nodes; names of lines are not identifiers and
expressions are as the grammar reduces them, which is what the assumptions say).

An operand may be evaluated many times: while parsing and again when visited, and each
time some symbol's first use needs it. What makes this work is that an evaluation that
came to an end would go the same way again, and that is the invariant,
`IInv == Typed /\ \E T, U : Consistent(T, U)`:

- `T` is a set of nodes that evaluated: their operands are in `T`, and `type`, `value`
  and `symbol` of the node are what its operation gives from those of the operands *as they
  are now* (`Sound`). `U` is a set of nodes that failed and would fail at the same operand
  (`Unsound`). A symbol with a type has its expression in one of them (`Marks`). The sets
  are quantified because no variable of the code holds them: a node does not know whether
  it was ever evaluated.
- `Frames`: each call on the stack waits for the one above it and its operands so far are
  in `T`; no call is overtaken by a later call of the same node (`NoneOvertakes`), so that
  in a cycle of definitions nothing inside it is ever taken for evaluated.
- `PendingOK`: who waits for the bottom of the stack. `SpacesOK`: the operand of every
  `.space` is in `T` while no error was reported, and its value is the size reserved.

A return changes the fields of one node. If it is marked it gets what it has
(`MarkedOutcome`); if not, it is an operand of no marked node, and gets a mark if its own
operands have one (`FreshOutcome`). Then:

- `TypeCorrect`: operands that returned a value are in `T`, hence `ABSOLUTE` or `LABEL`,
  although an evaluation in the middle may have written to them.
- `SpacesAreFilled`: the second evaluation finds the root in `T`, and gives its value again.
- `DefinitionsStay`, an action property: `SymbolsOK`, a conjunct of `Typed`, keeps a name
  with an expression from being defined again, and a type is given only by the return
  to `TypeNow` of a symbol that has none.
- `FailuresAreTold`: with nothing reported, `Clean` holds: every call so far gave a value,
  no symbol is `INVALID`, every visit had its operand. It is kept because the two silent
  ways to fail, an operand that failed and a symbol that is `INVALID`, are failures
  `Clean` says have not happened; it needs `IInv` for the operation of a node whose
  operands did give values.

**`FrontEndProofs`** (sources and command lines of any length, any statements, any width
of a row of `hex_dump`, any directories; tokens are not empty and an instruction takes two
bytes, which is what `InputsAssumption` and `StatementsAssumption` say). Three invariants:

- `ScanInv`, itself a theorem (`SourceIsTracked`). `LexOK`: `yylineno` is one more than
  the newlines read, whatever made them (an empty line, a block comment, an ignored
  directive, the end of the file when it has no newline); the column is that of the next
  piece unless a block comment or an ignored directive came before. `ParseOK`: the statement in hand and those
  in `ast` have the line on which they begin, and all statements in `ast` begin above the
  next line, so no two begin on one. `StatementsKeepTheirPlace` is `ParseOK` read at the
  end; `ErrorsShowTheLine` needs that the location of an EOL has the line after the
  newline, and no other token has.
- `MainInv` gives `FilesAreAsked`. What a command line asks for is defined over all its
  tokens at once (`ArgumentAt`: which tokens are arguments of options); `OptionsOK` says
  that `settings` and `operands` are what the tokens before `optind` ask for, so at the end
  of the loop the two agree. The invariant has the code's `Base`; that it is the documented
  `SourceBase` where `FilesMatchTheOptions` asks for names (`BaseIsDocumented`) comes last. `PhaseOK` says which files are new in each phase: none before
  the listing is written.
- `ListInv` gives `RowsKeepTheOrder` and `ListingShowsThem`. After each statement the rows
  with a line of the source are numbered in order down to the line before `current_line`,
  no row has a number from `current_line` on, and the rows of each statement listed show
  its bytes. It is kept because the next statement is not above `current_line`
  (`NextStatement`, from `ScanInv`): the blank lines before it are then as many as are
  missing, and the rows it adds have no earlier number. That the rows of a statement show
  its bytes once (`StatementShows`) is one case for each kind and size; `hex_dump` is the
  case of rows that begin where the one before ended (`RowsShow`).

Induction over numbers goes through `NumberLemmas!SetInduction` and `LeastNumber`, which
take a set: the provers cannot instantiate theorems that take a predicate. What recursive
functions in a LET compute for every length (sums of records, the expansion of tokens,
the values of a `.byte`, what is queued for it, the cells of rows put end to end) is proved that way, through `IsSum` and
`IsQueue`, not assumed. Proofs are hierarchical and checked by TLAPS with Z3, Zenon and
LS4.

The attempts corrected the models: `LdrReachesItsLabel` was false for a bare number too
wide, the properties about labels and `ByteAt` were only right for sections below 64 K or
apart modulo 64 K (the instances had neither), and `TablesAssumption` did not keep a
section's end in the range of addresses. Section 4 has what the code does there, and the
instances have the cases now.

Only model-checked: `DemandIsTransparent`, whose reference `Meaning` recurs over
expressions and definitions at once (that it is what evaluation computes is an induction
over data, which the provers cannot be given). Out of the prover's reach: liveness under
fairness (`FrontEndEnds`).

## 7. Not modelled

Text inside a statement: operand tokens, the grammar of expressions, character literals
and escapes, how numbers are read (`strtoul` into an `int` loses bits above 32 without a
report) and printed; the wording and underlines of messages; verbose output; the tables
of sections and symbols at the head of the listing; a `\r` alone as line end. On the
command line: arguments glued to their option, abbreviated long options, empty tokens, `--`. I/O
errors other than a directory that does not exist: the writers catch
`ios_base::failure`, which the streams are never asked to throw. Addresses above 2^31, where `relocate` computes in `int`
(`AddressLimit` is 2^30 in the runs of `Assembler`). `RELATIVE` relocations, which no
visit creates. The undefined symbol of `relocations.cpp` 48-53: a relocation is queued only for
a label that evaluated. What reading a deleted symbol may do besides choosing a branch. Shift counts
are taken modulo 32, as an x86 build does. `write8/16/32`, `read`, `read32` of `Memory_space`, which nothing calls.

## 8. Plan

Done, in this order: `Sections` with its store and proofs; `Locator` and its proofs;
`Assembler`, which composes them; `MemorySpace` with `FlatMemory` and `ImageWriters` over
it; `CodeGenerator` with its reader and proofs; `Expressions` and `Evaluation`; `Options`,
`Scanner`, `Listing` and `FrontEnd`, which composes them.

Proved, in this order: `Sections`, `Locator`, `CodeGenerator`, `Assembler`, `MemorySpace`
and `ImageWriters`, `Evaluation`, `FrontEnd`: every invariant and action property their
runs check, but `DemandIsTransparent`.

Next:

1. Composition: `Assembler` with `Evaluation`, so that operands of visits are what
   evaluation leaves.
2. Instances of `Evaluation` for the other operators.
