------------------------------ MODULE FrontEnd ------------------------------
(***************************************************************************)
(* main (src/src/pas.cpp) around the assembly proper: the command line      *)
(* (module Options), the source (module Scanner), the listing (module       *)
(* Listing), the files written and the exit status.  What happens between   *)
(* the parser and the listing is in module Assembler: here it only may      *)
(* report errors or warnings.                                               *)
(***************************************************************************)
EXTENDS Options, Listing

CONSTANTS
  Inputs,                   \* [command, file]: command lines, sources tried
  OldFiles,                 \* names of the files before the run
  Directories               \* the directories that exist: paths up to "/"

\* What getopt_long calls an option is a dash and a name.
IsToken(token) == /\ token \in Seq(STRING) /\ token # <<>>
                  /\ IsOption(token) => Len(token) = 2

ASSUME InputsAssumption ==
  \A i \in Inputs : /\ i.file \in Seq(STRING) /\ i.command \in Seq(Seq(STRING))
                    /\ \A k \in DOMAIN i.command : IsToken(i.command[k])

VARIABLES
  phase,                    \* where main is
  files,                    \* file names -> "old" or "new"
  warned,                   \* warning_count > 0
  status                    \* exit status, when phase is "exit"

mainVars == <<phase, files, warned, status>>
vars == <<optionVars, scannerVars, listingVars, mainVars>>

-----------------------------------------------------------------------------
\* File names.

UpToLast(path, piece) ==
  LET at == {i \in DOMAIN path : path[i] = piece}
  IN  IF at = {} THEN 0 ELSE Max(at)

\* input_filename.substr(0, find_last_of('.')): the dot may be anywhere.
Base(path) ==
  LET dot == UpToLast(path, ".")
  IN  IF dot = 0 THEN path ELSE SubSeq(path, 1, dot - 1)

Directory(path) == SubSeq(path, 1, UpToLast(path, "/"))

Extension(format) == CASE format = "binary" -> "bin"
                       [] format \in {"logisim8", "logisim16"} -> "sim"
                       [] OTHER -> "hex"

\* Mutant: -l with logisim16 makes two files.
ImagePartsAlways(format, word_size) ==
  IF word_size = 1 THEN {""} ELSE {"_0", "_1"}

\* One file, or one for each byte order.
ImageParts(format, word_size) ==
  IF word_size = 1 \/ format = "logisim16" THEN {""} ELSE {"_0", "_1"}

ListingFile(base) == base \o <<".", "lst">>

ImageFile(base, part, format) ==
  base \o (IF part = "" THEN <<>> ELSE <<part>>) \o <<".", Extension(format)>>

\* remove() and ofstream: a file in no directory is not written, and nothing
\* is said of it.
Write(names) ==
  LET new == {n \in names : Directory(n) \in Directories}
  IN  files' = [n \in DOMAIN files \cup new |-> IF n \in new THEN "new" ELSE files[n]]

-----------------------------------------------------------------------------
Init ==
  /\ \E i \in Inputs : OptionsInit(i.command) /\ ScannerInit(i.file)
  /\ ListingInit
  /\ phase = "options" /\ files = [n \in OldFiles |-> "old"]
  /\ warned = FALSE /\ status = 0

ExitWith(code) == /\ phase' = "exit" /\ status' = code
                  /\ UNCHANGED <<files, warned>>

ReadCommand ==
  /\ phase = "options"
  /\ ReadOption
  /\ UNCHANGED <<scannerVars, listingVars, mainVars>>

Help == /\ phase = "options" /\ At("h")
        /\ ExitWith(0)
        /\ UNCHANGED <<optionVars, scannerVars, listingVars>>

\* return -2
OptionsRefused ==
  /\ phase = "options" /\ optind > Len(command) /\ error_in_options
  /\ ExitWith(254)
  /\ UNCHANGED <<optionVars, scannerVars, listingVars>>

\* An operand is taken before -i; the outputs are named after the input.
EndOfOptions ==
  LET input == IF operands # <<>> THEN operands[1] ELSE settings.input_filename
      base == IF settings.output_filename = <<>> THEN Base(input)
              ELSE settings.output_filename
  IN  /\ phase = "options" /\ optind > Len(command) /\ ~error_in_options
      /\ settings' = [settings EXCEPT !.input_filename = input,
                                      !.output_filename = base]
      /\ IF input \notin OldFiles THEN ExitWith(1)     \* none given, or fopen fails
         ELSE phase' = "parse" /\ UNCHANGED <<files, warned, status>>
      /\ UNCHANGED <<command, optind, operands, error_in_options,
                     scannerVars, listingVars>>

ReadSource ==
  /\ phase = "parse" /\ Scan
  /\ UNCHANGED <<optionVars, listingVars, mainVars>>

\* exit(EXIT_FAILURE) in yyerror, or the exception nobody catches.
SourceRefused ==
  /\ phase = "parse" /\ yyparse \in {"exit", "abort"}
  /\ ExitWith(IF yyparse = "exit" THEN 1 ELSE 134)
  /\ UNCHANGED <<optionVars, scannerVars, listingVars>>

\* The phases of module Assembler.
Assemble ==
  /\ phase = "parse" /\ yyparse = "accepted"
  /\ \/ ExitWith(1)
     \/ /\ phase' = "listing" /\ warned' \in BOOLEAN
        /\ UNCHANGED <<files, status>>
  /\ UNCHANGED <<optionVars, scannerVars, listingVars>>

WriteRows ==
  /\ phase = "listing" /\ ListStatement
  /\ UNCHANGED <<optionVars, scannerVars, mainVars>>

EndOfListing ==
  /\ phase = "listing" /\ listed = Len(ast)
  /\ Write({ListingFile(settings.output_filename)})
  /\ phase' = "image"
  /\ UNCHANGED <<optionVars, scannerVars, listingVars, warned, status>>

WriteImages ==
  LET format == settings.output_format
  IN  /\ phase = "image"
      /\ Write({ImageFile(settings.output_filename, part, format) :
                  part \in ImageParts(format, settings.word_size)})
      /\ phase' = "exit" /\ status' = IF warned THEN 2 ELSE 0
      /\ UNCHANGED <<optionVars, scannerVars, listingVars, warned>>

Next == \/ ReadCommand \/ Help \/ OptionsRefused \/ EndOfOptions
        \/ ReadSource \/ SourceRefused \/ Assemble
        \/ WriteRows \/ EndOfListing \/ WriteImages

\* One thread that waits for nothing.
Spec == Init /\ [][Next]_vars /\ WF_vars(Next)

-----------------------------------------------------------------------------
LineOf(i) == 1 + NewlinesIn(SubSeq(Text, 1, i - 1))

ColumnOf(i) ==
  i - 1 - Max({0} \cup {k \in 1 .. i - 1 : Text[k] = NL})

Ended == phase = "exit" /\ status \in {0, 2} /\ yyparse = "accepted"

TypeOK ==
  /\ phase \in {"options", "parse", "listing", "image", "exit"}
  /\ start \in {"INITIAL", "COMMENT", "STRING"}
  /\ position \in 0 .. Len(Text) /\ yylineno \in 1 .. SrcfileSize + 1
  /\ yycolumn \in Nat /\ listed \in 0 .. Len(ast)
  /\ settings.word_size \in {1, 2}
  /\ DOMAIN settings.section_addresses \subseteq STRING
  /\ status \in {0, 1, 2, 134, 254}

\* A statement keeps the line on which it begins, whatever is before it:
\* comments over several lines, ignored directives, a label on another line,
\* a last line without newline; and no two are of one line, for the listing
\* looks for the line of each after that of the one before.  Its column is that of its first token, when
\* no ignored directive or block comment comes before (p16.l 26-53,
\* 218-220, p16.ypp 26-28).
StatementsNameTheirPlace ==
  /\ \A j, k \in DOMAIN ast : j < k => ast[j].line < ast[k].line
  /\ \A k \in DOMAIN ast :
       LET s == ast[k]
           before == {Text[i] : i \in 1 .. s.piece - 1}
       IN  /\ s.line = LineOf(s.piece)
           /\ before \cap {".global", "/*"} = {} => s.first_column = ColumnOf(s.piece)

\* A syntax error at a token names and shows the line of that token, and at
\* the end of a line shows that line (error.cpp 96-110).
ErrorsShowTheirLine ==
  yyparse = "exit" /\ start = "INITIAL" =>
    /\ report.text = LineOf(IF Text[position] = NL THEN yylloc.piece ELSE position)
    /\ Text[position] # NL => report.number = report.text

\* The listing has the lines of the source in order, each beside its number,
\* once, down to the line of the last statement (listing.cpp 57-66).
RowsFollowTheSource ==
  Ended =>
    LET source == {n \in DOMAIN rows : rows[n].text # 0}
    IN  /\ \A n \in source : /\ rows[n].number = rows[n].text
                             /\ rows[n].text = Cardinality({m \in source : m <= n})
        /\ Cardinality(source) = Last(ast).line

\* The rows of a statement show its bytes, in order and each once; those of a
\* long .space its first and last.  A .space of size 0 shows the byte after it
\* (directive.cpp 26-242).
ListingShowsTheBytes ==
  Ended =>
    \A k \in DOMAIN ast :
      LET s == ast[k]
          cells == FlattenSeq([n \in DOMAIN rows |->
                     IF rows[n].number = s.line THEN rows[n].cells ELSE <<>>])
      IN  IF s.kind = "space" /\ s.size > 3
          THEN cells = <<s.offset, s.offset + s.size - 1>>
          ELSE (s.kind = "space" /\ s.size = 0) \/ cells = Cells(s.offset, s.size)

\* The base name of a source: its path without the extension of the file.
SourceBase(path) ==
  LET dot == UpToLast(path, ".")
  IN  IF dot = 0 \/ dot < UpToLast(path, "/") THEN path ELSE SubSeq(path, 1, dot - 1)

\* No -o, and the only dots of the source are in the names of directories.
NamedAfterADirectory ==
  /\ ArgumentsOf("o") = {}
  /\ UpToLast(GivenInput, ".") # 0
  /\ UpToLast(GivenInput, ".") < UpToLast(GivenInput, "/")

\* Files change only when the run succeeds, and then they are the listing and
\* the images the command line asks for, wherever its options are; one that
\* cannot be created is missed in silence (pas.cpp 92-178, 285-334).  Without
\* -o they have the base name and the directory of the source
\* (doc/pas_utilizacao.rst 32-35), unless that name has no extension and a
\* directory above it has: pas.cpp 185 cuts the path there, and nothing is said
\* of the names of the files.
FilesMatchTheOptions ==
  phase = "exit" =>
    LET format == LastOf("f", <<"hexintel">>)[1]
        base   == LastOf("o", SourceBase(GivenInput))
        parts  == IF GivenInterleave /\ format # "logisim16" THEN {"_0", "_1"}
                  ELSE {""}
        asked  == {ListingFile(base)} \cup {ImageFile(base, p, format) : p \in parts}
        new    == {n \in asked : Directory(n) \in Directories}
        written == {n \in DOMAIN files : files[n] = "new"}
    IN  /\ ~Ended => written = {}
        /\ Ended /\ ~NamedAfterADirectory => written = new
        /\ OldFiles \subseteq DOMAIN files
        /\ Ended => \A n \in DOMAIN settings.section_addresses :
                      settings.section_addresses[n] = GivenAddress(n)

\* The program ends, whatever the command line and the source.
FrontEndEnds == <>(phase = "exit")

-----------------------------------------------------------------------------
\* A claim of the documentation that the code does not keep.

\* --interleave takes no argument ("-l, --interleave", doc/pas_utilizacao.rst
\* 22): a source named after it is the source.
InterleaveLeavesTheSource ==
  phase \in {"parse", "exit"} =>
    \A n \in OldFiles : command = <<<<"--", "interleave">>, n>> =>
                          settings.input_filename = n
=============================================================================
