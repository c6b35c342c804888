------------------------------- MODULE Scanner -------------------------------
(***************************************************************************)
(* Reading the source: the lexer (src/src/p16.l) with its start conditions, *)
(* lines and columns, what the grammar (src/src/p16.ypp) makes of its       *)
(* tokens, and yyerror (src/src/error.cpp).  A file is a sequence of pieces *)
(* of text, each as wide as a column: "\n", " ", ";", "/*", "*/", ".global" *)
(* (any of the ignored directives), a quote, "a:" (a label), ".ascii", and  *)
(* whole instructions and directives (Statements).  Anything else is a      *)
(* token no statement begins with.                                          *)
(***************************************************************************)
EXTENDS Integers, Sequences, FiniteSets, SequencesExt

CONSTANT Statements         \* pieces -> [kind, size] of the node they build

\* An instruction is a word, .align takes the size of its unit, .equ no bytes.
ASSUME StatementsAssumption ==
  \A p \in DOMAIN Statements :
    LET s == Statements[p]
    IN  /\ s \in [kind : {"inst", "data", "space", "align", "equ"}, size : Nat]
        /\ s.kind = "inst" => s.size = 2
        /\ s.kind = "align" => s.size > 0
        /\ s.kind = "equ" => s.size = 0

VARIABLES
  file,                     \* the source file
  position,                 \* pieces the lexer has read
  start,                    \* its start condition
  yylineno, yycolumn, yylloc,
  expected,                 \* the tokens the parser can shift
  statement,                \* the statement being parsed
  ast,                      \* the statements parsed
  reserved,                 \* bytes in the section
  report,                   \* what yyerror printed: [number, text]
  yyparse                   \* "running", "accepted", "exit" or "abort"

lexVars     == <<position, start, yylineno, yycolumn, yylloc>>
parseVars   == <<expected, statement, ast, reserved, report, yyparse>>
scannerVars == <<file, lexVars, parseVars>>

NL == "\n"
Quote == "\""

\* YY_INPUT: a file that does not end in a newline is read as if it did.
Text == IF file # <<>> /\ Last(file) = NL THEN file ELSE Append(file, NL)

NewlinesIn(s) == Cardinality({i \in DOMAIN s : s[i] = NL})

\* listing_load_inputfile: getline finds a line after the last newline.
SrcfileSize == NewlinesIn(file) + 1

-----------------------------------------------------------------------------
\* yyerror: the line number of yylloc, and the text of the line before it
\* when the token is an EOL.  vector::at ends the process when the line does
\* not exist.

\* Mutant: the index of an EOL is that of any token.
TextOfAnyToken(line, yychar) == line

TextOf(line, yychar) == IF yychar = "EOL" THEN line - 1 ELSE line

\* Mutant: the process goes on after an error the lexer finds.
YyerrorReturning(location, yychar) ==
  /\ report' = [number |-> location.line, text |-> TextOf(location.line, yychar)]
  /\ yyparse' = IF yychar = "none" THEN yyparse ELSE "exit"
  /\ UNCHANGED <<expected, statement, ast, reserved>>

Yyerror(location, yychar) ==
  LET text == TextOf(location.line, yychar)
  IN  /\ IF text > SrcfileSize
         THEN yyparse' = "abort" /\ UNCHANGED report
         ELSE yyparse' = "exit" /\ report' = [number |-> location.line, text |-> text]
      /\ UNCHANGED <<expected, statement, ast, reserved>>

-----------------------------------------------------------------------------
\* The parser.

Beginning == {"statement", "ascii", "EOL"}
NoStatement == [line |-> 0, first_column |-> 0, piece |-> 0, kind |-> "empty",
                offset |-> 0, size |-> 0]

\* Mutant: the location of the EOL as it is, on the next line.
EmptyLineHere(location) == location.line

\* LOCATION_EOL.
EmptyLine(location) == location.line - 1

\* What a constructor reserves; .align goes up to a multiple.
Reserves(kind, size) ==
  IF kind = "align" THEN (size - (reserved % size)) % size ELSE size

Begin(kind, size, location) ==
  /\ statement' = [line |-> location.line, first_column |-> location.first_column,
                   piece |-> location.piece, kind |-> kind, offset |-> reserved,
                   size |-> Reserves(kind, size)]
  /\ reserved' = reserved + Reserves(kind, size)

\* A token the parser can shift, and the reductions it leads to.
Shift(token, piece, location) ==
  CASE token = "label" ->
         /\ statement' = [NoStatement EXCEPT !.kind = "label",
                            !.line = location.line, !.piece = location.piece,
                            !.first_column = location.first_column]
         /\ expected' = Beginning
         /\ UNCHANGED <<ast, reserved>>
    [] token = "statement" ->
         /\ Begin(Statements[piece].kind, Statements[piece].size, location)
         /\ expected' = {"EOL"}
         /\ UNCHANGED ast
    [] token = "ascii" ->
         /\ Begin("data", 0, location)
         /\ expected' = {"string"}
         /\ UNCHANGED ast
    [] token = "string" ->
         /\ statement' = [statement EXCEPT !.size = piece]
         /\ reserved' = reserved + piece
         /\ expected' = {"EOL"}
         /\ UNCHANGED ast
    [] token = "EOL" ->
         /\ ast' = Append(ast,
                     IF statement # NoStatement THEN statement
                     ELSE [NoStatement EXCEPT !.line = EmptyLine(location),
                             !.first_column = location.first_column,
                             !.piece = location.piece])
         /\ statement' = NoStatement
         /\ expected' = Beginning \cup {"label"}
         /\ UNCHANGED reserved

Parse(token, piece, location) ==
  IF token \in expected
  THEN Shift(token, piece, location) /\ UNCHANGED <<report, yyparse>>
  ELSE Yyerror(location, token)

-----------------------------------------------------------------------------
\* The lexer.

ScannerInit(source) ==
  /\ file = source
  /\ position = 0 /\ start = "INITIAL" /\ yylineno = 1 /\ yycolumn = 0
  /\ yylloc = [line |-> 1, first_column |-> 0, last_column |-> 0, piece |-> 0]
  /\ expected = Beginning \cup {"label"} /\ statement = NoStatement
  /\ ast = <<>> /\ reserved = 0
  /\ report = [number |-> 0, text |-> 0] /\ yyparse = "running"

In(condition) == /\ yyparse = "running" /\ start = condition
                 /\ position < Len(Text)

Piece == Text[position + 1]

\* YY_USER_ACTION, after the newlines of the lexeme were counted; piece is
\* where the lexeme begins (history).
Location(n) ==
  [line |-> yylineno + NewlinesIn(SubSeq(Text, position + 1, position + n)),
   first_column |-> yycolumn, last_column |-> yycolumn + n - 1,
   piece |-> position + 1]

\* A lexeme of n pieces; column is where the next one begins.
Match(n, column) ==
  /\ position' = position + n
  /\ yylloc' = Location(n)
  /\ yylineno' = Location(n).line
  /\ yycolumn' = column
  /\ UNCHANGED file

Skip(n) == Match(n, yycolumn + n) /\ UNCHANGED parseVars

\* Pieces up to and including the next newline.
ToEndOfLine == Min({i \in position + 1 .. Len(Text) : Text[i] = NL}) - position

\* The longest run without a piece of stops.
Run(stops) ==
  Min({i \in position + 1 .. Len(Text) : Text[i] \in stops} \cup {Len(Text) + 1})
    - position - 1

White == /\ In("INITIAL") /\ Piece = " "
         /\ Skip(1) /\ UNCHANGED start

\* .syntax, .cpu, .thumb, .global: the line goes, its newline with it.
Ignored == /\ In("INITIAL") /\ Piece = ".global"
           /\ Skip(ToEndOfLine) /\ UNCHANGED start

\* The end of a line, or a comment up to it.
EndOfLine ==
  LET n == ToEndOfLine
  IN  /\ In("INITIAL") /\ Piece \in {NL, ";"}
      /\ Match(n, 0)
      /\ Parse("EOL", Piece, Location(n))
      /\ UNCHANGED start

TokenOf(piece) == CASE piece = "a:"                 -> "label"
                    [] piece = ".ascii"             -> "ascii"
                    [] piece \in DOMAIN Statements  -> "statement"
                    [] OTHER                        -> "other"

Word == /\ In("INITIAL") /\ Piece \notin {" ", ".global", NL, ";", "/*", Quote}
        /\ Match(1, yycolumn + 1)
        /\ Parse(TokenOf(Piece), Piece, Location(1))
        /\ UNCHANGED start

BeginComment == In("INITIAL") /\ Piece = "/*" /\ Skip(1) /\ start' = "COMMENT"
Comment      == In("COMMENT") /\ Piece # "*/" /\ Skip(Run({"*/"})) /\ UNCHANGED start
EndComment   == In("COMMENT") /\ Piece = "*/" /\ Skip(1) /\ start' = "INITIAL"

BeginString == In("INITIAL") /\ Piece = Quote /\ Skip(1) /\ start' = "STRING"

String == /\ In("STRING") /\ Piece \notin {Quote, NL}
          /\ Skip(Run({Quote, NL})) /\ UNCHANGED start

LastQuote == Max({i \in 1 .. position : Text[i] = Quote})

\* The literal is as long as what lies between the quotes.
EndString ==
  /\ In("STRING") /\ Piece = Quote
  /\ Match(1, yycolumn + 1)
  /\ Parse("string", position - LastQuote, Location(1))
  /\ start' = "INITIAL"

UnterminatedString ==
  /\ In("STRING") /\ Piece = NL
  /\ Match(1, yycolumn + 1)
  /\ Yyerror(Location(1), "none")
  /\ UNCHANGED start

UnterminatedComment ==
  /\ yyparse = "running" /\ position = Len(Text) /\ start = "COMMENT"
  /\ Yyerror(yylloc, "none")
  /\ UNCHANGED <<file, lexVars>>

\* Mutant: the column is left where the last line ends.
LineNotEnded == UNCHANGED yycolumn

LineEnded == yycolumn' = 0

\* <<EOF>>: a line not ended by an EOL ends here, where yylloc was left.
EndOfText ==
  /\ yyparse = "running" /\ position = Len(Text) /\ start = "INITIAL"
  /\ IF yycolumn > 0
     THEN /\ LineEnded
          /\ Parse("EOL", NL, yylloc)
     ELSE /\ yyparse' = "accepted"
          /\ UNCHANGED <<yycolumn, expected, statement, ast, reserved, report>>
  /\ UNCHANGED <<file, position, start, yylineno, yylloc>>

Scan == \/ White \/ Ignored \/ EndOfLine \/ Word
        \/ BeginComment \/ Comment \/ EndComment
        \/ BeginString \/ String \/ EndString
        \/ UnterminatedString \/ UnterminatedComment \/ EndOfText
=============================================================================
