------------------------------- MODULE Listing -------------------------------
(***************************************************************************)
(* The listing file: the loop of listing (src/src/listing.cpp 44-73) over   *)
(* the statements that module Scanner leaves, and the rows each of them     *)
(* writes.  A row is the line number printed, the line of the source beside *)
(* it (0 when there is none) and the offsets of the bytes shown.            *)
(***************************************************************************)
EXTENDS Scanner

CONSTANT HexWidth           \* bytes in a row of hex_dump (16)

ASSUME HexWidthAssumption == HexWidth \in Nat \ {0}

VARIABLES
  current_line,             \* the next line of the source to list
  listed,                   \* statements listed
  rows                      \* the rows written

listingVars == <<current_line, listed, rows>>

Row(number, text, cells) == [number |-> number, text |-> text, cells |-> cells]

\* The offsets of n bytes from offset on.
Cells(offset, n) == [k \in 1 .. n |-> offset + k - 1]

-----------------------------------------------------------------------------
\* listing(): what is shown beside the source line.
FirstCells(s) ==
  CASE s.kind = "inst"  -> Cells(s.offset, 2)
    [] s.kind = "data"  -> IF s.size \in {1, 2} THEN Cells(s.offset, s.size) ELSE <<>>
    [] s.kind = "space" -> Cells(s.offset, 1)     \* also when its size is 0
    [] s.kind = "align" -> IF s.size = 0 THEN <<>> ELSE Cells(s.offset, 1)
    [] OTHER            -> <<>>

\* Rows of one byte each, after the first.
ByteRows(s) == [k \in 1 .. s.size - 1 |-> Row(s.line, 0, Cells(s.offset + k, 1))]

\* Mutant: the last, shorter row is forgotten.
HexDumpOfFullRows(s) ==
  [k \in 1 .. s.size \div HexWidth |->
     Row(s.line, 0, Cells(s.offset + (k - 1) * HexWidth, HexWidth))]

\* hex_dump: full rows, and the bytes that remain.
HexDump(s) ==
  LET full == s.size \div HexWidth
      rest == s.size % HexWidth
  IN  [k \in 1 .. full + (IF rest > 0 THEN 1 ELSE 0) |->
         Row(s.line, 0, Cells(s.offset + (k - 1) * HexWidth,
                              IF k <= full THEN HexWidth ELSE rest))]

\* more_listing(): the rows after it.  A long .space shows dots and its end.
MoreRows(s) ==
  CASE s.kind = "data" /\ s.size > 2 -> HexDump(s)
    [] s.kind = "align" \/ (s.kind = "space" /\ s.size <= 3) -> ByteRows(s)
    [] s.kind = "space" /\ s.size > 3 ->
         <<Row(s.line, 0, <<>>), Row(s.line, 0, Cells(s.offset + s.size - 1, 1))>>
    [] OTHER -> <<>>

\* Mutant: the line of the statement is listed among the blank ones too.
BlankLinesAndItsOwn(s) == s.line - current_line + 1

\* Lines before the one of the statement.
BlankLines(s) == s.line - current_line

-----------------------------------------------------------------------------
ListingInit == current_line = 1 /\ listed = 0 /\ rows = <<>>

\* The blank lines and comments before the statement, and its own rows.
ListStatement ==
  /\ listed < Len(ast)
  /\ LET s == ast[listed + 1]
         blank == [k \in 1 .. BlankLines(s) |->
                     Row(current_line + k - 1, current_line + k - 1, <<>>)]
         line == current_line + Len(blank)
     IN  /\ rows' = rows \o blank \o <<Row(s.line, line, FirstCells(s))>> \o MoreRows(s)
         /\ current_line' = line + 1
  /\ listed' = listed + 1
=============================================================================
