CONSTANTS
  Inputs <- MCInputs
  Hex <- MCHex
  Statements <- MCStatements
  HexWidth = 4
  OldFiles <- MCOldFiles
  Directories <- MCDirectories
SPECIFICATION Spec
INVARIANTS
  StatementsNameTheirPlace
  ErrorsShowTheirLine
  RowsFollowTheSource
  ListingShowsTheBytes
  FilesMatchTheOptions
PROPERTIES
  FrontEndEnds
CHECK_DEADLOCK FALSE
