CONSTANTS
  Inputs <- MCInputs
  Hex <- MCHex
  Statements <- MCStatements
  HexWidth = 4
  OldFiles <- MCOldFiles
  Directories <- MCDirectories
SPECIFICATION Spec
INVARIANTS
  InterleaveLeavesTheSource
CHECK_DEADLOCK FALSE
