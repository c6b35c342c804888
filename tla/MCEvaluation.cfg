CONSTANTS
  Names <- MCNames
  SymbolNames = {"a", "x", "y"}
  LineNames <- MCLineNames
  Lines <- SymbolLines
  MaxLines = 4
  MaxDepth = 9
  Garbage = {0, 3}
SPECIFICATION Spec
INVARIANTS
  TypeOK
  FailuresAreReported
  DemandIsTransparent
  SpaceFillsWhatItReserved
PROPERTIES
  DefinitionsAreFinal
CHECK_DEADLOCK FALSE
