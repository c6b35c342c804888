CONSTANTS
  Names <- MCNames
  SymbolNames = {"a", "x", "y"}
  LineNames <- MCLineNames
  Lines <- AliasLines
  MaxLines = 4
  MaxDepth = 9
  Garbage = {0, 3}
SPECIFICATION Spec
INVARIANTS
  AliasesKeepTheSection
CHECK_DEADLOCK FALSE
