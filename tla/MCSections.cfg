CONSTANTS
  Names <- MCNames
  Blocks <- MCBlocks
  Sizes = {0, 2}
  MaxSize = 3
SPECIFICATION Spec
INVARIANTS
  TypeOK
  TableWellFormed
PROPERTIES
  NumbersAreStable
  StoreSpec
