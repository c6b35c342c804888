CONSTANTS
  Names <- MCNames
  Labels = {"a", "b"}
  NoLabel = "none"
  Programs <- MCPrograms
  AddressLimit = 1073741824
  MemorySize = 65536
  BranchWidth = 3
  LdrWidth = 2
SPECIFICATION Spec
INVARIANTS
  ReservedBytesTileSections
  LdrReachesItsLabel
  BranchReachesItsLabel
  DataHoldsAddresses
  ImageHoldsSections
  ErrorsStopOutput
PROPERTIES
  ImplementsSections
  VisitsStayInTheirStatement
  RelocationsPatchTheirField
CHECK_DEADLOCK FALSE
