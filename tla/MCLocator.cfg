CONSTANTS
  Names <- MCNames
  Layouts <- MCLayouts
  AddressMaps <- MCAddressMaps
  AddressLimit = 16
SPECIFICATION Spec
INVARIANTS
  ListInAddressOrder
  ListIsComplete
  OverlapIsReported
  WindowHoldsSections
CHECK_DEADLOCK FALSE
