CONSTANTS
  PageSize = 4
  Pages = 16
  ByteLimit = 8
  Addresses = {}
  Blocks = {}
  Tables <- MCTables
  AddressRange = 128
  NoWindow = NoWindow
  Windows <- MCWindows
  Formats = {"hexintel"}
  WordSizes = {1}
  RecordSize = 3
SPECIFICATION Spec
INVARIANTS
  HexCarriesTheWindowInAnyOrder
CHECK_DEADLOCK FALSE
