CONSTANTS
  PageSize = 4
  Pages = 16
  ByteLimit = 8
  Addresses = {}
  Blocks = {}
  Tables <- MCTables
  AddressRange = 128
  NoWindow = NoWindow
  Windows <- MCWindows
  Formats = {"logisim8"}
  WordSizes = {1}
  RecordSize = 3
SPECIFICATION Spec
INVARIANTS
  LogisimIsTheWindow
CHECK_DEADLOCK FALSE
