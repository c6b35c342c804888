CONSTANTS
  PageSize = 4
  Pages = 16
  ByteLimit = 8
  Addresses = {}
  Blocks = {}
  Tables <- MCTables
  AddressRange = 128
  NoWindow = NoWindow
  Windows <- MCWindows
  Formats = {"hexintel", "binary", "logisim8", "logisim16"}
  WordSizes = {1, 2}
  RecordSize = 3
SPECIFICATION Spec
INVARIANTS
  PagesAreSeparate
  RawIsTheWindow
  LogisimCoversTheWindow
  HexCarriesTheWindow
  RecordsAddUpToZero
PROPERTIES
  ImplementsFlatMemory
CHECK_DEADLOCK FALSE
