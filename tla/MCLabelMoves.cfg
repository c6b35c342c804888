CONSTANTS
  Names <- MCNames
  Labels = {"a", "b"}
  NoLabel = "none"
  Programs <- LabelPrograms
  AddressLimit = 1073741824
  MemorySize = 65536
  BranchWidth = 3
  LdrWidth = 2
SPECIFICATION Spec
INVARIANTS
  LabelsStayInTheirSection
CHECK_DEADLOCK FALSE
