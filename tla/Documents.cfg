SPECIFICATION Spec
CONSTANTS
  r1 = r1
  r2 = r2
  r3 = r3
  o1 = o1
  o2 = o2
  d1 = d1
  d2 = d2
  none = none
  Caller <- MCCaller
  Org <- MCOrg
  Doc <- MCDoc
  NoOrg = none
  Size <- MCSize
  MaxFaults = 1
  MaxFileSize = 3
  ChunkSize = 2
SYMMETRY Symmetry
CHECK_DEADLOCK FALSE
INVARIANTS
  DocumentsTypeOK
  ServedIsUploaded
  CloudDeletesAreRepeatable
PROPERTIES
  FilesAreKept
  DocumentLifecycleSpec
