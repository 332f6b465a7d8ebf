\* Every page may be read in two ways; one artifact upload or one worker may fail.
SPECIFICATION Spec
CONSTANTS
  PDF <- MCPDF
  NerResults <- MCNerResults
  Edit <- MCEdit
  ManualSpan <- MCManualSpan
  SSN <- MCSSN
  AccountLength <- MCAccountLength
  PlateLength <- MCPlateLength
  DOB_ANCHOR_WINDOW_CHARS = 3
  OcrScore = {0, 85}
  none = none
  MaxPageCount = 2
  MaxItems = 3
  MaxBatch = 2
  MaxFaults = 1
CHECK_DEADLOCK FALSE
INVARIANTS
  ContentTypeOK
  IngestIsFaithful
  DetectionIsExact
  BurnIsExact
  GateCatches
PROPERTIES
  ReviewIsAudited
