\* A page that is turned before it is shown: a gate that passes and words left to see.
SPECIFICATION Spec
CONSTANTS
  PDF <- MCPDF
  NerResults <- MCNerResults
  Edit <- MCEdit
  ManualSpan <- MCManualSpan
  SSN <- MCSSN
  AccountLength <- MCAccountLength
  PlateLength <- MCPlateLength
  DOB_ANCHOR_WINDOW_CHARS = 3
  OcrScore = {0, 85}
  none = none
  MaxPageCount = 2
  MaxItems = 3
  MaxBatch = 2
  MaxFaults = 1
CHECK_DEADLOCK FALSE
INVARIANTS
  ApprovedWordsAreCovered
