CONSTANTS
  MaxEvents = 4
  CutBeforeNewline = TRUE
  SyncErrors = FALSE
SPECIFICATION Spec
INVARIANT AckedSurvives
