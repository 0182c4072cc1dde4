CONSTANTS
  MaxEvents = 4
  CutBeforeNewline = FALSE
  SyncErrors = TRUE
SPECIFICATION Spec
INVARIANT LoadsAgain
