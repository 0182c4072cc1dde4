CONSTANTS
  Rows <- MCRows
  Tx <- MCTx
  Dir <- MCDirSame
  Procs = {p1, p2}
  Journals = {j1}
  DefaultDir = "home"
  NoProc = NoProc
  RowsPerChunk = 1
  MaxInFlight = 2
  MaxChunks = 3
  MaxRuns = 2
  ResumeUnsigned = TRUE
  Window = 1
  MaxHeight = 2
  MaxExpiry = 2
  MaxForks = 1
  ConfirmedIsFinal = FALSE
SPECIFICATION Spec
INVARIANTS JournaledBeforeSent ChunkSignedOnce JournalPaysOnce SnapshotIsCurrent
 
SYMMETRY MCSymmetry
CHECK_DEADLOCK FALSE
