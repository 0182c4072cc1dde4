CONSTANTS
  Rows <- MCOneRow
  Tx <- MCTx
  Dir <- MCDirSame
  Procs = {p1}
  Journals = {j1, j2}
  DefaultDir = "home"
  NoProc = NoProc
  RowsPerChunk = 2
  MaxInFlight = 1
  MaxChunks = 2
  MaxRuns = 2
  ResumeUnsigned = FALSE
  Window = 1
  MaxHeight = 3
  MaxExpiry = 2
  MaxForks = 1
  ConfirmedIsFinal = TRUE
SPECIFICATION FairSpec
INVARIANTS ConfirmedHasLanded FinishedPaidEveryRow RowPaidOnce
PROPERTIES RunTerminates ImplementsPayout
CHECK_DEADLOCK FALSE
