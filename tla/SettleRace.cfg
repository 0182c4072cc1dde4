CONSTANTS
  Senders = {w1, w2}
  Requests = {q1}
  Modes = {"bound", "legacy", "batch"}
  Deposit = 1
  Refunds = {TRUE}
  Threshold = 1
  MaxForks = 1
  NoRecord = NoRecord
  NoOwner = NoOwner
SPECIFICATION Spec
SYMMETRY MCSymmetry
INVARIANTS TypeOK SealCoversAccepted NoForfeit LiveReservationHonoured ChargedOnce RecordOutlivesChannel
PROPERTIES ClaimFixesAmount
CHECK_DEADLOCK FALSE
