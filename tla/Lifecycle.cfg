CONSTANTS
  Gateways = {g1, g2}
  Requests = {q1}
  Senders <- MCSenders
  Deposit = 1
  MaxForks = 0
  MaxRestarts = 1
  Departed = Departed
SPECIFICATION Spec
SYMMETRY MCSymmetry
INVARIANTS TypeOK SealedAtAccepted RecordFollowsChannel
PROPERTIES IdleCloseSparesRequests
CHECK_DEADLOCK FALSE
