CONSTANTS
  Gateways = {g1}
  Requests = {q1}
  Senders <- MCSenders
  Deposit = 1
  MaxForks = 0
  MaxRestarts = 1
  Departed = Departed
SPECIFICATION FairSpec
PROPERTIES CloseIsRetried
CHECK_DEADLOCK FALSE
