CONSTANTS
  Senders = {w1}
  Requests = {q1}
  Modes = {"bound", "legacy", "batch"}
  Deposit = 1
  Refunds = {TRUE, FALSE}
  Threshold = 1
  MaxForks = 0
  NoRecord = NoRecord
  NoOwner = NoOwner
SPECIFICATION FairSpec
PROPERTIES ChannelIsFinished
CHECK_DEADLOCK FALSE
