CONSTANTS
  Calls = {c1, c2}
  Logins = {l1, l2}
  NoLogin = NoLogin
  Amounts = {1, 2, 3}
  Ceiling = 2
  Cap = 2
  MaxDay = 2
  MaxRestarts = 2
SPECIFICATION Spec
INVARIANTS DailyCapHolds MissedWasInFlight BookIsExact SpendsOnlyCounted
SYMMETRY MCSymmetry
CHECK_DEADLOCK FALSE
