CONSTANTS
  Requests = {r1, r2}
  Legacy = {old}
  Codes = {c1}
  Tx <- MCTx
  CodeOf <- MCCodeOf
  DestOf <- MCDestOf
  Window = 1
  MaxHeight = 3
  MaxExpiry = 3
  MaxForks = 1
  ConfirmedIsFinal = FALSE
  Blind = "status"
SPECIFICATION Spec
SYMMETRY MCSymmetry
INVARIANTS CodePaidOnce LivePayoutHoldsClaim RedeemedIsFinal AnswersAreTrue
PROPERTIES RedeemedForever ImplementsPayout
CHECK_DEADLOCK FALSE
