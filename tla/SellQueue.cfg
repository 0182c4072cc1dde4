CONSTANTS
  Requests = {q1, q2}
  Workers = {w1, w2}
  Expected = 2
  Caps = {2, 3}
  Limits = {1, 2}
SPECIFICATION Spec
SYMMETRY MCSymmetry
INVARIANTS ReservationsAddUp CapHolds StreamEarnsWhatWasPaid  NoReservationStranded
CHECK_DEADLOCK FALSE
