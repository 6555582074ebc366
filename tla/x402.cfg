\* Three requests of one vault while the month changes and charges fail.
SPECIFICATION Spec
CONSTANTS
  Null = Null
  Requests = {r1, r2, r3}
  Calls <- MCCalls
  Limit = 3
  LastMonth = 2
  MaxDelivered = 6
  Faulty = TRUE
SYMMETRY Symmetry
INVARIANTS
  TypeOK
  OvershootBounded
  ChargesExact
CHECK_DEADLOCK FALSE
