\* Two requests, which may stop, redeem challenges of two vaults.
SPECIFICATION Spec
CONSTANTS
  Null = Null
  Requests = {r1, r2}
  Vaults = {v1, v2}
  Challenges = {c1}
  MaxChallenges = 1
  MaxWindows = 1
  Faulty = TRUE
  Operations = {"challenge", "token", "exchange"}
SYMMETRY Symmetry
INVARIANTS
  TypeOK
  RedeemedIsGone
  RedemptionsBounded
PROPERTIES
  MintedRight
CHECK_DEADLOCK FALSE
