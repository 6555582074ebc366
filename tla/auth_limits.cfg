\* Challenges against their limit, redemptions, exchanges and calls of a vault that may be disabled.
SPECIFICATION FairSpec
CONSTANTS
  Null = Null
  Requests = {r1, r2}
  Vaults = {v1}
  Challenges = {c1, c2}
  MaxChallenges = 1
  MaxWindows = 2
  Faulty = FALSE
  Operations = {"challenge", "token", "exchange", "call"}
INVARIANTS
  CounterWillExpire
  IssueBounded
PROPERTIES
  LockoutEnds
  DisabledVaultDrains
CHECK_DEADLOCK FALSE
