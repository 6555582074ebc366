\* REST stores, reads and deletes of three keys near the plan limit, two at a time.
SPECIFICATION Spec
CONSTANTS
  Null = Null
  Requests = {r1, r2}
  Namespaces = {n1}
  Keys = {k1, k2, k3}
  ObjectIds = {o1, o2, o3}
  Sizes = {1, 2}
  Ttls = {"running"}
  PlanLimit = 2
  MaxInline = 1
  Operations = {"direct", "delete", "retrieve"}
  TokenIssued = FALSE
  Faulty = FALSE
  AuditFails = FALSE
SYMMETRY Symmetry
INVARIANTS
  TypeOK
  VaultCountNeverLow
  VaultBytesNeverLow
  QuotaOvershootBounded
PROPERTIES
  ActsLikeAMap
