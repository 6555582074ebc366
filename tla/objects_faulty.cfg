\* Every operation; any request may stop between two statements.
SPECIFICATION Spec
CONSTANTS
  Null = Null
  Requests = {r1, r2}
  Namespaces = {n1}
  Keys = {k1}
  ObjectIds = {o1, o2}
  Sizes = {1}
  Ttls = {"none", "running"}
  PlanLimit = 0
  MaxInline = 1
  Operations = {"direct", "presign", "mcpStore", "confirm", "delete", "retrieve", "mcpRetrieve"}
  TokenIssued = TRUE
  Faulty = TRUE
  AuditFails = TRUE
SYMMETRY Symmetry
INVARIANTS
  NoDanglingRead
  LiveKeyUnique
  NoDoubleRelease
PROPERTIES
  CreditedOnce
