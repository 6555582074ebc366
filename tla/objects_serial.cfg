\* One request at a time, two namespaces that may be deleted, upserts included.
SPECIFICATION DropSpec
CONSTANTS
  Null = Null
  Requests = {r1}
  n1 = n1
  n2 = n2
  Default = n1
  Namespaces = {n1, n2}
  Keys = {k1}
  ObjectIds = {o1, o2, o3}
  Sizes = {1, 2}
  Ttls = {"none"}
  PlanLimit = 0
  MaxInline = 1
  Operations = {"direct", "mcpStore", "delete", "mcpRetrieve"}
  TokenIssued = FALSE
  Faulty = FALSE
  AuditFails = TRUE
SYMMETRY Symmetry
INVARIANTS
  CountersExplained
  StoreTakesEffect
