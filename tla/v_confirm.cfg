\* No upload token is ever issued.
SPECIFICATION Spec
CONSTANTS
  Null = Null
  Requests = {r1}
  Namespaces = {n1}
  Keys = {k1}
  ObjectIds = {o1, o2}
  Sizes = {1, 2}
  Ttls = {"none"}
  PlanLimit = 0
  MaxInline = 1
  Operations = {"presign", "confirm"}
  TokenIssued = FALSE
  Faulty = FALSE
  AuditFails = FALSE
PROPERTIES
  ConfirmRefusedWhenDone
