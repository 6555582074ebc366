\* Two requests create vaults, stop and try again; then two use one vault near
\* its limits, while audit inserts may fail.
SPECIFICATION LifeSpec
CONSTANTS
  Null = Null
  Requests = {r1, r2}
  Names = {"default", "memory", "a"}
  NamespaceIds = {n1, n2, n3}
  KeyIds = {k1, k2, k3}
  Users = {u1}
  MaxNamespaces = 1
  MaxApiKeys = 1
  MaxGuardians = 1
  MaxObjects = 1
  AuditMayFail = TRUE
  Operations = {"createNs", "deleteNs", "createKey", "revokeKey", "addGuardian", "store"}
  VaultNames = {m1, m2}
  VaultIds = {v1, v2, v3}
  Faulty = TRUE
SYMMETRY Symmetry
INVARIANTS
  LifeTypeOK
  HeldIsUsable
  LimitsOvershootBounded
PROPERTIES
  OpensComplete
  AuditAppendOnly
CHECK_DEADLOCK FALSE
