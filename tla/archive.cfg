\* Three requests on one object; S3 calls fail, requests stop, restored copies go.
SPECIFICATION FairSpec
CONSTANTS
  Null = Null
  Requests = {r1, r2, r3}
  Objects = {o1}
  Failing = {"copy", "restore", "poll"}
  Crashes = TRUE
  Expires = TRUE
INVARIANTS
  TypeOK
  StatusTruthful
PROPERTIES
  ArchivingEnds
  RestoreCompletes
CHECK_DEADLOCK FALSE
