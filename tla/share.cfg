\* Two sharings of one object with vaults that may share a key; the rows change meanwhile.
SPECIFICATION Spec
CONSTANTS
  Null = Null
  a = a
  b = b
  c1 = c1
  c2 = c2
  Requests = {r1, r2}
  Objects = {o1}
  ShareIds = {s1, s2, s3}
  Vaults <- MCVaults
  Sharer = a
  KeyOf <- MCKeyOf
  Changes = {"archive", "delete", "cascade", "disable", "expire"}
SYMMETRY Symmetry
INVARIANTS
  TypeOK
  OneActiveShare
  SharesBounded
CHECK_DEADLOCK FALSE
