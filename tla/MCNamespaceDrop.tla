--------------------------- MODULE MCNamespaceDrop ---------------------------
(* Model values and symmetry for the run of NamespaceDrop. *)
EXTENDS NamespaceDrop, TLC

CONSTANTS n1, n2

Symmetry == Permutations(Requests) \cup Permutations(Keys)
              \cup Permutations(ObjectIds)
=============================================================================
