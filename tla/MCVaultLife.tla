---------------------------- MODULE MCVaultLife -----------------------------
(* Model values and symmetry for the run of VaultLife. *)
EXTENDS VaultLife, TLC

Symmetry == Permutations(Requests) \cup Permutations(NamespaceIds)
              \cup Permutations(KeyIds)
=============================================================================
