--------------------------- MODULE MCAgentObjects ---------------------------
(* Model values and symmetry for the runs of AgentObjects. *)
EXTENDS AgentObjects, TLC

Symmetry == Permutations(Requests) \cup Permutations(Keys)
              \cup Permutations(ObjectIds) \cup Permutations(Namespaces)
=============================================================================
