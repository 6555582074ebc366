--------------------------- MODULE MCAgentArchive ---------------------------
(* Model values and symmetry for the runs of AgentArchive. *)
EXTENDS AgentArchive, TLC

Symmetry == Permutations(Requests) \cup Permutations(Objects)
=============================================================================
