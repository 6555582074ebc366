---------------------------- MODULE MCAgentAuth -----------------------------
(* Model values and symmetry for the runs of AgentAuth. *)
EXTENDS AgentAuth, TLC

Symmetry == Permutations(Requests) \cup Permutations(Challenges)
              \cup Permutations(Vaults)
=============================================================================
