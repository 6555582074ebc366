---------------------------- MODULE MCAgentShare ----------------------------
(* Model values and symmetry for the runs of AgentShare: c1 and c2 were      *)
(* registered with one key pair, as one owner's vaults may be.               *)
EXTENDS AgentShare, TLC

CONSTANTS a, b, c1, c2

MCVaults == {a, b, c1, c2}
MCKeyOf == [v \in MCVaults |-> IF v = c2 THEN c1 ELSE v]
Symmetry == Permutations(Requests) \cup Permutations(ShareIds)
              \cup Permutations(Objects)
=============================================================================
