------------------------------ MODULE VaultLife ------------------------------
(***************************************************************************)
(* A vault from its creation on: requests create or register vaults        *)
(* (VaultSetup) until a client that holds the key of one begins to use it; *)
(* the rows that the setup left are then those of AgentVaults.  Vaults     *)
(* share no rows of these tables, so one of them stands for all, and what  *)
(* is set up beside it is left out from then on.                           *)
(***************************************************************************)
EXTENDS AgentVaults

CONSTANTS VaultNames, VaultIds, Faulty

VARIABLES
  opened,  \* a client uses the vault
  vault, namespaced, guarded, keyed, held, setupPc, setupCall, made

setupVars == <<vault, namespaced, guarded, keyed, held, setupPc, setupCall, made>>
lifeVars == <<opened, setupVars, vars>>

S == INSTANCE VaultSetup WITH Owners <- Users, pc <- setupPc, call <- setupCall

ASSUME SetupAssumed == S!SetupAssumption

\* The tables before any vault is used.
LifeInit ==
  /\ opened = FALSE /\ S!Init
  /\ namespace = [i \in NamespaceIds |-> Null] /\ usedIds = {}
  /\ apiKey = [k \in KeyIds |-> Null] /\ guardians = {}
  /\ objects = [i \in NamespaceIds |-> 0] /\ audit = {}
  /\ pc = [r \in Requests |-> "idle"] /\ call = [r \in Requests |-> Null]

\* A client that was given the key of v begins to use it: what the setup has
\* put into each table for v.  The setup's own variables have done their work
\* and are put back.
Open(v) ==
  /\ ~opened /\ opened' = TRUE
  /\ v \in held /\ \A r \in Requests : setupPc[r] = "idle"
  /\ \E first \in NamespaceIds :
       /\ namespace' = IF v \in namespaced
                        THEN FirstNamespace(vault[v].route, first) ELSE namespace
       /\ usedIds' = {first}
  /\ \E first \in KeyIds :
       apiKey' = IF v \in keyed THEN FirstKey(first) ELSE apiKey
  /\ guardians' = IF v \in guarded THEN {vault[v].owner} ELSE {}
  /\ vault' = [w \in VaultIds |-> Null] /\ held' = {}
  /\ namespaced' = {} /\ guarded' = {} /\ keyed' = {}
  /\ UNCHANGED <<objects, audit, pc, call, setupPc, setupCall, made>>

LifeNext ==
  \/ ~opened /\ S!Next /\ UNCHANGED <<opened, vars>>
  \/ \E v \in VaultIds : Open(v)
  \/ opened /\ Next /\ UNCHANGED <<opened, setupVars>>

LifeSpec == LifeInit /\ [][LifeNext]_lifeVars

-----------------------------------------------------------------------------
(* Properties, next to LimitsOvershootBounded and AuditAppendOnly. *)

\* The type of every variable, of the setup and of the vault in use.
LifeTypeOK == opened \in BOOLEAN /\ S!TypeOK /\ TypeOK

\* A client that was given a key has a vault with a namespace, and a guardian
\* when an owner created it, whatever else stopped half-way.
HeldIsUsable == S!HeldIsUsable

\* A vault comes into use as AgentVaults takes a new vault to be, whichever
\* route made it and whatever stopped or was tried again on the way.
OpensComplete == [][opened' /\ ~opened => Init']_lifeVars
=============================================================================
