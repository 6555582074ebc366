----------------------------- MODULE VaultSetup -----------------------------
(***************************************************************************)
(* How a vault comes into being: POST /vaults (impl/routes/agent-vaults.ts)*)
(* creates vault, namespace and guardian in one transaction and the API    *)
(* key after it; POST /register (api/routes/agent/auth.ts) uses no         *)
(* transaction at all.  A client whose request fails may try again.        *)
(*                                                                         *)
(* The migrations of the repository lag behind /register: its INSERT names *)
(* columns that none of them creates, and migrations/017 declares owner_id *)
(* NOT NULL while its comment calls it nullable for autonomous agents and  *)
(* the route inserts NULL for one without an owner.  The module follows    *)
(* the route: the columns are there, and an owner may be Null.  Under the  *)
(* schema as it stands these registrations fail at their first statement,  *)
(* so it has more behaviours than that schema, not fewer.                  *)
(***************************************************************************)
EXTENDS Naturals, FiniteSets

CONSTANTS
  Requests, Owners, VaultNames,
  VaultIds,   \* bound on the vaults
  Faulty,     \* TRUE: a request may stop between any two statements
  Null

VARIABLES
  vault,       \* agent_vaults: [owner, name, route], or Null, for each id
  namespaced,  \* vaults that have a namespace
  guarded,     \* vaults that have their owner as guardian
  keyed,       \* vaults that have an API key
  held,        \* vaults whose API key a client was given
  pc, call, made

vars == <<vault, namespaced, guarded, keyed, held, pc, call, made>>

Row == [owner: Owners \cup {Null}, name: VaultNames,
        route: {"create", "register"}]

\* What the modules that use this one assume of the constants.
SetupAssumption ==
  /\ Faulty \in BOOLEAN /\ Null \notin Row \cup VaultIds \cup Owners
  /\ IsFiniteSet(Requests) /\ IsFiniteSet(VaultIds)

Init ==
  /\ vault = [v \in VaultIds |-> Null]
  /\ namespaced = {} /\ guarded = {} /\ keyed = {} /\ held = {}
  /\ pc = [r \in Requests |-> "idle"]
  /\ call = [r \in Requests |-> Null] /\ made = [r \in Requests |-> Null]

Goto(r, from, to) == pc[r] = from /\ pc' = [pc EXCEPT ![r] = to]

Reply(r, from) ==
  /\ Goto(r, from, "idle")
  /\ call' = [call EXCEPT ![r] = Null] /\ made' = [made EXCEPT ![r] = Null]

\* Bound: a vault is asked for only if an id is left for it.
IdLeft ==
  Cardinality({v \in VaultIds : vault[v] = Null}) >
  Cardinality({r \in Requests : pc[r] \in {"tx", "vault"}})

\* Mutant of FirstStatement: a creation without a transaction.
FirstStatementPlain(route) == "vault"

FirstStatement(route) == IF route = "create" THEN "tx" ELSE "vault"

\* The owner of a created vault is logged in; a registered one may have none.
Start(r, row) ==
  /\ IdLeft
  /\ row.route = "create" => row.owner # Null
  /\ Goto(r, "idle", FirstStatement(row.route))
  /\ call' = [call EXCEPT ![r] = row]
  /\ UNCHANGED <<vault, namespaced, guarded, keyed, held, made>>

\* UNIQUE (owner_id, vault_name), which NULL owners never violate.
Taken(row) ==
  row.owner # Null /\ \E v \in VaultIds :
    vault[v] # Null /\ vault[v].owner = row.owner /\ vault[v].name = row.name

Insert(r) == \E v \in VaultIds :
  /\ vault[v] = Null
  /\ vault' = [vault EXCEPT ![v] = call[r]]
  /\ made' = [made EXCEPT ![r] = v]

\* sql.begin: vault, default namespace and owner guardian, or nothing.
Transaction(r) ==
  /\ pc[r] = "tx"
  /\ IF Taken(call[r])
     THEN Reply(r, "tx") /\ UNCHANGED <<vault, namespaced, guarded>>
     ELSE /\ Goto(r, "tx", "key") /\ Insert(r) /\ UNCHANGED call
          /\ namespaced' = namespaced \cup {made'[r]}
          /\ guarded' = guarded \cup {made'[r]}
  /\ UNCHANGED <<keyed, held>>

\* /register: INSERT the vault, then INSERT its namespace "memory".
InsertVault(r) ==
  /\ pc[r] = "vault"
  /\ IF Taken(call[r])
     THEN Reply(r, "vault") /\ UNCHANGED vault
     ELSE Goto(r, "vault", "namespace") /\ Insert(r) /\ UNCHANGED call
  /\ UNCHANGED <<namespaced, guarded, keyed, held>>

InsertNamespace(r) ==
  /\ Goto(r, "namespace", "key")
  /\ namespaced' = namespaced \cup {made[r]}
  /\ UNCHANGED <<vault, guarded, keyed, held, call, made>>

\* INSERT INTO agent_api_keys, then the answer with the key, which is shown
\* this once.  Both routes.
InsertKey(r) ==
  /\ Goto(r, "key", "answer") /\ keyed' = keyed \cup {made[r]}
  /\ UNCHANGED <<vault, namespaced, guarded, held, call, made>>

Answer(r) ==
  /\ Reply(r, "answer") /\ held' = held \cup {made[r]}
  /\ UNCHANGED <<vault, namespaced, guarded, keyed>>

Stop(r) ==
  /\ Faulty /\ pc[r] # "idle" /\ Reply(r, pc[r])
  /\ UNCHANGED <<vault, namespaced, guarded, keyed, held>>

Next == \E r \in Requests :
  \/ \E row \in Row : Start(r, row)
  \/ Transaction(r) \/ InsertVault(r) \/ InsertNamespace(r) \/ InsertKey(r)
  \/ Answer(r) \/ Stop(r)

Spec == Init /\ [][Next]_vars

-----------------------------------------------------------------------------
(* Properties. *)

\* The type of every variable.
TypeOK ==
  /\ vault \in [VaultIds -> Row \cup {Null}]
  /\ {namespaced, guarded, keyed, held} \subseteq SUBSET VaultIds
  /\ pc \in [Requests -> {"idle", "tx", "vault", "namespace", "key", "answer"}]
  /\ call \in [Requests -> Row \cup {Null}]
  /\ made \in [Requests -> VaultIds \cup {Null}]

\* A client that was given a key has a vault with a namespace, and a guardian
\* when an owner created it, whatever else stopped half-way.
HeldIsUsable ==
  \A v \in held :
    /\ vault[v] # Null /\ v \in namespaced \cap keyed
    /\ vault[v].route = "create" => v \in guarded
=============================================================================
