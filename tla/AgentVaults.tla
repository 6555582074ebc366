----------------------------- MODULE AgentVaults -----------------------------
(***************************************************************************)
(* What belongs to one vault besides its objects: namespaces, API keys,    *)
(* guardians and the audit log (impl/routes/agent-vaults.ts), under the    *)
(* foreign keys and the append-only trigger of migrations/017.  Each SQL   *)
(* statement of a request is one action.                                   *)
(***************************************************************************)
EXTENDS Naturals, FiniteSets

CONSTANTS
  Requests,
  Names,          \* namespace names, "default" and "memory" among them
  NamespaceIds, KeyIds, Users,
  MaxNamespaces,  \* MAX_NAMESPACES_PER_VAULT
  MaxApiKeys,     \* MAX_API_KEYS_PER_VAULT
  MaxGuardians,   \* the literal 3
  MaxObjects,     \* bound on the objects of a namespace
  AuditMayFail,   \* TRUE: an INSERT into agent_audit_log may fail
  Operations,
  Null

VARIABLES
  namespace,   \* agent_namespaces: a name, or Null, for each id
  usedIds,     \* ids that have been given out
  apiKey,      \* agent_api_keys: a row, or Null, for each id
  guardians,   \* vault_guardians: users
  objects,     \* agent_objects: how many rows each namespace has
  audit,       \* agent_audit_log: a set of rows
  pc, call

vars == <<namespace, usedIds, apiKey, guardians, objects, audit, pc, call>>

KeyRow == [ns: NamespaceIds \cup {Null}, revoked: BOOLEAN]
AuditRow == [action: {"create_namespace", "store", "create_api_key",
                      "delete_namespace"},
             ns: NamespaceIds \cup {Null}]
Call == [op: {"createNs"}, name: Names]
          \cup [op: {"deleteNs"}, ns: NamespaceIds]
          \cup [op: {"createKey"}, ns: NamespaceIds \cup {Null}]
          \cup [op: {"addGuardian"}, user: Users]
          \cup [op: {"store"}, ns: NamespaceIds]
Labels == {"idle", "nsCount", "nsInsert", "delLookup", "delRow", "keyCount",
           "keyInsert", "keyAudit", "guardCount", "guardInsert", "nsAudit",
           "delAudit", "objInsert", "objAudit"}

ASSUME VaultsAssumption ==
  /\ {"default", "memory"} \subseteq Names /\ Users # {} /\ Requests # {}
  /\ IsFiniteSet(NamespaceIds) /\ IsFiniteSet(KeyIds) /\ IsFiniteSet(Requests)
  /\ MaxNamespaces \in Nat \ {0} /\ MaxApiKeys \in Nat \ {0}
  /\ MaxGuardians \in Nat /\ MaxObjects \in Nat /\ AuditMayFail \in BOOLEAN
  /\ Operations \subseteq {"createNs", "deleteNs", "createKey", "revokeKey",
                           "addGuardian", "store"}
  /\ Null \notin Names \cup NamespaceIds \cup KeyRow \cup Call

Existing == {i \in NamespaceIds : namespace[i] # Null}
ActiveKeys == {k \in KeyIds : apiKey[k] # Null /\ ~apiKey[k].revoked}

\* The rows of a new vault.  POST /vaults calls the namespace "default" and
\* makes the owner a guardian; /register calls it "memory" and adds none.
FirstNamespace(route, first) ==
  [i \in NamespaceIds |->
     IF i # first THEN Null ELSE IF route = "create" THEN "default" ELSE "memory"]
FirstKey(first) ==
  [k \in KeyIds |-> IF k = first THEN [ns |-> Null, revoked |-> FALSE] ELSE Null]

Init ==
  /\ \E route \in {"create", "register"} :
       /\ \E first \in NamespaceIds :
            namespace = FirstNamespace(route, first) /\ usedIds = {first}
       /\ guardians \in IF route = "create" THEN {{u} : u \in Users} ELSE {{}}
  /\ \E first \in KeyIds : apiKey = FirstKey(first)
  /\ objects = [i \in NamespaceIds |-> 0] /\ audit = {}
  /\ pc = [r \in Requests |-> "idle"] /\ call = [r \in Requests |-> Null]

tables == <<namespace, usedIds, apiKey, guardians, objects, audit>>

Goto(r, from, to) == pc[r] = from /\ pc' = [pc EXCEPT ![r] = to]
Reply(r, from) == Goto(r, from, "idle") /\ call' = [call EXCEPT ![r] = Null]

Start(r, label, c) ==
  /\ c.op \in Operations /\ Goto(r, "idle", label)
  /\ call' = [call EXCEPT ![r] = c]
  /\ UNCHANGED tables

\* What a namespace_id column may hold: NULL or a namespace that exists.
Referable(ns) == ns = Null \/ ns \in Existing

\* Mutant of LogRow: an action the table does not know.
LogRowUnknown(action, ns) == audit' = audit \cup {[action |-> "log", ns |-> ns]}

\* The INSERT into the audit log: namespace_id must exist (a foreign key), and
\* any failure is swallowed.
LogRow(action, ns) ==
  \/ /\ Referable(ns)
     /\ audit' = audit \cup {[action |-> action, ns |-> ns]}
  \/ /\ AuditMayFail \/ ~Referable(ns)
     /\ UNCHANGED audit

-----------------------------------------------------------------------------
(* POST namespaces *)

\* Mutant of Full: off by one.
FullLate(count, limit) == count > limit

Full(count, limit) == count >= limit

CountNamespaces(r) ==
  /\ IF Full(Cardinality(Existing), MaxNamespaces)
     THEN Reply(r, "nsCount")
     ELSE Goto(r, "nsCount", "nsInsert") /\ UNCHANGED call
  /\ UNCHANGED tables

\* UNIQUE (vault_id, name): a second namespace of that name throws.
InsertNamespace(r) ==
  /\ IF \E i \in Existing : namespace[i] = call[r].name
     THEN Reply(r, "nsInsert") /\ UNCHANGED <<namespace, usedIds>>
     ELSE \E i \in NamespaceIds \ usedIds :
            /\ Goto(r, "nsInsert", "nsAudit")
            /\ namespace' = [namespace EXCEPT ![i] = call[r].name]
            /\ usedIds' = usedIds \cup {i}
            /\ call' = [call EXCEPT ![r] = [op |-> "deleteNs", ns |-> i]]
  /\ UNCHANGED <<apiKey, guardians, objects, audit>>

AuditNamespace(r) ==
  /\ Reply(r, "nsAudit") /\ LogRow("create_namespace", call[r].ns)
  /\ UNCHANGED <<namespace, usedIds, apiKey, guardians, objects>>

(* DELETE namespaces/:nsId *)

Protected(name) == name = "default"

LookupNamespace(r) ==
  /\ LET i == call[r].ns IN
     IF i \in Existing /\ ~Protected(namespace[i])
     THEN Goto(r, "delLookup", "delRow") /\ UNCHANGED call
     ELSE Reply(r, "delLookup")
  /\ UNCHANGED tables

\* Mutant of Blocked: no trigger on the audit log.
BlockedNever(i) == FALSE

\* DELETE ... WHERE id: ON DELETE SET NULL would update the audit rows of the
\* namespace, and the trigger refuses that, so the statement throws.  Without
\* such rows the objects go with it and the keys scoped to it lose the scope.
Blocked(i) == \E row \in audit : row.ns = i

DeleteNamespace(r) ==
  LET i == call[r].ns IN
  IF Blocked(i)
  THEN Reply(r, "delRow") /\ UNCHANGED tables
  ELSE /\ Goto(r, "delRow", "delAudit")
       /\ namespace' = [namespace EXCEPT ![i] = Null]
       /\ objects' = [objects EXCEPT ![i] = 0]
       /\ apiKey' = [k \in KeyIds |->
                       IF apiKey[k] # Null /\ apiKey[k].ns = i
                       THEN [apiKey[k] EXCEPT !.ns = Null] ELSE apiKey[k]]
       /\ audit' = {IF row.ns = i THEN [row EXCEPT !.ns = Null] ELSE row :
                      row \in audit}
       /\ UNCHANGED <<usedIds, guardians, call>>

AuditDelete(r) ==
  /\ Reply(r, "delAudit") /\ LogRow("delete_namespace", call[r].ns)
  /\ UNCHANGED <<namespace, usedIds, apiKey, guardians, objects>>

-----------------------------------------------------------------------------
(* POST api-keys and DELETE api-keys/:keyId *)

CountKeys(r) ==
  /\ IF Full(Cardinality(ActiveKeys), MaxApiKeys)
     THEN Reply(r, "keyCount")
     ELSE Goto(r, "keyCount", "keyInsert") /\ UNCHANGED call
  /\ UNCHANGED tables

\* namespace_id must exist, or the INSERT throws.
InsertKey(r) ==
  /\ IF Referable(call[r].ns)
     THEN /\ Goto(r, "keyInsert", "keyAudit") /\ UNCHANGED call
          /\ \E k \in KeyIds :
               /\ apiKey[k] = Null
               /\ apiKey' = [apiKey EXCEPT ![k] =
                               [ns |-> call[r].ns, revoked |-> FALSE]]
     ELSE Reply(r, "keyInsert") /\ UNCHANGED apiKey
  /\ UNCHANGED <<namespace, usedIds, guardians, objects, audit>>

AuditKey(r) ==
  /\ Reply(r, "keyAudit") /\ LogRow("create_api_key", Null)
  /\ UNCHANGED <<namespace, usedIds, apiKey, guardians, objects>>

\* One UPDATE: a handler of a single statement.
RevokeKey(k) ==
  /\ "revokeKey" \in Operations
  /\ k \in ActiveKeys /\ apiKey' = [apiKey EXCEPT ![k].revoked = TRUE]
  /\ UNCHANGED <<namespace, usedIds, guardians, objects, audit, pc, call>>

(* POST guardians: the INSERT takes body.guardianEncryptedMasterKey, which    *)
(* the schema of the body does not have; an undefined parameter throws.     *)

CountGuardians(r) ==
  /\ IF Full(Cardinality(guardians), MaxGuardians)
     THEN Reply(r, "guardCount")
     ELSE Goto(r, "guardCount", "guardInsert") /\ UNCHANGED call
  /\ UNCHANGED tables

InsertGuardian(r) == Reply(r, "guardInsert") /\ UNCHANGED tables

-----------------------------------------------------------------------------
(* The statements of a store that matter here (AgentObjects has them all):  *)
(* the row of one new object in the namespace the request has found, and    *)
(* its audit row.  A foreign key refuses the row of a namespace that went.  *)
InsertObject(r) ==
  LET i == call[r].ns IN
  /\ IF i \in Existing
     THEN /\ Goto(r, "objInsert", "objAudit") /\ UNCHANGED call
          /\ objects' = [objects EXCEPT ![i] = @ + 1]
     ELSE Reply(r, "objInsert") /\ UNCHANGED objects
  /\ UNCHANGED <<namespace, usedIds, apiKey, guardians, audit>>

AuditStore(r) ==
  /\ Reply(r, "objAudit") /\ LogRow("store", call[r].ns)
  /\ UNCHANGED <<namespace, usedIds, apiKey, guardians, objects>>

\* Bounds: a namespace or a key is created only if an id is left for it, an
\* object only if its namespace has room.
NamespaceIdLeft ==
  Cardinality(NamespaceIds \ usedIds) >
  Cardinality({r \in Requests : pc[r] \in {"nsCount", "nsInsert"}})
KeyIdLeft ==
  Cardinality({k \in KeyIds : apiKey[k] = Null}) >
  Cardinality({r \in Requests : pc[r] \in {"keyCount", "keyInsert"}})
ObjectLeft(i) ==
  objects[i] + Cardinality({r \in Requests : pc[r] = "objInsert"}) < MaxObjects

Request(r) ==
  \/ \E n \in Names : /\ NamespaceIdLeft
                      /\ Start(r, "nsCount", [op |-> "createNs", name |-> n])
  \/ \E i \in usedIds : Start(r, "delLookup", [op |-> "deleteNs", ns |-> i])
  \/ \E i \in usedIds \cup {Null} :
       KeyIdLeft /\ Start(r, "keyCount", [op |-> "createKey", ns |-> i])
  \/ \E u \in Users : Start(r, "guardCount", [op |-> "addGuardian", user |-> u])
  \/ \E i \in Existing :
       ObjectLeft(i) /\ Start(r, "objInsert", [op |-> "store", ns |-> i])

Statement(r) ==
  \/ pc[r] = "nsCount" /\ CountNamespaces(r)
  \/ pc[r] = "nsInsert" /\ InsertNamespace(r)
  \/ AuditNamespace(r)
  \/ pc[r] = "delLookup" /\ LookupNamespace(r)
  \/ pc[r] = "delRow" /\ DeleteNamespace(r)
  \/ AuditDelete(r)
  \/ CountKeys(r)
  \/ pc[r] = "keyInsert" /\ InsertKey(r)
  \/ AuditKey(r) \/ CountGuardians(r) \/ InsertGuardian(r)
  \/ pc[r] = "objInsert" /\ InsertObject(r)
  \/ AuditStore(r)

Next ==
  \/ \E r \in Requests : Request(r) \/ Statement(r)
  \/ \E k \in KeyIds : RevokeKey(k)

Spec == Init /\ [][Next]_vars

-----------------------------------------------------------------------------
(* Properties. *)

\* The type of every variable.
TypeOK ==
  /\ namespace \in [NamespaceIds -> Names \cup {Null}]
  /\ usedIds \subseteq NamespaceIds
  /\ apiKey \in [KeyIds -> KeyRow \cup {Null}]
  /\ guardians \subseteq Users
  /\ objects \in [NamespaceIds -> Nat]
  /\ audit \subseteq AuditRow
  /\ pc \in [Requests -> Labels] /\ call \in [Requests -> Call \cup {Null}]

\* The limits, which are counted in one statement and used up in another, are
\* passed by at most one row for each further concurrent request.
LimitsOvershootBounded ==
  /\ Cardinality(Existing) <= MaxNamespaces + Cardinality(Requests) - 1
  /\ Cardinality(ActiveKeys) <= MaxApiKeys + Cardinality(Requests) - 1

\* No row of the audit log ever changes or goes, whatever is deleted around
\* it, and the namespace each row names is still there.
AuditAppendOnly ==
  [][/\ audit \subseteq audit'
     /\ \A row \in audit' : row.ns # Null => namespace'[row.ns] # Null]_vars
=============================================================================
