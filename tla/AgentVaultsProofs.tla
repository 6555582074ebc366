-------------------------- MODULE AgentVaultsProofs --------------------------
(***************************************************************************)
(* Theorems about AgentVaults, for every set of concurrent requests, every *)
(* limit and every choice of operations.                                   *)
(***************************************************************************)
EXTENDS AgentVaults, FiniteSetTheorems, TLAPS

-----------------------------------------------------------------------------
(* Typing. *)

\* The arguments a request has at each of its statements.
Progress(r) ==
  /\ pc[r] \in {"nsCount", "nsInsert"} =>
       call[r] \in [op: {"createNs"}, name: Names]
  /\ pc[r] \in {"nsAudit", "delLookup", "delRow", "delAudit"} =>
       call[r] \in [op: {"deleteNs"}, ns: NamespaceIds]
  /\ pc[r] \in {"keyCount", "keyInsert", "keyAudit"} =>
       call[r] \in [op: {"createKey"}, ns: NamespaceIds \cup {Null}]
  /\ pc[r] \in {"objInsert", "objAudit"} =>
       call[r] \in [op: {"store"}, ns: NamespaceIds]

TypeInv == TypeOK /\ \A r \in Requests : Progress(r)

LEMMA TypeInit == Init => TypeInv
<1> SUFFICES ASSUME Init PROVE TypeInv
  OBVIOUS
<1> USE VaultsAssumption
<1>1. guardians \subseteq Users
  BY DEF Init
<1>2. namespace \in [NamespaceIds -> Names \cup {Null}] /\ usedIds \subseteq NamespaceIds
  BY DEF Init, FirstNamespace
<1>3. apiKey \in [KeyIds -> KeyRow \cup {Null}]
  BY DEF Init, FirstKey, KeyRow
<1>4. QED
  BY <1>1, <1>2, <1>3 DEF Init, TypeInv, TypeOK, Progress, Labels

\* The audit log takes rows of its type only.
LEMMA LogTyped ==
  ASSUME TypeInv, NEW ns \in NamespaceIds \cup {Null},
         NEW action \in {"create_namespace", "store", "create_api_key",
                         "delete_namespace"},
         LogRow(action, ns)
  PROVE  audit' \subseteq AuditRow
  BY DEF TypeInv, TypeOK, LogRow, AuditRow

LEMMA OneRequestMoves ==
  ASSUME TypeInv, NEW r \in Requests, TypeOK', Progress(r)',
         \A q \in Requests \ {r} : pc'[q] = pc[q] /\ call'[q] = call[q]
  PROVE  TypeInv'
  BY DEF TypeInv, Progress

LEMMA TypeStep == TypeInv /\ [Next]_vars => TypeInv'
<1> SUFFICES ASSUME TypeInv, [Next]_vars PROVE TypeInv'
  OBVIOUS
<1> USE VaultsAssumption
<1> DEFINE Tables ==
      /\ namespace \in [NamespaceIds -> Names \cup {Null}]
      /\ usedIds \subseteq NamespaceIds
      /\ apiKey \in [KeyIds -> KeyRow \cup {Null}]
      /\ guardians \subseteq Users
      /\ objects \in [NamespaceIds -> Nat]
      /\ audit \subseteq AuditRow
<1>0. Tables /\ \A r \in Requests : Progress(r)
  BY DEF TypeInv, TypeOK
<1>a. ASSUME NEW r \in Requests, NEW from, Reply(r, from), Tables' PROVE TypeInv'
  <2>1. TypeOK' /\ Progress(r)'
    BY <1>a DEF TypeInv, TypeOK, Reply, Goto, Progress, Labels
  <2>2. QED
    BY <1>a, <2>1, OneRequestMoves DEF Reply, Goto, TypeInv, TypeOK
<1>b. ASSUME NEW r \in Requests, NEW from, NEW to \in Labels, Goto(r, from, to),
             UNCHANGED call \/ \E c \in Call : call' = [call EXCEPT ![r] = c],
             Progress(r)', Tables'
      PROVE  TypeInv'
  <2>1. TypeOK'
    BY <1>b DEF TypeInv, TypeOK, Goto
  <2>2. QED
    BY <1>b, <2>1, OneRequestMoves DEF Goto, TypeInv, TypeOK
<1>1. ASSUME NEW r \in Requests, Request(r) PROVE TypeInv'
  <2>1. ASSUME NEW c \in Call, NEW to \in Labels, Start(r, to, c),
               \/ to = "nsCount" /\ c \in [op: {"createNs"}, name: Names]
               \/ to = "delLookup" /\ c \in [op: {"deleteNs"}, ns: NamespaceIds]
               \/ to = "keyCount" /\ c \in [op: {"createKey"},
                                            ns: NamespaceIds \cup {Null}]
               \/ to = "guardCount"
               \/ to = "objInsert" /\ c \in [op: {"store"}, ns: NamespaceIds]
        PROVE  TypeInv'
    <3>1. Progress(r)'
      BY <2>1 DEF Start, Goto, TypeInv, TypeOK, Progress
    <3>2. Tables'
      BY <1>0, <2>1 DEF Start, tables
    <3>3. QED
      BY <1>b, <2>1, <3>1, <3>2 DEF Start
  <2>2. CASE \E n \in Names :
               Start(r, "nsCount", [op |-> "createNs", name |-> n])
    BY <2>1, <2>2 DEF Call, Labels
  <2>3. CASE \E i \in usedIds :
               Start(r, "delLookup", [op |-> "deleteNs", ns |-> i])
    BY <1>0, <2>1, <2>3 DEF Call, Labels
  <2>4. CASE \E i \in usedIds \cup {Null} :
               Start(r, "keyCount", [op |-> "createKey", ns |-> i])
    BY <1>0, <2>1, <2>4 DEF Call, Labels
  <2>5. CASE \E u \in Users :
               Start(r, "guardCount", [op |-> "addGuardian", user |-> u])
    BY <2>1, <2>5 DEF Call, Labels
  <2>6. CASE \E i \in Existing : Start(r, "objInsert", [op |-> "store", ns |-> i])
    BY <2>1, <2>6 DEF Call, Labels, Existing
  <2>7. QED
    BY <1>1, <2>2, <2>3, <2>4, <2>5, <2>6 DEF Request
<1>2. ASSUME NEW r \in Requests, pc[r] = "nsCount", CountNamespaces(r)
      PROVE  TypeInv'
  BY <1>0, <1>2, <1>a, <1>b
  DEF CountNamespaces, tables, Goto, Progress, TypeInv, TypeOK, Labels
<1>3. ASSUME NEW r \in Requests, pc[r] = "nsInsert", InsertNamespace(r)
      PROVE  TypeInv'
  <2>1. CASE UNCHANGED <<namespace, usedIds>> /\ Reply(r, "nsInsert")
    BY <1>0, <1>3, <1>a, <2>1 DEF InsertNamespace
  <2>2. CASE ~(UNCHANGED <<namespace, usedIds>> /\ Reply(r, "nsInsert"))
    <3>1. PICK i \in NamespaceIds \ usedIds :
            /\ Goto(r, "nsInsert", "nsAudit")
            /\ namespace' = [namespace EXCEPT ![i] = call[r].name]
            /\ usedIds' = usedIds \cup {i}
            /\ call' = [call EXCEPT ![r] = [op |-> "deleteNs", ns |-> i]]
      BY <1>3, <2>2 DEF InsertNamespace
    <3>2. call[r].name \in Names
      BY <1>0, <1>3 DEF Progress
    <3>3. Tables'
      BY <1>0, <1>3, <3>1, <3>2 DEF InsertNamespace
    <3>4. [op |-> "deleteNs", ns |-> i] \in Call
      BY DEF Call
    <3>5. Progress(r)'
      BY <3>1 DEF Goto, Progress, TypeInv, TypeOK
    <3>6. QED
      BY <1>b, <3>1, <3>3, <3>4, <3>5 DEF Labels
  <2>3. QED
    BY <2>1, <2>2
<1>4. ASSUME NEW r \in Requests, AuditNamespace(r) \/ AuditDelete(r)
      PROVE  TypeInv'
  <2>1. call[r].ns \in NamespaceIds
    BY <1>0, <1>4 DEF Progress, AuditNamespace, AuditDelete, Reply, Goto
  <2>2. Tables'
    BY <1>0, <1>4, <2>1, LogTyped DEF AuditNamespace, AuditDelete
  <2>3. QED
    BY <1>4, <1>a, <2>2 DEF AuditNamespace, AuditDelete
<1>5. ASSUME NEW r \in Requests, pc[r] = "delLookup", LookupNamespace(r)
      PROVE  TypeInv'
  BY <1>0, <1>5, <1>a, <1>b
  DEF LookupNamespace, tables, Goto, Progress, TypeInv, TypeOK, Labels
<1>6. ASSUME NEW r \in Requests, pc[r] = "delRow", DeleteNamespace(r)
      PROVE  TypeInv'
  <2>0. call[r].ns \in NamespaceIds
    BY <1>0, <1>6 DEF Progress
  <2>1. CASE Blocked(call[r].ns)
    BY <1>0, <1>6, <1>a, <2>1 DEF DeleteNamespace, tables
  <2>2. CASE ~Blocked(call[r].ns)
    <3>1. \A row \in KeyRow : [row EXCEPT !.ns = Null] \in KeyRow
      BY DEF KeyRow
    <3>2. \A row \in AuditRow : [row EXCEPT !.ns = Null] \in AuditRow
      BY DEF AuditRow
    <3>3. apiKey' \in [KeyIds -> KeyRow \cup {Null}]
      BY <1>0, <1>6, <2>2, <3>1 DEF DeleteNamespace
    <3>4. audit' \subseteq AuditRow
      BY <1>0, <1>6, <2>2, <3>2 DEF DeleteNamespace
    <3>5. Tables'
      BY <1>0, <1>6, <2>0, <2>2, <3>3, <3>4 DEF DeleteNamespace
    <3>6. Progress(r)'
      BY <1>0, <1>6, <2>2 DEF DeleteNamespace, Goto, Progress, TypeInv, TypeOK
    <3>7. QED
      BY <1>6, <1>b, <2>2, <3>5, <3>6 DEF DeleteNamespace, Labels
  <2>3. QED
    BY <2>1, <2>2
<1>7. ASSUME NEW r \in Requests, CountKeys(r) PROVE TypeInv'
  BY <1>0, <1>7, <1>a, <1>b
  DEF CountKeys, tables, Goto, Progress, TypeInv, TypeOK, Labels
<1>8. ASSUME NEW r \in Requests, pc[r] = "keyInsert", InsertKey(r)
      PROVE  TypeInv'
  <2>1. [ns |-> call[r].ns, revoked |-> FALSE] \in KeyRow
    BY <1>0, <1>8 DEF Progress, KeyRow
  <2>2. Tables'
    BY <1>0, <1>8, <2>1 DEF InsertKey
  <2>3. QED
    BY <1>0, <1>8, <1>a, <1>b, <2>2
    DEF InsertKey, Goto, Progress, TypeInv, TypeOK, Labels
<1>9. ASSUME NEW r \in Requests, AuditKey(r) PROVE TypeInv'
  BY <1>0, <1>9, <1>a, LogTyped DEF AuditKey
<1>10. ASSUME NEW r \in Requests, CountGuardians(r) \/ InsertGuardian(r)
       PROVE  TypeInv'
  BY <1>0, <1>10, <1>a, <1>b
  DEF CountGuardians, InsertGuardian, tables, Goto, Progress, TypeInv, TypeOK,
      Labels
<1>11. ASSUME NEW k \in KeyIds, RevokeKey(k) PROVE TypeInv'
  <2>1. apiKey[k] \in KeyRow /\ [apiKey[k] EXCEPT !.revoked = TRUE] \in KeyRow
    BY <1>0, <1>11 DEF RevokeKey, ActiveKeys, KeyRow
  <2>2. QED
    BY <1>0, <1>11, <2>1 DEF RevokeKey, TypeInv, TypeOK, Progress
<1>12. ASSUME NEW r \in Requests,
              (pc[r] = "objInsert" /\ InsertObject(r)) \/ AuditStore(r)
       PROVE  TypeInv'
  <2>1. call[r] \in [op: {"store"}, ns: NamespaceIds]
    BY <1>0, <1>12 DEF Progress, AuditStore, Reply, Goto
  <2>2. CASE pc[r] = "objInsert" /\ InsertObject(r)
    <3>1. Tables'
      BY <1>0, <2>1, <2>2 DEF InsertObject
    <3>2. QED
      BY <1>0, <1>a, <1>b, <2>2, <3>1
      DEF InsertObject, Goto, Progress, TypeInv, TypeOK, Labels
  <2>3. CASE AuditStore(r)
    BY <1>0, <1>a, <2>1, <2>3, LogTyped DEF AuditStore
  <2>4. QED
    BY <1>12, <2>2, <2>3
<1>13. ASSUME UNCHANGED vars PROVE TypeInv'
  BY <1>13 DEF vars, TypeInv, TypeOK, Progress
<1>14. QED
  BY <1>1, <1>2, <1>3, <1>4, <1>5, <1>6, <1>7, <1>8, <1>9, <1>10, <1>11,
     <1>12, <1>13
  DEF Next, Statement

\* Every variable keeps its type.
THEOREM TypeSafe == Spec => []TypeOK
<1>1. TypeInv => TypeOK
  BY DEF TypeInv
<1>2. QED
  BY TypeInit, TypeStep, <1>1, PTL DEF Spec

-----------------------------------------------------------------------------
(* The audit log. *)

\* The foreign key of the audit log.
AuditRefers == \A row \in audit : row.ns # Null => namespace[row.ns] # Null

\* An insertion into the log names nothing, or a namespace that is there.
LEMMA LogRefers ==
  ASSUME TypeInv, AuditRefers, NEW action, NEW ns, LogRow(action, ns),
         UNCHANGED namespace
  PROVE  audit \subseteq audit' /\ AuditRefers'
  BY DEF AuditRefers, LogRow, Referable, Existing

LEMMA AuditStep ==
  TypeInv /\ AuditRefers /\ [Next]_vars => audit \subseteq audit' /\ AuditRefers'
<1> SUFFICES ASSUME TypeInv, AuditRefers, [Next]_vars
             PROVE  audit \subseteq audit' /\ AuditRefers'
  OBVIOUS
<1> USE VaultsAssumption
<1>0. ASSUME UNCHANGED <<namespace, audit>>
      PROVE  audit \subseteq audit' /\ AuditRefers'
  BY <1>0 DEF AuditRefers
<1>1. ASSUME NEW r \in Requests, pc[r] = "nsInsert", InsertNamespace(r)
      PROVE  audit \subseteq audit' /\ AuditRefers'
  <2>1. call[r].name \in Names
    BY <1>1 DEF TypeInv, Progress
  <2>2. \A i \in NamespaceIds : namespace[i] # Null => namespace'[i] # Null
    BY <1>1, <2>1 DEF InsertNamespace, TypeInv, TypeOK
  <2>3. \A row \in audit : row.ns \in NamespaceIds \cup {Null}
    BY DEF TypeInv, TypeOK, AuditRow
  <2>4. QED
    BY <1>1, <2>2, <2>3 DEF InsertNamespace, AuditRefers
<1>2. ASSUME NEW r \in Requests, pc[r] = "delRow", DeleteNamespace(r)
      PROVE  audit \subseteq audit' /\ AuditRefers'
  <2>1. CASE Blocked(call[r].ns)
    BY <1>0, <1>2, <2>1 DEF DeleteNamespace, tables
  <2>2. CASE ~Blocked(call[r].ns)
    <3>1. /\ namespace' = [namespace EXCEPT ![call[r].ns] = Null]
          /\ audit' = {IF row.ns = call[r].ns THEN [row EXCEPT !.ns = Null]
                                              ELSE row : row \in audit}
      BY <1>2, <2>2 DEF DeleteNamespace
    <3>2. \A row \in audit : row.ns # call[r].ns
      BY <2>2 DEF Blocked
    <3>3. audit' = audit
      BY <3>1, <3>2
    <3>4. \A row \in audit : row.ns \in NamespaceIds \cup {Null}
      BY DEF TypeInv, TypeOK, AuditRow
    <3>5. QED
      BY <3>1, <3>2, <3>3, <3>4 DEF AuditRefers, TypeInv, TypeOK
  <2>3. QED
    BY <2>1, <2>2
<1>3. ASSUME NEW r \in Requests,
             \/ AuditNamespace(r) \/ AuditDelete(r) \/ AuditKey(r)
             \/ AuditStore(r)
      PROVE  audit \subseteq audit' /\ AuditRefers'
  BY <1>3, LogRefers DEF AuditNamespace, AuditDelete, AuditKey, AuditStore
<1>5. ASSUME NEW r \in Requests,
             \/ CountNamespaces(r) \/ LookupNamespace(r) \/ CountKeys(r)
             \/ InsertKey(r) \/ CountGuardians(r) \/ InsertGuardian(r)
             \/ InsertObject(r)
      PROVE  UNCHANGED <<namespace, audit>>
  BY <1>5 DEF CountNamespaces, LookupNamespace, CountKeys, InsertKey,
              CountGuardians, InsertGuardian, InsertObject, tables
<1>6. QED
  BY <1>0, <1>1, <1>2, <1>3, <1>5
  DEF Next, Request, Statement, Start, tables, RevokeKey, vars

\* Whatever namespaces are created and deleted around it, the audit log only
\* ever grows, and no row of it loses its namespace.
THEOREM AuditAppendOnlySafe == Spec => AuditAppendOnly
<1>1. Init => AuditRefers
  BY DEF Init, AuditRefers
<1>2. AuditRefers' => (\A row \in audit' : row.ns # Null => namespace'[row.ns] # Null)
  BY DEF AuditRefers
<1>3. QED
  BY TypeInit, TypeStep, AuditStep, <1>1, <1>2, PTL DEF Spec, AuditAppendOnly

-----------------------------------------------------------------------------
(* The limits. *)

\* Requests that have counted and not yet inserted.
NamespaceInserters == {r \in Requests : pc[r] = "nsInsert"}
KeyInserters == {r \in Requests : pc[r] = "keyInsert"}

\* Those count as if they had inserted: the last one to count saw less than
\* the limit, and all others may have counted before it.
LimitsInv ==
  /\ Cardinality(Existing) + Cardinality(NamespaceInserters)
       <= MaxNamespaces + Cardinality(Requests) - 1
  /\ Cardinality(ActiveKeys) + Cardinality(KeyInserters)
       <= MaxApiKeys + Cardinality(Requests) - 1

\* One element may move from the second set to the first.
LEMMA SumKept ==
  ASSUME NEW A, NEW B, NEW A1, NEW B1, IsFiniteSet(A), IsFiniteSet(B),
         \/ A1 \subseteq A /\ B1 \subseteq B
         \/ \E x, r : A1 \subseteq A \cup {x} /\ r \in B /\ B1 \subseteq B \ {r}
  PROVE  /\ Cardinality(A) \in Nat /\ Cardinality(B) \in Nat
         /\ Cardinality(A1) \in Nat /\ Cardinality(B1) \in Nat
         /\ Cardinality(A1) + Cardinality(B1) <= Cardinality(A) + Cardinality(B)
<1>0. Cardinality(A) \in Nat /\ Cardinality(B) \in Nat
  BY FS_CardinalityType
<1>1. CASE A1 \subseteq A /\ B1 \subseteq B
  <2>1. /\ Cardinality(A1) <= Cardinality(A) /\ IsFiniteSet(A1)
        /\ Cardinality(B1) <= Cardinality(B) /\ IsFiniteSet(B1)
    BY <1>1, FS_Subset
  <2>2. Cardinality(A1) \in Nat /\ Cardinality(B1) \in Nat
    BY <2>1, FS_CardinalityType
  <2>3. QED
    BY <1>0, <2>1, <2>2
<1>2. CASE \E x, r : A1 \subseteq A \cup {x} /\ r \in B /\ B1 \subseteq B \ {r}
  <2>0. PICK x, r : A1 \subseteq A \cup {x} /\ r \in B /\ B1 \subseteq B \ {r}
    BY <1>2
  <2>1. /\ IsFiniteSet(A \cup {x})
        /\ Cardinality(A \cup {x}) = Cardinality(A)
             \/ Cardinality(A \cup {x}) = Cardinality(A) + 1
    BY FS_AddElement
  <2>2. /\ IsFiniteSet(B \ {r}) /\ Cardinality(B \ {r}) = Cardinality(B) - 1
    BY <2>0, FS_RemoveElement
  <2>3. /\ Cardinality(A1) <= Cardinality(A \cup {x}) /\ IsFiniteSet(A1)
        /\ Cardinality(B1) <= Cardinality(B \ {r}) /\ IsFiniteSet(B1)
    BY <2>0, <2>1, <2>2, FS_Subset
  <2>4. Cardinality(A1) \in Nat /\ Cardinality(B1) \in Nat
    BY <2>3, FS_CardinalityType
  <2>5. QED
    BY <1>0, <2>1, <2>2, <2>3, <2>4
<1>3. QED
  BY <1>1, <1>2

LEMMA SetsFinite ==
  /\ IsFiniteSet(Existing) /\ IsFiniteSet(NamespaceInserters)
  /\ IsFiniteSet(ActiveKeys) /\ IsFiniteSet(KeyInserters)
  /\ Cardinality(Requests) \in Nat
<1>1. /\ Existing \subseteq NamespaceIds /\ ActiveKeys \subseteq KeyIds
      /\ NamespaceInserters \subseteq Requests /\ KeyInserters \subseteq Requests
  BY DEF Existing, ActiveKeys, NamespaceInserters, KeyInserters
<1>2. QED
  BY <1>1, VaultsAssumption, FS_Subset, FS_CardinalityType

\* Who passes a count below the limit finds room for every request at work.
LEMMA RoomFound ==
  ASSUME NEW S, NEW T, NEW Limit \in Nat, IsFiniteSet(S), T \subseteq Requests,
         ~Full(Cardinality(S), Limit)
  PROVE  Cardinality(S) + Cardinality(T) <= Limit + Cardinality(Requests) - 1
<1>1. /\ Cardinality(T) <= Cardinality(Requests) /\ Cardinality(T) \in Nat
      /\ Cardinality(Requests) \in Nat /\ Cardinality(S) \in Nat
  BY VaultsAssumption, FS_Subset, FS_CardinalityType
<1>2. QED
  BY <1>1 DEF Full

LEMMA LimitsInit == Init => LimitsInv
<1> SUFFICES ASSUME Init PROVE LimitsInv
  OBVIOUS
<1>1. PICK i \in NamespaceIds, k \in KeyIds :
        Existing \subseteq {i} /\ ActiveKeys \subseteq {k}
  BY DEF Init, FirstNamespace, FirstKey, Existing, ActiveKeys
<1>2. NamespaceInserters = {} /\ KeyInserters = {}
  BY DEF Init, NamespaceInserters, KeyInserters
<1>3. /\ Cardinality({i}) = 1 /\ IsFiniteSet({i})
      /\ Cardinality({k}) = 1 /\ IsFiniteSet({k})
  BY FS_Singleton
<1>4. /\ Cardinality(Existing) <= 1 /\ Cardinality(ActiveKeys) <= 1
      /\ Cardinality(Existing) \in Nat /\ Cardinality(ActiveKeys) \in Nat
  BY <1>1, <1>3, SetsFinite, FS_Subset, FS_CardinalityType
<1>5. Cardinality(Requests) >= 1
  BY VaultsAssumption, FS_EmptySet, FS_CardinalityType
<1>6. Cardinality(NamespaceInserters) = 0 /\ Cardinality(KeyInserters) = 0
  BY <1>2, FS_EmptySet
<1>7. QED
  BY <1>4, <1>5, <1>6, SetsFinite, VaultsAssumption DEF LimitsInv

\* What a step does to each of the two counts.
NamespaceRoomKept ==
  \/ Existing' \subseteq Existing /\ NamespaceInserters' \subseteq NamespaceInserters
  \/ \E i, r : /\ Existing' \subseteq Existing \cup {i} /\ r \in NamespaceInserters
               /\ NamespaceInserters' \subseteq NamespaceInserters \ {r}
  \/ ~Full(Cardinality(Existing), MaxNamespaces) /\ Existing' = Existing

KeyRoomKept ==
  \/ ActiveKeys' \subseteq ActiveKeys /\ KeyInserters' \subseteq KeyInserters
  \/ \E k, r : /\ ActiveKeys' \subseteq ActiveKeys \cup {k} /\ r \in KeyInserters
               /\ KeyInserters' \subseteq KeyInserters \ {r}
  \/ ~Full(Cardinality(ActiveKeys), MaxApiKeys) /\ ActiveKeys' = ActiveKeys

LEMMA RoomKept == TypeInv /\ [Next]_vars => NamespaceRoomKept /\ KeyRoomKept
<1> SUFFICES ASSUME TypeInv, [Next]_vars
             PROVE  NamespaceRoomKept /\ KeyRoomKept
  OBVIOUS
<1> USE DEF NamespaceInserters, KeyInserters
<1>a. ASSUME UNCHANGED namespace PROVE Existing' = Existing
  BY <1>a DEF Existing
<1>b. ASSUME UNCHANGED apiKey PROVE ActiveKeys' = ActiveKeys
  BY <1>b DEF ActiveKeys
<1>c. ASSUME NEW r \in Requests, NEW from, NEW to, Goto(r, from, to)
      PROVE  /\ to # "nsInsert" => NamespaceInserters' \subseteq NamespaceInserters
             /\ to # "keyInsert" => KeyInserters' \subseteq KeyInserters
             /\ from = "nsInsert" /\ to # from =>
                  r \in NamespaceInserters
                  /\ NamespaceInserters' \subseteq NamespaceInserters \ {r}
             /\ from = "keyInsert" /\ to # from =>
                  r \in KeyInserters /\ KeyInserters' \subseteq KeyInserters \ {r}
  BY <1>c DEF Goto, TypeInv, TypeOK
<1>1. ASSUME NEW r \in Requests, Request(r) PROVE NamespaceRoomKept /\ KeyRoomKept
  BY <1>1, <1>a, <1>b, <1>c
  DEF Request, Start, tables, NamespaceRoomKept, KeyRoomKept
<1>2. ASSUME NEW r \in Requests, CountNamespaces(r)
      PROVE  NamespaceRoomKept /\ KeyRoomKept
  BY <1>2, <1>a, <1>b, <1>c
  DEF CountNamespaces, Reply, tables, NamespaceRoomKept, KeyRoomKept
<1>3. ASSUME NEW r \in Requests, InsertNamespace(r)
      PROVE  NamespaceRoomKept /\ KeyRoomKept
  <2>1. KeyRoomKept
    BY <1>3, <1>b, <1>c DEF InsertNamespace, Reply, KeyRoomKept
  <2>2. PICK i : Existing' \subseteq Existing \cup {i}
    BY <1>3 DEF InsertNamespace, Existing, TypeInv, TypeOK
  <2>3. QED
    BY <1>3, <1>c, <2>1, <2>2 DEF InsertNamespace, Reply, NamespaceRoomKept
<1>4. ASSUME NEW r \in Requests, DeleteNamespace(r)
      PROVE  NamespaceRoomKept /\ KeyRoomKept
  <2>1. Existing' \subseteq Existing
    BY <1>4, VaultsAssumption
    DEF DeleteNamespace, tables, Existing, TypeInv, TypeOK
  <2>2. \A row \in KeyRow : /\ [row EXCEPT !.ns = Null] \in KeyRow
                            /\ [row EXCEPT !.ns = Null].revoked = row.revoked
    BY DEF KeyRow
  <2>3. ActiveKeys' \subseteq ActiveKeys
    <3>1. CASE UNCHANGED apiKey
      BY <1>b, <3>1
    <3>2. CASE ~UNCHANGED apiKey
      <4>1. \A k \in KeyIds : /\ apiKey'[k] # Null => apiKey[k] # Null
                              /\ apiKey[k] # Null =>
                                   apiKey'[k].revoked = apiKey[k].revoked
        <5>1. apiKey' = [k \in KeyIds |->
                           IF apiKey[k] # Null /\ apiKey[k].ns = call[r].ns
                           THEN [apiKey[k] EXCEPT !.ns = Null] ELSE apiKey[k]]
          BY <1>4, <3>2 DEF DeleteNamespace, tables
        <5>2. \A k \in KeyIds : apiKey[k] # Null => apiKey[k] \in KeyRow
          BY DEF TypeInv, TypeOK
        <5>3. QED
          BY <2>2, <5>1, <5>2
      <4>2. QED
        BY <4>1 DEF ActiveKeys
    <3>3. QED
      BY <3>1, <3>2
  <2>4. QED
    BY <1>4, <1>c, <2>1, <2>3
    DEF DeleteNamespace, Reply, NamespaceRoomKept, KeyRoomKept
<1>5. ASSUME NEW r \in Requests, CountKeys(r)
      PROVE  NamespaceRoomKept /\ KeyRoomKept
  BY <1>5, <1>a, <1>b, <1>c
  DEF CountKeys, Reply, tables, NamespaceRoomKept, KeyRoomKept
<1>6. ASSUME NEW r \in Requests, InsertKey(r)
      PROVE  NamespaceRoomKept /\ KeyRoomKept
  <2>1. NamespaceRoomKept
    BY <1>6, <1>a, <1>c DEF InsertKey, Reply, NamespaceRoomKept
  <2>2. PICK k : ActiveKeys' \subseteq ActiveKeys \cup {k}
    BY <1>6 DEF InsertKey, ActiveKeys, TypeInv, TypeOK
  <2>3. QED
    BY <1>6, <1>c, <2>1, <2>2 DEF InsertKey, Reply, KeyRoomKept
<1>7. ASSUME NEW r \in Requests,
             \/ AuditNamespace(r) \/ AuditDelete(r) \/ AuditKey(r)
             \/ LookupNamespace(r) \/ CountGuardians(r) \/ InsertGuardian(r)
             \/ InsertObject(r) \/ AuditStore(r)
      PROVE  NamespaceRoomKept /\ KeyRoomKept
  BY <1>7, <1>a, <1>b, <1>c
  DEF AuditNamespace, AuditDelete, AuditKey, LookupNamespace, CountGuardians,
      InsertGuardian, InsertObject, AuditStore, Reply, tables,
      NamespaceRoomKept, KeyRoomKept
<1>8. ASSUME NEW k \in KeyIds, RevokeKey(k) PROVE NamespaceRoomKept /\ KeyRoomKept
  <2>1. ActiveKeys' \subseteq ActiveKeys
    BY <1>8 DEF RevokeKey, ActiveKeys, TypeInv, TypeOK
  <2>2. QED
    BY <1>8, <1>a, <2>1 DEF RevokeKey, NamespaceRoomKept, KeyRoomKept
<1>9. ASSUME UNCHANGED vars
      PROVE  NamespaceRoomKept /\ KeyRoomKept
  BY <1>9, <1>a, <1>b
  DEF vars, NamespaceRoomKept, KeyRoomKept
<1>10. QED
  BY <1>1, <1>2, <1>3, <1>4, <1>5, <1>6, <1>7, <1>8, <1>9 DEF Next, Statement

LEMMA LimitsStep == TypeInv /\ LimitsInv /\ [Next]_vars => LimitsInv'
<1> SUFFICES ASSUME TypeInv, LimitsInv, [Next]_vars PROVE LimitsInv'
  OBVIOUS
<1>0. NamespaceRoomKept /\ KeyRoomKept /\ MaxNamespaces \in Nat /\ MaxApiKeys \in Nat
  BY RoomKept, VaultsAssumption
<1>1. Cardinality(Existing)' + Cardinality(NamespaceInserters)'
        <= MaxNamespaces + Cardinality(Requests) - 1
  <2>1. CASE ~Full(Cardinality(Existing), MaxNamespaces) /\ Existing' = Existing
    <3>1. NamespaceInserters' \subseteq Requests
      BY DEF NamespaceInserters
    <3>2. QED
      BY <1>0, <2>1, <3>1, SetsFinite, RoomFound
  <2>2. CASE ~(~Full(Cardinality(Existing), MaxNamespaces) /\ Existing' = Existing)
    <3>1. /\ Cardinality(Existing) \in Nat /\ Cardinality(NamespaceInserters) \in Nat
          /\ Cardinality(Existing') \in Nat /\ Cardinality(NamespaceInserters') \in Nat
          /\ Cardinality(Existing') + Cardinality(NamespaceInserters')
               <= Cardinality(Existing) + Cardinality(NamespaceInserters)
      BY <1>0, <2>2, SetsFinite, SumKept DEF NamespaceRoomKept
    <3>2. QED
      BY <1>0, <3>1, SetsFinite DEF LimitsInv
  <2>3. QED
    BY <2>1, <2>2
<1>2. Cardinality(ActiveKeys)' + Cardinality(KeyInserters)'
        <= MaxApiKeys + Cardinality(Requests) - 1
  <2>1. CASE ~Full(Cardinality(ActiveKeys), MaxApiKeys) /\ ActiveKeys' = ActiveKeys
    <3>1. KeyInserters' \subseteq Requests
      BY DEF KeyInserters
    <3>2. QED
      BY <1>0, <2>1, <3>1, SetsFinite, RoomFound
  <2>2. CASE ~(~Full(Cardinality(ActiveKeys), MaxApiKeys) /\ ActiveKeys' = ActiveKeys)
    <3>1. /\ Cardinality(ActiveKeys) \in Nat /\ Cardinality(KeyInserters) \in Nat
          /\ Cardinality(ActiveKeys') \in Nat /\ Cardinality(KeyInserters') \in Nat
          /\ Cardinality(ActiveKeys') + Cardinality(KeyInserters')
               <= Cardinality(ActiveKeys) + Cardinality(KeyInserters)
      BY <1>0, <2>2, SetsFinite, SumKept DEF KeyRoomKept
    <3>2. QED
      BY <1>0, <3>1, SetsFinite DEF LimitsInv
  <2>3. QED
    BY <2>1, <2>2
<1>3. QED
  BY <1>1, <1>2 DEF LimitsInv

\* However many requests count before any of them inserts, a limit is passed
\* by fewer rows than there are concurrent requests.
THEOREM LimitsOvershootBoundedSafe == Spec => []LimitsOvershootBounded
<1>1. LimitsInv => LimitsOvershootBounded
  <2>1. /\ Cardinality(Existing) \in Nat /\ Cardinality(NamespaceInserters) \in Nat
        /\ Cardinality(ActiveKeys) \in Nat /\ Cardinality(KeyInserters) \in Nat
    BY SetsFinite, FS_CardinalityType
  <2>2. QED
    BY <2>1, SetsFinite, VaultsAssumption DEF LimitsInv, LimitsOvershootBounded
<1>2. QED
  BY TypeInit, TypeStep, LimitsInit, LimitsStep, <1>1, PTL DEF Spec
=============================================================================
