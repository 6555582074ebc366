-------------------------- MODULE VaultSetupProofs --------------------------
(***************************************************************************)
(* Theorems about VaultSetup, for every set of concurrent requests, owners *)
(* and names, with and without requests that stop half-way.                *)
(***************************************************************************)
EXTENDS VaultSetup, TLAPS

Labels == {"idle", "tx", "vault", "namespace", "key", "answer"}

-----------------------------------------------------------------------------
(* Typing. *)

LEMMA TypeInit == Init => TypeOK
  BY DEF Init, TypeOK

LEMMA ReplyTyped ==
  ASSUME TypeOK, NEW r \in Requests, NEW from, Reply(r, from)
  PROVE  /\ pc' \in [Requests -> Labels]
         /\ call' \in [Requests -> Row \cup {Null}]
         /\ made' \in [Requests -> VaultIds \cup {Null}]
  BY DEF TypeOK, Reply, Goto, Labels

\* A request that runs has its arguments, for the route whose statement it
\* runs; it has a vault from the insertion on, which is the one asked for.
Progress(r) ==
  /\ pc[r] # "idle" => call[r] \in Row
  /\ pc[r] = "tx" => call[r].route = "create"
  /\ pc[r] \in {"vault", "namespace"} => call[r].route = "register"
  /\ pc[r] \in {"idle", "tx", "vault"} => made[r] = Null
  /\ pc[r] \in {"namespace", "key", "answer"} =>
       made[r] \in VaultIds /\ vault[made[r]] = call[r]

\* The assumption about the constants goes along.
TypeInv == SetupAssumption /\ TypeOK /\ \A r \in Requests : Progress(r)

LEMMA InvInit == SetupAssumption /\ Init => TypeInv
  BY TypeInit DEF Init, TypeInv, Progress, SetupAssumption

\* Rows stay; the one that is inserted gets an id that had none.
LEMMA InsertFresh ==
  ASSUME TypeInv, NEW r \in Requests, call[r] \in Row, Insert(r)
  PROVE  /\ vault' \in [VaultIds -> Row \cup {Null}]
         /\ made' \in [Requests -> VaultIds \cup {Null}]
         /\ made'[r] \in VaultIds /\ vault[made'[r]] = Null
         /\ vault'[made'[r]] = call[r]
         /\ \A v \in VaultIds \ {made'[r]} : vault'[v] = vault[v]
         /\ \A q \in Requests \ {r} : made'[q] = made[q]
         /\ \A v \in VaultIds : vault[v] # Null => vault'[v] = vault[v]
  BY DEF TypeInv, TypeOK, Insert

\* A step moves one request, and keeps the rows that are there.
LEMMA OneRequestMoves ==
  ASSUME TypeInv, NEW r \in Requests, TypeOK', Progress(r)',
         \A q \in Requests \ {r} :
           pc'[q] = pc[q] /\ call'[q] = call[q] /\ made'[q] = made[q],
         \A v \in VaultIds : vault[v] # Null => vault'[v] = vault[v]
  PROVE  TypeInv'
  BY DEF TypeInv, Progress, SetupAssumption

LEMMA TypeStep == TypeInv /\ [Next]_vars => TypeInv'
<1> SUFFICES ASSUME TypeInv, [Next]_vars PROVE TypeInv'
  OBVIOUS
<1>z. SetupAssumption
  BY DEF TypeInv
<1> USE <1>z DEF SetupAssumption
<1>0. ASSUME NEW r \in Requests
      PROVE  Progress(r)
  BY DEF TypeInv
<1>a. ASSUME NEW r \in Requests, NEW from, Reply(r, from), UNCHANGED vault,
             namespaced' \subseteq VaultIds, guarded' \subseteq VaultIds,
             keyed' \subseteq VaultIds, held' \subseteq VaultIds
      PROVE  TypeInv'
  <2>1. TypeOK'
    BY <1>a, ReplyTyped DEF TypeInv, TypeOK, Labels
  <2>2. Progress(r)'
    BY <1>a DEF TypeInv, TypeOK, Progress, Reply, Goto
  <2>3. QED
    BY <1>a, <2>1, <2>2, OneRequestMoves DEF TypeInv, TypeOK, Reply, Goto
<1>b. ASSUME NEW r \in Requests, NEW from \in {"tx", "vault"},
             NEW to \in {"namespace", "key"}, Goto(r, from, to), Insert(r),
             to = "namespace" => from = "vault", UNCHANGED <<call, keyed, held>>,
             namespaced' \in {namespaced, namespaced \cup {made'[r]}},
             guarded' \in {guarded, guarded \cup {made'[r]}}
      PROVE  TypeInv'
  <2>1. call[r] \in Row
    BY <1>0, <1>b DEF Progress, Goto
  <2>2. TypeOK'
    BY <1>b, <2>1, InsertFresh DEF TypeInv, TypeOK, Goto
  <2>3. Progress(r)'
    BY <1>0, <1>b, <2>1, InsertFresh DEF TypeInv, TypeOK, Progress, Goto
  <2>4. QED
    BY <1>b, <2>1, <2>2, <2>3, InsertFresh, OneRequestMoves
    DEF TypeInv, TypeOK, Goto
<1>1. ASSUME NEW r \in Requests, NEW row \in Row, Start(r, row) PROVE TypeInv'
  <2>1. FirstStatement(row.route) \in {"tx", "vault"}
    BY DEF FirstStatement
  <2>2. TypeOK'
    BY <1>1, <2>1 DEF TypeInv, TypeOK, Start, Goto
  <2>3. Progress(r)'
    BY <1>0, <1>1, <2>1
    DEF TypeInv, TypeOK, Progress, Start, Goto, FirstStatement, Row
  <2>4. QED
    BY <1>1, <2>2, <2>3, OneRequestMoves DEF TypeInv, TypeOK, Start, Goto
<1>2. ASSUME NEW r \in Requests, Transaction(r) PROVE TypeInv'
  BY <1>2, <1>a, <1>b DEF Transaction, TypeInv, TypeOK
<1>3. ASSUME NEW r \in Requests, InsertVault(r) PROVE TypeInv'
  BY <1>3, <1>a, <1>b DEF InsertVault, TypeInv, TypeOK
<1>4. ASSUME NEW r \in Requests, InsertNamespace(r) \/ InsertKey(r)
      PROVE  TypeInv'
  <2>1. made[r] \in VaultIds
    BY <1>0, <1>4 DEF Progress, InsertNamespace, InsertKey, Goto
  <2>2. TypeOK'
    BY <1>4, <2>1 DEF TypeInv, TypeOK, InsertNamespace, InsertKey, Goto
  <2>3. Progress(r)'
    BY <1>0, <1>4
    DEF TypeInv, TypeOK, Progress, InsertNamespace, InsertKey, Goto
  <2>4. QED
    BY <1>4, <2>2, <2>3, OneRequestMoves
    DEF TypeInv, TypeOK, InsertNamespace, InsertKey, Goto
<1>5. ASSUME NEW r \in Requests, Answer(r) PROVE TypeInv'
  <2>1. made[r] \in VaultIds
    BY <1>0, <1>5 DEF Progress, Answer, Reply, Goto
  <2>2. QED
    BY <1>5, <1>a, <2>1 DEF TypeInv, TypeOK, Answer
<1>6. ASSUME NEW r \in Requests, Stop(r) PROVE TypeInv'
  BY <1>6, <1>a DEF TypeInv, TypeOK, Stop
<1>7. ASSUME UNCHANGED vars PROVE TypeInv'
  BY <1>7 DEF TypeInv, TypeOK, Progress, vars
<1>8. QED
  BY <1>1, <1>2, <1>3, <1>4, <1>5, <1>6, <1>7 DEF Next

\* Every variable keeps its type.
THEOREM TypeSafe == SetupAssumption /\ Spec => []TypeOK
<1>1. TypeInv => TypeOK
  BY DEF TypeInv
<1>2. QED
  BY InvInit, TypeStep, <1>1, PTL DEF Spec

-----------------------------------------------------------------------------
(* What a client holds. *)

\* Before the key is stored, the vault it opens has what it needs; before the
\* key is handed out, it is stored.
Equipped(r) ==
  /\ pc[r] \in {"key", "answer"} =>
       /\ made[r] \in namespaced
       /\ call[r].route = "create" => made[r] \in guarded
  /\ pc[r] = "answer" => made[r] \in keyed

HeldInv == HeldIsUsable /\ \A r \in Requests : Equipped(r)

LEMMA HeldInit == Init => HeldInv
  BY DEF Init, HeldInv, HeldIsUsable, Equipped

\* No statement takes a namespace, a guardian or a key away, or changes a row.
Grows ==
  /\ namespaced \subseteq namespaced' /\ guarded \subseteq guarded'
  /\ keyed \subseteq keyed'
  /\ \A v \in VaultIds : vault[v] # Null => vault'[v] = vault[v]

LEMMA StepGrows == TypeInv /\ [Next]_vars => Grows
<1> SUFFICES ASSUME TypeInv, [Next]_vars PROVE Grows
  OBVIOUS
<1>1. CASE UNCHANGED vars
  BY <1>1 DEF Grows, vars
<1>2. ASSUME NEW r \in Requests, Transaction(r) \/ InsertVault(r) PROVE Grows
  <2>1. call[r] \in Row
    BY <1>2 DEF TypeInv, Progress, Transaction, InsertVault
  <2>2. CASE UNCHANGED vault
    BY <1>2, <2>2 DEF Transaction, InsertVault, Grows
  <2>3. CASE Insert(r)
    BY <1>2, <2>1, <2>3, InsertFresh DEF Transaction, InsertVault, Grows
  <2>4. QED
    BY <1>2, <2>2, <2>3 DEF Transaction, InsertVault
<1>3. QED
  BY <1>1, <1>2
  DEF Next, Start, InsertNamespace, InsertKey, Answer, Stop, Grows

LEMMA HeldStep == TypeInv /\ TypeInv' /\ HeldInv /\ [Next]_vars => HeldInv'
<1> SUFFICES ASSUME TypeInv, TypeInv', HeldInv, [Next]_vars PROVE HeldInv'
  OBVIOUS
<1>z. SetupAssumption
  BY DEF TypeInv
<1> USE <1>z DEF SetupAssumption
<1>0. Grows /\ held \subseteq VaultIds
  BY StepGrows DEF TypeInv, TypeOK
<1>a. ASSUME UNCHANGED held PROVE HeldIsUsable'
  BY <1>0, <1>a DEF HeldInv, HeldIsUsable, Grows
<1>b. ASSUME NEW r \in Requests, Equipped(r)', UNCHANGED held,
             \A q \in Requests \ {r} :
               pc'[q] = pc[q] /\ call'[q] = call[q] /\ made'[q] = made[q]
      PROVE  HeldInv'
  BY <1>0, <1>a, <1>b DEF HeldInv, Equipped, Grows
<1>c. ASSUME NEW r \in Requests, NEW from, Reply(r, from)
      PROVE  /\ Equipped(r)'
             /\ \A q \in Requests \ {r} :
                  pc'[q] = pc[q] /\ call'[q] = call[q] /\ made'[q] = made[q]
  BY <1>c DEF Equipped, Reply, Goto, TypeInv, TypeOK
<1>1. ASSUME NEW r \in Requests, NEW row \in Row, Start(r, row) PROVE HeldInv'
  <2>1. Equipped(r)'
    BY <1>1 DEF Start, FirstStatement, Equipped, Goto, TypeInv, TypeOK
  <2>2. QED
    BY <1>1, <1>b, <2>1 DEF Start, Goto, TypeInv, TypeOK
<1>2. ASSUME NEW r \in Requests, Transaction(r) PROVE HeldInv'
  <2>1. CASE Taken(call[r])
    BY <1>2, <1>b, <1>c, <2>1 DEF Transaction
  <2>2. CASE ~Taken(call[r])
    <3>1. call[r] \in Row /\ Insert(r)
      BY <1>2, <2>2 DEF TypeInv, Progress, Transaction
    <3>2. Equipped(r)'
      BY <1>2, <2>2, <3>1, InsertFresh
      DEF Transaction, Equipped, Goto, TypeInv, TypeOK
    <3>3. QED
      BY <1>2, <1>b, <2>2, <3>1, <3>2, InsertFresh
      DEF Transaction, Goto, TypeInv, TypeOK
  <2>3. QED
    BY <2>1, <2>2
<1>3. ASSUME NEW r \in Requests, InsertVault(r) PROVE HeldInv'
  <2>1. CASE Taken(call[r])
    BY <1>3, <1>b, <1>c, <2>1 DEF InsertVault
  <2>2. CASE ~Taken(call[r])
    <3>1. call[r] \in Row /\ Insert(r)
      BY <1>3, <2>2 DEF TypeInv, Progress, InsertVault
    <3>2. Equipped(r)'
      BY <1>3, <2>2 DEF InsertVault, Equipped, Goto, TypeInv, TypeOK
    <3>3. QED
      BY <1>3, <1>b, <2>2, <3>1, <3>2, InsertFresh
      DEF InsertVault, Goto, TypeInv, TypeOK
  <2>3. QED
    BY <2>1, <2>2
<1>4. ASSUME NEW r \in Requests, InsertNamespace(r) PROVE HeldInv'
  <2>1. Equipped(r)'
    BY <1>4 DEF InsertNamespace, Equipped, Goto, TypeInv, TypeOK, Progress
  <2>2. QED
    BY <1>4, <1>b, <2>1 DEF InsertNamespace, Goto, TypeInv, TypeOK
<1>5. ASSUME NEW r \in Requests, InsertKey(r) PROVE HeldInv'
  <2>1. Equipped(r)'
    BY <1>5 DEF InsertKey, HeldInv, Equipped, Goto, TypeInv, TypeOK
  <2>2. QED
    BY <1>5, <1>b, <2>1 DEF InsertKey, Goto, TypeInv, TypeOK
<1>6. ASSUME NEW r \in Requests, Answer(r) PROVE HeldInv'
  <2>1. /\ made[r] \in namespaced \cap keyed /\ vault[made[r]] = call[r]
        /\ call[r] \in Row /\ made[r] \in VaultIds
        /\ call[r].route = "create" => made[r] \in guarded
    BY <1>6 DEF Answer, Reply, Goto, TypeInv, Progress, HeldInv, Equipped
  <2>2. HeldIsUsable'
    BY <1>6, <2>1 DEF Answer, HeldInv, HeldIsUsable
  <2>3. \A q \in Requests : Equipped(q)'
    BY <1>6, <1>c DEF Answer, HeldInv, Equipped
  <2>4. QED
    BY <2>2, <2>3 DEF HeldInv
<1>7. ASSUME NEW r \in Requests, Stop(r) PROVE HeldInv'
  BY <1>7, <1>b, <1>c DEF Stop
<1>8. ASSUME UNCHANGED vars PROVE HeldInv'
  BY <1>8 DEF HeldInv, HeldIsUsable, Equipped, vars
<1>9. QED
  BY <1>1, <1>2, <1>3, <1>4, <1>5, <1>6, <1>7, <1>8 DEF Next

\* Whoever was given a key has a complete vault behind it, however many other
\* requests run beside its creation or stop half-way.
THEOREM HeldIsUsableSafe == SetupAssumption /\ Spec => []HeldIsUsable
<1>1. HeldInv => HeldIsUsable
  BY DEF HeldInv
<1>2. QED
  BY InvInit, TypeStep, HeldInit, HeldStep, <1>1, PTL DEF Spec

=============================================================================
