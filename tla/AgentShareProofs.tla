-------------------------- MODULE AgentShareProofs --------------------------
(***************************************************************************)
(* Theorems about AgentShare, for every set of concurrent requests, objects*)
(* and vaults, whether their keys differ or not, and every choice of what  *)
(* else happens to the rows.                                               *)
(***************************************************************************)
EXTENDS AgentShare, FiniteSetTheorems, TLAPS

-----------------------------------------------------------------------------
(* Typing. *)

\* A running request has its arguments, and its target once it found one.
Progress(r) ==
  /\ pc[r] # "idle" => call[r] \in Call
  /\ pc[r] \in {"checkDuplicate", "readKey", "insert"} => call[r].to \in Vaults

TypeInv == TypeOK /\ \A r \in Requests : Progress(r)

LEMMA TypeInit == Init => TypeInv
  BY DEF Init, TypeInv, TypeOK, Progress, Labels

LEMMA OneRequestMoves ==
  ASSUME TypeInv, NEW r \in Requests, TypeOK', Progress(r)',
         \A q \in Requests \ {r} : pc'[q] = pc[q] /\ call'[q] = call[q]
  PROVE  TypeInv'
  BY DEF TypeInv, Progress

\* A row with another expiry, or with its live flag cleared, is a row.
LEMMA RowUpdated ==
  ASSUME NEW row \in Row
  PROVE  /\ [row EXCEPT !.live = FALSE] \in Row
         /\ [row EXCEPT !.expiry = "past"] \in Row
  BY DEF Row

LEMMA TypeStep == TypeInv /\ [Next]_vars => TypeInv'
<1> SUFFICES ASSUME TypeInv, [Next]_vars PROVE TypeInv'
  OBVIOUS
<1> USE ShareAssumption
<1> DEFINE Tables ==
      /\ state \in [Objects -> {"live", "archived", "deleted", "gone"}]
      /\ active \in [Vaults -> BOOLEAN] /\ raced \subseteq Objects \X Vaults
      /\ share \in [ShareIds -> Row \cup {Null}]
<1>0. Tables /\ \A r \in Requests : Progress(r)
  BY DEF TypeInv, TypeOK
<1>a. ASSUME NEW r \in Requests, NEW from, Reply(r, from), Tables' PROVE TypeInv'
  <2>1. TypeOK' /\ Progress(r)'
    BY <1>a DEF TypeInv, TypeOK, Reply, Goto, Progress, Labels
  <2>2. QED
    BY <1>a, <2>1, OneRequestMoves DEF Reply, Goto, TypeInv, TypeOK
<1>b. ASSUME NEW r \in Requests, NEW from, NEW to \in Labels, Goto(r, from, to),
             NEW c \in Call, call' = [call EXCEPT ![r] = c],
             to = "findTarget" \/ c.to \in Vaults, Tables'
      PROVE  TypeInv'
  <2>1. TypeOK' /\ Progress(r)'
    BY <1>b DEF TypeInv, TypeOK, Goto, Progress
  <2>2. QED
    BY <1>b, <2>1, OneRequestMoves DEF Goto, TypeInv, TypeOK
<1>c. ASSUME UNCHANGED <<pc, call>>, Tables' PROVE TypeInv'
  BY <1>c DEF TypeInv, TypeOK, Progress
<1>1. ASSUME NEW r \in Requests, NEW o \in Objects,
             NEW k \in {KeyOf[v] : v \in Vaults},
             NEW expiry \in {"never", "ahead"}, FindSource(r, o, k, expiry)
      PROVE  TypeInv'
  <2>1. [object |-> o, key |-> k, expiry |-> expiry, to |-> Null] \in Call
    BY DEF Call
  <2>2. QED
    BY <1>0, <1>1, <1>b, <2>1 DEF FindSource, tables, Labels
<1>2. ASSUME NEW r \in Requests, FindTarget(r) PROVE TypeInv'
  <2>1. Tables'
    BY <1>0, <1>2 DEF FindTarget, tables
  <2>2. CASE Reply(r, "findTarget")
    BY <1>a, <2>1, <2>2
  <2>3. CASE ~Reply(r, "findTarget")
    <3>1. PICK v \in Vaults : /\ Goto(r, "findTarget", "checkDuplicate")
                              /\ call' = [call EXCEPT ![r].to = v]
      BY <1>2, <2>3 DEF FindTarget
    <3>2. call[r] \in Call
      BY <1>0, <3>1 DEF Progress, Goto
    <3>3. [call[r] EXCEPT !.to = v] \in Call /\ [call[r] EXCEPT !.to = v].to = v
      BY <3>2 DEF Call
    <3>4. call' = [call EXCEPT ![r] = [call[r] EXCEPT !.to = v]]
      BY <3>1
    <3>5. QED
      BY <1>b, <2>1, <3>1, <3>3, <3>4 DEF Labels
  <2>4. QED
    BY <2>2, <2>3
<1>d. ASSUME NEW r \in Requests, NEW from \in {"checkDuplicate", "readKey"},
             NEW to \in Labels, Goto(r, from, to), UNCHANGED call, Tables'
      PROVE  TypeInv'
  <2>1. call[r] \in Call /\ call[r].to \in Vaults
    BY <1>0, <1>d DEF Progress, Goto
  <2>2. call' = [call EXCEPT ![r] = call[r]]
    BY <1>d DEF TypeInv, TypeOK
  <2>3. QED
    BY <1>b, <1>d, <2>1, <2>2
<1>3. ASSUME NEW r \in Requests, pc[r] = "checkDuplicate", CheckDuplicate(r)
      PROVE  TypeInv'
  <2>1. call[r].object \in Objects /\ call[r].to \in Vaults
    BY <1>0, <1>3 DEF Progress, Call
  <2>2. Tables'
    BY <1>0, <1>3, <2>1 DEF CheckDuplicate, tables
  <2>3. QED
    BY <1>3, <1>a, <1>d, <2>2 DEF CheckDuplicate, Labels
<1>4. ASSUME NEW r \in Requests, ReadNamespaceKey(r) PROVE TypeInv'
  BY <1>0, <1>4, <1>a, <1>d DEF ReadNamespaceKey, tables, Labels
<1>5. ASSUME NEW r \in Requests, pc[r] = "insert", InsertShare(r) PROVE TypeInv'
  <2>1. [object |-> call[r].object, to |-> call[r].to, live |-> TRUE,
         expiry |-> call[r].expiry] \in Row
    BY <1>0, <1>5 DEF Progress, Call, Row
  <2>2. Tables'
    BY <1>0, <1>5, <2>1 DEF InsertShare
  <2>3. QED
    BY <1>5, <1>a, <2>2 DEF InsertShare
<1>6. ASSUME NEW s \in ShareIds, RevokeShare(s) \/ Expire(s) PROVE TypeInv'
  <2>1. share[s] \in Row
    BY <1>0, <1>6 DEF RevokeShare, Expire
  <2>2. share' \in [ShareIds -> Row \cup {Null}]
    <3>1. CASE RevokeShare(s)
      <4>1. share' = [share EXCEPT ![s] = [share[s] EXCEPT !.live = FALSE]]
        BY <1>0, <3>1 DEF RevokeShare, Revoked
      <4>2. QED
        BY <1>0, <2>1, <4>1, RowUpdated
    <3>2. CASE Expire(s)
      <4>1. share' = [share EXCEPT ![s] = [share[s] EXCEPT !.expiry = "past"]]
        BY <1>0, <3>2 DEF Expire
      <4>2. QED
        BY <1>0, <2>1, <4>1, RowUpdated
    <3>3. QED
      BY <1>6, <3>1, <3>2
  <2>3. QED
    BY <1>0, <1>6, <1>c, <2>2 DEF RevokeShare, Expire
<1>7. ASSUME NEW o \in Objects,
             Archive(o) \/ Restore(o) \/ Delete(o) \/ Cascade(o)
      PROVE  TypeInv'
  <2>1. share' \in [ShareIds -> Row \cup {Null}]
    BY <1>0, <1>7 DEF Archive, Restore, Delete, Cascade
  <2>2. QED
    BY <1>0, <1>7, <1>c, <2>1 DEF Archive, Restore, Delete, Cascade, Move
<1>8. ASSUME NEW v \in Vaults, Disable(v) PROVE TypeInv'
  BY <1>0, <1>8, <1>c DEF Disable
<1>9. ASSUME UNCHANGED vars PROVE TypeInv'
  BY <1>0, <1>9, <1>c DEF vars
<1>10. QED
  BY <1>1, <1>2, <1>3, <1>4, <1>5, <1>6, <1>7, <1>8, <1>9
  DEF Next, Statement

\* Every variable keeps its type.
THEOREM TypeSafe == Spec => []TypeOK
<1>1. TypeInv => TypeOK
  BY DEF TypeInv
<1>2. QED
  BY TypeInit, TypeStep, <1>1, PTL DEF Spec

-----------------------------------------------------------------------------
(* What a step does to the sharings past the check and the shares in force. *)

\* No new one of either.
Fewer(o, v) ==
  /\ Past(o, v)' \subseteq Past(o, v) /\ SharesOf(o, v)' \subseteq SharesOf(o, v)
  /\ raced \subseteq raced'

\* A sharing that found no share passes the check.
Passes(o, v) ==
  /\ SharesOf(o, v) = {} /\ SharesOf(o, v)' = {} /\ raced \subseteq raced'
  /\ \E r \in Requests : Past(o, v)' \subseteq Past(o, v) \cup {r}
  /\ Past(o, v) = {} \/ <<o, v>> \in raced'

\* A sharing that is past it inserts its row.
Inserts(o, v) ==
  /\ \E r \in Past(o, v) : Past(o, v)' \subseteq Past(o, v) \ {r}
  /\ \E s \in ShareIds : SharesOf(o, v)' \subseteq SharesOf(o, v) \cup {s}
  /\ UNCHANGED raced

Moves(o, v) == Fewer(o, v) \/ Passes(o, v) \/ Inserts(o, v)

\* Every step is one of the three.
LEMMA StepMoves ==
  ASSUME TypeInv, [Next]_vars, NEW o \in Objects, NEW v \in Vaults
  PROVE  Moves(o, v)
<1> USE ShareAssumption
<1>a. ASSUME UNCHANGED share PROVE SharesOf(o, v)' = SharesOf(o, v)
  BY <1>a DEF SharesOf, InForce
<1>b. ASSUME UNCHANGED <<pc, call>> PROVE Past(o, v)' = Past(o, v)
  BY <1>b DEF Past
<1>c. ASSUME NEW r \in Requests, NEW from, Reply(r, from)
      PROVE  Past(o, v)' \subseteq Past(o, v) \ {r}
  BY <1>c DEF Past, Reply, Goto, TypeInv, TypeOK
<1>d. ASSUME NEW r \in Requests, NEW from, NEW to, Goto(r, from, to),
             to \notin {"readKey", "insert"}, NEW c,
             call' = [call EXCEPT ![r] = c]
      PROVE  Past(o, v)' \subseteq Past(o, v)
  BY <1>d DEF Past, Goto, TypeInv, TypeOK
<1>1. ASSUME NEW r \in Requests, NEW p \in Objects,
             NEW k \in {KeyOf[w] : w \in Vaults},
             NEW expiry \in {"never", "ahead"}, FindSource(r, p, k, expiry)
      PROVE  Moves(o, v)
  BY <1>1, <1>a, <1>d DEF Moves, Fewer, FindSource, tables
<1>2. ASSUME NEW r \in Requests, FindTarget(r) PROVE Moves(o, v)
  BY <1>2, <1>a, <1>c, <1>d DEF Moves, Fewer, FindTarget, tables
<1>3. ASSUME NEW r \in Requests, pc[r] = "checkDuplicate", CheckDuplicate(r)
      PROVE  Moves(o, v)
  <2>1. SharesOf(o, v)' = SharesOf(o, v)
    BY <1>3, <1>a DEF CheckDuplicate, tables
  <2>2. CASE Reply(r, "checkDuplicate") /\ UNCHANGED raced
    BY <1>c, <2>1, <2>2 DEF Moves, Fewer
  <2>3. CASE ~(Reply(r, "checkDuplicate") /\ UNCHANGED raced)
    <3>1. /\ ~Duplicate(call[r].object, call[r].to)
          /\ Goto(r, "checkDuplicate", "readKey") /\ UNCHANGED call
          /\ raced' = IF Past(call[r].object, call[r].to) = {} THEN raced
                      ELSE raced \cup {<<call[r].object, call[r].to>>}
      BY <1>3, <2>3 DEF CheckDuplicate
    <3>2. CASE call[r].object = o /\ call[r].to = v
      <4>1. SharesOf(o, v) = {}
        BY <3>1, <3>2 DEF Duplicate, SharesOf
      <4>2. Past(o, v)' \subseteq Past(o, v) \cup {r}
        BY <3>1 DEF Past, Goto, TypeInv, TypeOK
      <4>3. raced \subseteq raced' /\ (Past(o, v) = {} \/ <<o, v>> \in raced')
        BY <3>1, <3>2
      <4>4. QED
        BY <2>1, <4>1, <4>2, <4>3 DEF Moves, Passes
    <3>3. CASE ~(call[r].object = o /\ call[r].to = v)
      <4>1. Past(o, v)' \subseteq Past(o, v)
        BY <3>1, <3>3 DEF Past, Goto, TypeInv, TypeOK
      <4>2. raced \subseteq raced'
        BY <3>1
      <4>3. QED
        BY <2>1, <4>1, <4>2 DEF Moves, Fewer
    <3>4. QED
      BY <3>2, <3>3
  <2>4. QED
    BY <2>2, <2>3
<1>4. ASSUME NEW r \in Requests, pc[r] = "readKey", ReadNamespaceKey(r)
      PROVE  Moves(o, v)
  <2>1. Past(o, v)' \subseteq Past(o, v)
    BY <1>4, <1>c DEF ReadNamespaceKey, Past, Goto, TypeInv, TypeOK
  <2>2. QED
    BY <1>4, <1>a, <2>1 DEF Moves, Fewer, ReadNamespaceKey, tables
<1>5. ASSUME NEW r \in Requests, pc[r] = "insert", InsertShare(r)
      PROVE  Moves(o, v)
  <2>1. Past(o, v)' \subseteq Past(o, v) \ {r} /\ UNCHANGED raced
    BY <1>5, <1>c DEF InsertShare
  <2>2. CASE UNCHANGED share
    BY <1>a, <2>1, <2>2 DEF Moves, Fewer
  <2>3. CASE ~UNCHANGED share
    <3>1. PICK s \in ShareIds :
            /\ share[s] = Null
            /\ share' = [share EXCEPT ![s] =
                           [object |-> call[r].object, to |-> call[r].to,
                            live |-> TRUE, expiry |-> call[r].expiry]]
      BY <1>5, <2>3 DEF InsertShare
    <3>2. \A t \in ShareIds \ {s} : share'[t] = share[t]
      BY <3>1
    <3>3. SharesOf(o, v)' \subseteq SharesOf(o, v) \cup {s}
      BY <3>2 DEF SharesOf, InForce
    <3>4. CASE call[r].object = o /\ call[r].to = v
      <4>1. r \in Past(o, v)
        BY <1>5, <3>4 DEF Past
      <4>2. QED
        BY <2>1, <3>3, <4>1 DEF Moves, Inserts
    <3>5. CASE ~(call[r].object = o /\ call[r].to = v)
      <4>1. s \in SharesOf(o, v)' => FALSE
        BY <3>1, <3>5 DEF SharesOf, TypeInv, TypeOK
      <4>2. QED
        BY <2>1, <3>3, <4>1 DEF Moves, Fewer
    <3>6. QED
      BY <3>4, <3>5
  <2>4. QED
    BY <2>2, <2>3
<1>6. ASSUME NEW s \in ShareIds, RevokeShare(s) \/ Expire(s)
      PROVE  Moves(o, v)
  <2>1. share[s] \in Row
    BY <1>6 DEF RevokeShare, Expire, TypeInv, TypeOK
  <2>2. /\ share'[s].live = FALSE \/ share'[s].expiry = "past"
        /\ \A t \in ShareIds \ {s} : share'[t] = share[t]
    BY <1>6, <2>1 DEF RevokeShare, Revoked, Expire, TypeInv, TypeOK, Row
  <2>3. SharesOf(o, v)' \subseteq SharesOf(o, v)
    BY <2>2 DEF SharesOf, InForce
  <2>4. QED
    BY <1>6, <1>b, <2>3 DEF Moves, Fewer, RevokeShare, Expire
<1>7. ASSUME NEW p \in Objects,
             Archive(p) \/ Restore(p) \/ Delete(p) \/ Cascade(p)
      PROVE  Moves(o, v)
  <2>1. SharesOf(o, v)' \subseteq SharesOf(o, v)
    <3>1. CASE UNCHANGED share
      BY <1>a, <3>1
    <3>2. CASE Cascade(p)
      BY <3>2 DEF Cascade, SharesOf, InForce
    <3>3. QED
      BY <1>7, <3>1, <3>2 DEF Archive, Restore, Delete
  <2>2. QED
    BY <1>7, <1>b, <2>1 DEF Moves, Fewer, Archive, Restore, Delete, Cascade, Move
<1>8. ASSUME (\E w \in Vaults : Disable(w)) \/ UNCHANGED vars
      PROVE  Moves(o, v)
  BY <1>8, <1>a, <1>b DEF Moves, Fewer, Disable, vars
<1>9. QED
  BY <1>1, <1>2, <1>3, <1>4, <1>5, <1>6, <1>7, <1>8 DEF Next, Statement

-----------------------------------------------------------------------------
(* One share at a time. *)

\* Unless two sharings overtook the check, one at most is past it, it has left
\* no share in force behind, and the shares in force are one at most.
Orderly(o, v) ==
  <<o, v>> \notin raced =>
    /\ \A q, r \in Past(o, v) : q = r
    /\ \A s, t \in SharesOf(o, v) : s = t
    /\ Past(o, v) # {} => SharesOf(o, v) = {}

ShareInv == \A o \in Objects, v \in Vaults : Orderly(o, v)

LEMMA ShareInit == Init => ShareInv
  BY ShareAssumption
  DEF Init, ShareInv, Orderly, Past, SharesOf, InForce

LEMMA ShareStep == TypeInv /\ ShareInv /\ [Next]_vars => ShareInv'
<1> SUFFICES ASSUME TypeInv, ShareInv, [Next]_vars,
                    NEW o \in Objects, NEW v \in Vaults
             PROVE  Orderly(o, v)'
  BY DEF ShareInv
<1>1. Orderly(o, v) /\ Moves(o, v)
  BY StepMoves DEF ShareInv
<1>2. CASE Fewer(o, v)
  BY <1>1, <1>2 DEF Fewer, Orderly
<1>3. CASE Passes(o, v)
  BY <1>1, <1>3 DEF Passes, Orderly
<1>4. CASE Inserts(o, v)
  BY <1>1, <1>4 DEF Inserts, Orderly
<1>5. QED
  BY <1>1, <1>2, <1>3, <1>4 DEF Moves

\* Whatever expires, is revoked, deleted or disabled between the check for a
\* duplicate and the insertion, an object is shared with a vault once at a time,
\* unless two sharings of the two overtook the check.
THEOREM OneActiveShareSafe == Spec => []OneActiveShare
<1>1. ShareInv => OneActiveShare
  <2> SUFFICES ASSUME ShareInv, NEW o \in Objects, NEW v \in Vaults,
                      <<o, v>> \notin raced
               PROVE  Cardinality(SharesOf(o, v)) <= 1
    BY DEF OneActiveShare
  <2>1. \A s, t \in SharesOf(o, v) : s = t
    BY DEF ShareInv, Orderly
  <2>2. CASE SharesOf(o, v) = {}
    BY <2>2, FS_EmptySet
  <2>3. CASE SharesOf(o, v) # {}
    <3>1. PICK s : SharesOf(o, v) = {s}
      BY <2>1, <2>3
    <3>2. Cardinality({s}) = 1
      BY FS_Singleton
    <3>3. QED
      BY <3>1, <3>2
  <2>4. QED
    BY <2>2, <2>3
<1>2. QED
  BY TypeInit, TypeStep, ShareInit, ShareStep, <1>1, PTL DEF Spec

-----------------------------------------------------------------------------
(* How many sharings can overtake the check. *)

\* A share in force and a sharing that may still add one count alike: the check
\* lets a request pass only when there is no share.
Crowd(o, v) ==
  Cardinality(SharesOf(o, v)) + Cardinality(Past(o, v)) <= Cardinality(Requests)

CrowdInv == \A o \in Objects, v \in Vaults : Crowd(o, v)

\* Both sets are finite.
LEMMA FiniteSides ==
  ASSUME NEW o, NEW v
  PROVE  /\ IsFiniteSet(SharesOf(o, v)) /\ IsFiniteSet(Past(o, v))
         /\ Cardinality(SharesOf(o, v)) \in Nat
         /\ Cardinality(Past(o, v)) \in Nat /\ Cardinality(Requests) \in Nat
         /\ Cardinality(Past(o, v)) <= Cardinality(Requests)
<1>1. SharesOf(o, v) \subseteq ShareIds /\ Past(o, v) \subseteq Requests
  BY DEF SharesOf, Past
<1>2. IsFiniteSet(SharesOf(o, v)) /\ IsFiniteSet(Past(o, v))
  BY <1>1, ShareAssumption, FS_Subset
<1>3. Cardinality(Past(o, v)) <= Cardinality(Requests)
  BY <1>1, ShareAssumption, FS_Subset
<1>4. QED
  BY <1>2, <1>3, ShareAssumption, FS_CardinalityType

\* The same of the next state.
LEMMA FiniteSidesNext ==
  ASSUME NEW o, NEW v
  PROVE  /\ IsFiniteSet(SharesOf(o, v)') /\ IsFiniteSet(Past(o, v)')
         /\ Cardinality(SharesOf(o, v)') \in Nat
         /\ Cardinality(Past(o, v)') \in Nat
         /\ Cardinality(Past(o, v)') <= Cardinality(Requests)
<1>1. SharesOf(o, v)' \subseteq ShareIds /\ Past(o, v)' \subseteq Requests
  BY DEF SharesOf, Past
<1>2. IsFiniteSet(SharesOf(o, v)') /\ IsFiniteSet(Past(o, v)')
  BY <1>1, ShareAssumption, FS_Subset
<1>3. Cardinality(Past(o, v)') <= Cardinality(Requests)
  BY <1>1, ShareAssumption, FS_Subset
<1>4. QED
  BY <1>2, <1>3, FS_CardinalityType

LEMMA CrowdInit == Init => CrowdInv
<1> SUFFICES ASSUME Init, NEW o \in Objects, NEW v \in Vaults PROVE Crowd(o, v)
  BY DEF CrowdInv
<1>1. SharesOf(o, v) = {}
  BY DEF Init, SharesOf, InForce
<1>2. QED
  BY <1>1, FiniteSides, FS_EmptySet DEF Crowd

\* A sharing that passes the check finds no share; one that inserts its row
\* turns from the one into the other.
LEMMA CrowdStep == TypeInv /\ CrowdInv /\ [Next]_vars => CrowdInv'
<1> SUFFICES ASSUME TypeInv, CrowdInv, [Next]_vars,
                    NEW o \in Objects, NEW v \in Vaults
             PROVE  Crowd(o, v)'
  BY DEF CrowdInv
<1>0. Crowd(o, v) /\ Moves(o, v)
  BY StepMoves DEF CrowdInv
<1>1. CASE Fewer(o, v)
  <2>1. /\ Cardinality(Past(o, v)') <= Cardinality(Past(o, v))
        /\ Cardinality(SharesOf(o, v)') <= Cardinality(SharesOf(o, v))
    BY <1>1, FiniteSides, FS_Subset DEF Fewer
  <2>2. QED
    BY <1>0, <2>1, FiniteSides, FiniteSidesNext DEF Crowd
<1>2. CASE Passes(o, v)
  <2>1. Cardinality(SharesOf(o, v)') = 0
    BY <1>2, FS_EmptySet DEF Passes
  <2>2. QED
    BY <2>1, FiniteSides, FiniteSidesNext DEF Crowd
<1>3. CASE Inserts(o, v)
  <2>1. PICK r \in Past(o, v), s \in ShareIds :
          /\ Past(o, v)' \subseteq Past(o, v) \ {r}
          /\ SharesOf(o, v)' \subseteq SharesOf(o, v) \cup {s}
    BY <1>3 DEF Inserts
  <2>2. Cardinality(Past(o, v)') <= Cardinality(Past(o, v)) - 1
    <3>1. /\ IsFiniteSet(Past(o, v) \ {r})
          /\ Cardinality(Past(o, v) \ {r}) = Cardinality(Past(o, v)) - 1
      BY FiniteSides, FS_RemoveElement
    <3>2. QED
      BY <2>1, <3>1, FS_Subset
  <2>3. Cardinality(SharesOf(o, v)') <= Cardinality(SharesOf(o, v)) + 1
    <3>1. /\ IsFiniteSet(SharesOf(o, v) \cup {s})
          /\ Cardinality(SharesOf(o, v) \cup {s}) \in Nat
          /\ Cardinality(SharesOf(o, v) \cup {s}) <= Cardinality(SharesOf(o, v)) + 1
      <4>1. IsFiniteSet(SharesOf(o, v)) /\ Cardinality(SharesOf(o, v)) \in Nat
        BY FiniteSides
      <4>2. /\ IsFiniteSet(SharesOf(o, v) \cup {s})
            /\ Cardinality(SharesOf(o, v) \cup {s}) =
                 IF s \in SharesOf(o, v) THEN Cardinality(SharesOf(o, v))
                 ELSE Cardinality(SharesOf(o, v)) + 1
        BY <4>1, FS_AddElement
      <4>3. QED
        BY <4>1, <4>2
    <3>2. Cardinality(SharesOf(o, v)') <= Cardinality(SharesOf(o, v) \cup {s})
      BY <2>1, <3>1, FS_Subset
    <3>3. QED
      BY <3>1, <3>2, FiniteSides, FiniteSidesNext
  <2>4. QED
    BY <1>0, <2>2, <2>3, FiniteSides, FiniteSidesNext DEF Crowd
<1>4. QED
  BY <1>0, <1>1, <1>2, <1>3 DEF Moves

\* However often an object is shared with a vault, the sharings that overtook
\* the check for a duplicate leave no more shares in force than there are
\* requests at work at one time.
THEOREM SharesBoundedSafe == Spec => []SharesBounded
<1>1. CrowdInv => SharesBounded
  BY FiniteSides DEF CrowdInv, Crowd, SharesBounded
<1>2. QED
  BY TypeInit, TypeStep, CrowdInit, CrowdStep, <1>1, PTL DEF Spec
=============================================================================
