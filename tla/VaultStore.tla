----------------------------- MODULE VaultStore -----------------------------
(***************************************************************************)
(* What a vault promises to the clients that store, read and delete whole  *)
(* objects through the REST API: a map from slots (namespace, key) to      *)
(* data, on which every answered request acts once, at one instant between *)
(* its call and its answer.  Nothing here knows of rows, blobs, counters   *)
(* or statements; AgentObjects implements it.                              *)
(***************************************************************************)
CONSTANTS Requests, Slots, Data, Absent

VARIABLES
  shown,    \* what a reader of each slot is given, or Absent
  state,    \* of each request: "idle", "called" or "applied"
  asked,    \* what each request has asked for
  result    \* the data an applied read has seen

storeVars == <<shown, state, asked, result>>

Ask == [kind: {"store"}, slot: Slots, data: Data]
         \cup [kind: {"read", "delete"}, slot: Slots]

Init ==
  /\ shown = [p \in Slots |-> Absent]
  /\ state = [r \in Requests |-> "idle"]
  /\ asked = [r \in Requests |-> Absent]
  /\ result = [r \in Requests |-> Absent]

Becomes(r, from, to) == state[r] = from /\ state' = [state EXCEPT ![r] = to]

Invoke(r) ==
  /\ Becomes(r, "idle", "called")
  /\ \E a \in Ask : asked' = [asked EXCEPT ![r] = a]
  /\ UNCHANGED <<shown, result>>

\* A store fills an empty slot; it never replaces what a reader is shown.
Store(r) ==
  /\ Becomes(r, "called", "applied") /\ asked[r].kind = "store"
  /\ shown[asked[r].slot] = Absent
  /\ shown' = [shown EXCEPT ![asked[r].slot] = asked[r].data]
  /\ UNCHANGED <<asked, result>>

\* A delete leaves its slot empty.
Delete(r) ==
  /\ Becomes(r, "called", "applied") /\ asked[r].kind = "delete"
  /\ shown' = [shown EXCEPT ![asked[r].slot] = Absent]
  /\ UNCHANGED <<asked, result>>

\* A read sees the data of its slot.
Read(r) ==
  /\ Becomes(r, "called", "applied") /\ asked[r].kind = "read"
  /\ shown[asked[r].slot] # Absent
  /\ result' = [result EXCEPT ![r] = shown[asked[r].slot]]
  /\ UNCHANGED <<shown, asked>>

Forget(r) ==
  /\ asked' = [asked EXCEPT ![r] = Absent]
  /\ result' = [result EXCEPT ![r] = Absent]

\* A read or a delete is refused only while its slot is empty.  A store may
\* always be refused: over quota, or the key is taken by an expired object.
Refuse(r) ==
  /\ Becomes(r, "called", "idle") /\ Forget(r)
  /\ asked[r].kind # "store" => shown[asked[r].slot] = Absent
  /\ UNCHANGED shown

Answer(r) == Becomes(r, "applied", "idle") /\ Forget(r) /\ UNCHANGED shown

\* The data of a slot expires.
Lapse(p) ==
  /\ shown[p] # Absent
  /\ shown' = [shown EXCEPT ![p] = Absent]
  /\ UNCHANGED <<state, asked, result>>

Next ==
  \/ \E r \in Requests : Invoke(r) \/ Store(r) \/ Delete(r) \/ Read(r)
                           \/ Refuse(r) \/ Answer(r)
  \/ \E p \in Slots : Lapse(p)

Spec == Init /\ [][Next]_storeVars
=============================================================================
