---------------------------- MODULE NamespaceDrop ----------------------------
(***************************************************************************)
(* The object store of AgentObjects while namespaces are deleted           *)
(* (DELETE .../namespaces/:nsId of impl/routes/agent-vaults.ts).  The      *)
(* foreign key takes the objects of the namespace along; no statement      *)
(* gives the vault back what its counters have for them, and S3 is not     *)
(* told.  A namespace with rows in the audit log cannot go (AgentVaults),  *)
(* so this happens to one whose audit inserts all failed, which nobody is  *)
(* told.  A request may be at work in the namespace meanwhile: its         *)
(* statements find no row, or break the foreign key.                       *)
(***************************************************************************)
EXTENDS AgentObjects

CONSTANT Default  \* the namespace named "default", which is not deleted

VARIABLES
  dropped,   \* the namespaces that were deleted; a row of theirs stands for
             \* no row and is kept as a deleted one
  lost,      \* history: bytes and count of the objects that went with them
  overrun    \* history: a namespace was deleted while a request was running

dropVars == <<dropped, lost, overrun>>

Dropped(r) == call[r] # Null /\ call[r].ns \in dropped

DropInit ==
  /\ Init /\ dropped = {} /\ lost = [bytes |-> 0, count |-> 0]
  /\ overrun = FALSE

\* A request that begins resolves its namespace, or joins it.
Begin(r) ==
  /\ StartStore(r) \/ StartKeyed(r) \/ StartConfirm(r)
  /\ call'[r].ns \notin dropped

\* INSERT breaks the foreign key; UPDATE ... RETURNING finds no row.
Stranded(r) ==
  Dropped(r) /\ pc[r] \in {"insert", "insertPending", "confirm"}

Proceed(r) ==
  IF Stranded(r) THEN Reply(r, pc[r]) /\ UNCHANGED <<tables, blob>>
                 ELSE Statement(r)

CountedIn(n) == {id \in Counted : object[id].ns = n}

\* Mutant of RowsWithout: the rows are left.
RowsWithoutNone(n) == object

RowsWithout(n) ==
  [id \in ObjectIds |->
     IF Exists(id) /\ object[id].ns = n
     THEN [object[id] EXCEPT !.deleted = TRUE] ELSE object[id]]

\* ON DELETE SET NULL would update audit rows, which the trigger refuses.
Blocked(n) == \E entry \in audit : entry[2] = n

DropNamespace(n) ==
  /\ n # Default /\ n \notin dropped /\ ~Blocked(n)
  /\ dropped' = dropped \cup {n}
  /\ object' = RowsWithout(n)
  /\ lost' = [bytes |-> lost.bytes + BytesOf(CountedIn(n)),
              count |-> lost.count + Cardinality(CountedIn(n))]
  /\ overrun' = (overrun \/ \E r \in Requests : pc[r] # "idle")
  /\ UNCHANGED <<blob, vaultBytes, vaultCount, nsBytes, nsCount, audit, locals>>

DropNext ==
  \/ /\ \/ \E r \in Requests : Begin(r) \/ Proceed(r) \/ Stop(r)
        \/ \E id \in ObjectIds : ClientUpload(id) \/ Expire(id)
     /\ UNCHANGED dropVars
  \/ \E n \in Namespaces : DropNamespace(n)

DropSpec == DropInit /\ [][DropNext]_<<vars, dropVars>>

-----------------------------------------------------------------------------
(* Properties. *)

\* When no request is running, the counters of a namespace are what a recount
\* of its confirmed live objects gives; those of the vault are so much higher
\* as the namespaces deleted so far held, for good, which the quota counts as
\* used.  Not so after a namespace was deleted under a running request.
CountersExplained ==
  (\A r \in Requests : pc[r] = "idle") /\ ~overrun =>
    /\ vaultBytes = BytesOf(Counted) + lost.bytes
    /\ vaultCount = Cardinality(Counted) + lost.count
    /\ \A n \in Namespaces \ dropped :
         nsBytes[n] = BytesOf(CountedIn(n)) /\ nsCount[n] = Cardinality(CountedIn(n))

\* A store that is about to be acknowledged has left a confirmed live row and
\* a blob, both of the size that was sent, unless its namespace is gone.
StoreTakesEffect ==
  \A r \in Requests :
    (/\ pc[r] = "audit" /\ call[r].op \in {"direct", "mcpStore"}
     /\ ~Dropped(r)) =>
      /\ target[r] \in Counted
      /\ object[target[r]].size = call[r].size
      /\ blob[target[r]] = call[r].size
=============================================================================
