---------------------------- MODULE AgentObjects ----------------------------
(***************************************************************************)
(* The object store of one agent vault: the handlers of                    *)
(* impl/routes/agent-objects.ts (REST) and the serac_store, serac_retrieve *)
(* and serac_delete tools of impl/routes/mcp-server.ts.                    *)
(*                                                                         *)
(* No handler opens a transaction: a request is a sequence of separate     *)
(* SQL statements and S3 calls, each of them atomic, and any other request *)
(* may run between two of them.  A request is a process with a program     *)
(* counter; each of its statements is one action.  Every query of these    *)
(* handlers is restricted to the caller's vault, so one vault is enough.   *)
(***************************************************************************)
EXTENDS Integers, FiniteSets, FiniteSetsExt

CONSTANTS
  Requests,     \* requests the server handles at the same time
  Namespaces,   \* the vault's rows of agent_namespaces
  Keys,         \* object keys
  ObjectIds,    \* the UUIDs randomUUID() can return: the bound on objects
  Sizes,        \* sizes of the data clients send
  Ttls,         \* subset of {"none", "running"}: do clients ask for a TTL
  PlanLimit,    \* plans.storage_bytes; 0 when there is no limit
  MaxInline,    \* serac_retrieve answers with at most so much data (1 MiB)
  Operations,   \* the operations clients call
  TokenIssued,  \* TRUE: inserting a row gives it an upload_token
  Faulty,       \* TRUE: a request may stop between any two statements
  AuditFails,   \* TRUE: the audit INSERT may fail, which nobody is told
  Null

Stores == {"direct", "presign", "mcpStore"}
Reads == {"retrieve", "mcpRetrieve"}
AllOperations == Stores \cup Reads \cup {"delete", "confirm"}

VARIABLES
  object,       \* agent_objects: a row, or Null, for each id
  blob,         \* the S3 bucket: size of the data under agents/vault/ns/id
  vaultBytes,   \* agent_vaults.storage_used_bytes
  vaultCount,   \* agent_vaults.object_count
  nsBytes,      \* agent_namespaces.storage_used_bytes
  nsCount,      \* agent_namespaces.object_count
  audit,        \* agent_audit_log: the <<action, namespace_id>> pairs logged
  pc,           \* the statement each request runs next
  call,         \* the arguments of each request
  target,       \* the id each request has generated or found
  delta         \* the bytes each request will add or subtract

tables == <<object, vaultBytes, vaultCount, nsBytes, nsCount, audit>>
locals == <<pc, call, target, delta>>
vars == <<object, blob, vaultBytes, vaultCount, nsBytes, nsCount, audit,
          pc, call, target, delta>>

Row == [ns: Namespaces, key: Keys, size: Nat,
        status: {"pending", "confirmed"}, deleted: BOOLEAN,
        ttl: {"none", "running", "expired"},
        url: BOOLEAN]   \* a presigned upload URL has been handed out

Call == [op: AllOperations, ns: Namespaces, key: Keys, size: Nat]

Labels == {"idle", "quota", "lookup", "put", "insert", "insertPending",
           "update", "nsAdd", "vaultAdd", "nsDiff", "vaultDiff", "confirm",
           "mark", "nsSub", "vaultSub", "find", "get", "audit"}

ASSUME ConstantsAssumption ==
  /\ IsFiniteSet(Requests) /\ IsFiniteSet(ObjectIds)
  /\ Sizes \subseteq Nat
  /\ Ttls \subseteq {"none", "running"}
  /\ PlanLimit \in Nat /\ MaxInline \in Nat
  /\ Operations \subseteq AllOperations
  /\ {TokenIssued, Faulty, AuditFails} \subseteq BOOLEAN
  /\ Null \notin Row /\ Null \notin ObjectIds
  /\ Null \notin Call /\ Null \notin Nat

-----------------------------------------------------------------------------
(* The WHERE clauses of the handlers. *)

Exists(id) == object[id] # Null
Live(id) == Exists(id) /\ ~object[id].deleted
Confirmed(id) == Exists(id) /\ object[id].status = "confirmed"
At(id, n, k) == object[id].ns = n /\ object[id].key = k

\* Mutants of LiveAt: an index over confirmed rows only, a lookup that forgets
\* deleted_at IS NULL.
LiveAtConfirmed(n, k) ==
  {id \in ObjectIds : Live(id) /\ Confirmed(id) /\ At(id, n, k)}
LiveAtAnyRow(n, k) == {id \in ObjectIds : Exists(id) /\ At(id, n, k)}

\* Rows the partial unique index counts: deleted_at IS NULL, pending or not.
LiveAt(n, k) == {id \in ObjectIds : Live(id) /\ At(id, n, k)}

\* Mutant of Visible: pending rows are shown.
VisiblePending(id) == Live(id) /\ object[id].ttl # "expired"

\* Rows a reader can be given.
Visible(id) == Live(id) /\ Confirmed(id) /\ object[id].ttl # "expired"
VisibleAt(n, k) == {id \in LiveAt(n, k) : Visible(id)}

\* An id randomUUID() has not returned yet.
Unused(id) == object[id] = Null /\ blob[id] = Null

\* Mutant of OverQuota: storage_used_bytes is left out.
OverQuotaAlone(size) == PlanLimit > 0 /\ size > PlanLimit

OverQuota(size) == PlanLimit > 0 /\ vaultBytes + size > PlanLimit

\* Mutant of NewRow: a new row is always pending, as a presigned one is.
NewRowDefault(r, status, t) ==
  [ns |-> call[r].ns, key |-> call[r].key, size |-> call[r].size,
   status |-> "pending", deleted |-> FALSE, ttl |-> t,
   url |-> status = "pending"]

NewRow(r, status, t) ==
  [ns |-> call[r].ns, key |-> call[r].key, size |-> call[r].size,
   status |-> status, deleted |-> FALSE, ttl |-> t,
   url |-> status = "pending"]

-----------------------------------------------------------------------------
Init ==
  /\ object = [id \in ObjectIds |-> Null]
  /\ blob = [id \in ObjectIds |-> Null]
  /\ vaultBytes = 0 /\ vaultCount = 0
  /\ nsBytes = [n \in Namespaces |-> 0] /\ nsCount = [n \in Namespaces |-> 0]
  /\ audit = {}
  /\ pc = [r \in Requests |-> "idle"]
  /\ call = [r \in Requests |-> Null]
  /\ target = [r \in Requests |-> Null]
  /\ delta = [r \in Requests |-> 0]

\* Request r runs its statement labelled "from"; "to" is the next one.
Goto(r, from, to) == pc[r] = from /\ pc' = [pc EXCEPT ![r] = to]

\* The handler returns: its locals are gone.
Reply(r, from) ==
  /\ pc[r] = from
  /\ pc' = [pc EXCEPT ![r] = "idle"]
  /\ call' = [call EXCEPT ![r] = Null]
  /\ target' = [target EXCEPT ![r] = Null]
  /\ delta' = [delta EXCEPT ![r] = 0]

\* Bound: a store starts only if an id is left for it.
IdLeft ==
  Cardinality({id \in ObjectIds : Unused(id)}) >
  Cardinality({r \in Requests : pc[r] \in {"quota", "lookup", "put",
                                           "insertPending"}})

\* A store of any of the three kinds arrives; its namespace exists.
StartStore(r) ==
  /\ IdLeft
  /\ Goto(r, "idle", "quota")
  /\ \E op \in Operations \cap Stores, n \in Namespaces, k \in Keys,
        s \in Sizes :
       call' = [call EXCEPT ![r] =
                  [op |-> op, ns |-> n, key |-> k, size |-> s]]
  /\ UNCHANGED <<tables, blob, target, delta>>

\* A retrieve or a delete of a key arrives.
StartKeyed(r) ==
  /\ \E op \in Operations \cap (Reads \cup {"delete"}), n \in Namespaces,
        k \in Keys :
       /\ Goto(r, "idle", IF op = "delete" THEN "mark" ELSE "find")
       /\ call' = [call EXCEPT ![r] =
                     [op |-> op, ns |-> n, key |-> k, size |-> 0]]
  /\ UNCHANGED <<tables, blob, target, delta>>

\* A client confirms an upload: it knows the ids it was given a URL for.
StartConfirm(r) ==
  /\ "confirm" \in Operations
  /\ Goto(r, "idle", "confirm")
  /\ \E id \in ObjectIds :
       /\ Exists(id) /\ object[id].url
       /\ target' = [target EXCEPT ![r] = id]
       /\ call' = [call EXCEPT ![r] =
                     [op |-> "confirm", ns |-> object[id].ns,
                      key |-> object[id].key, size |-> 0]]
  /\ UNCHANGED <<tables, blob, delta>>

\* SELECT storage_used_bytes: refuse with 413, or go on.  The presigned store
\* checks only when the client declares a size (a declared 0 is not one).
AfterQuota(op) ==
  CASE op = "direct" -> "put" [] op = "presign" -> "insertPending"
    [] OTHER -> "lookup"

CheckQuota(r) ==
  /\ pc[r] = "quota"
  /\ IF OverQuota(call[r].size) /\ ~(call[r].op = "presign" /\ call[r].size = 0)
     THEN Reply(r, "quota")
     ELSE /\ Goto(r, "quota", AfterQuota(call[r].op))
          /\ UNCHANGED <<call, target, delta>>
  /\ UNCHANGED <<tables, blob>>

\* serac_store: SELECT the live row of the key, whatever its status.
LookupExisting(r) ==
  /\ Goto(r, "lookup", "put")
  /\ LET n == call[r].ns  k == call[r].key IN
     IF LiveAt(n, k) = {}
     THEN UNCHANGED <<target, delta>>
     ELSE \E id \in LiveAt(n, k) :
            /\ target' = [target EXCEPT ![r] = id]
            /\ delta' = [delta EXCEPT ![r] = call[r].size - object[id].size]
  /\ UNCHANGED <<tables, blob, call>>

\* PutObject, under a new id or under the id of the row that was found.
PutNewBlob(r) ==
  /\ target[r] = Null
  /\ Goto(r, "put", "insert")
  /\ \E id \in ObjectIds :
       /\ Unused(id)
       /\ target' = [target EXCEPT ![r] = id]
       /\ blob' = [blob EXCEPT ![id] = call[r].size]
  /\ UNCHANGED <<tables, call, delta>>

OverwriteBlob(r) ==
  /\ target[r] # Null
  /\ Goto(r, "put", "update")
  /\ blob' = [blob EXCEPT ![target[r]] = call[r].size]
  /\ UNCHANGED <<tables, call, target, delta>>

\* INSERT a confirmed row.  A live row of the same key violates the unique
\* index: the handler throws (500) and the blob stays behind.
InsertConfirmed(r) ==
  /\ pc[r] = "insert"
  /\ IF LiveAt(call[r].ns, call[r].key) # {}
     THEN Reply(r, "insert") /\ UNCHANGED object
     ELSE /\ Goto(r, "insert", "nsAdd")
          /\ \E t \in Ttls :
               object' = [object EXCEPT ![target[r]] =
                            NewRow(r, "confirmed", t)]
          /\ delta' = [delta EXCEPT ![r] = call[r].size]
          /\ UNCHANGED <<call, target>>
  /\ UNCHANGED <<blob, vaultBytes, vaultCount, nsBytes, nsCount, audit>>

\* The presigned store: getUploadUrl, then INSERT a pending row, then reply.
InsertPending(r) ==
  /\ Reply(r, "insertPending")
  /\ IF LiveAt(call[r].ns, call[r].key) # {}
     THEN UNCHANGED object
     ELSE \E id \in ObjectIds, t \in Ttls :
            /\ Unused(id)
            /\ object' = [object EXCEPT ![id] = NewRow(r, "pending", t)]
  /\ UNCHANGED <<blob, vaultBytes, vaultCount, nsBytes, nsCount, audit>>

\* serac_store of an existing key: UPDATE ... WHERE id, deleted or not.
UpdateRow(r) ==
  /\ Goto(r, "update", "nsDiff")
  /\ \E t \in Ttls :
       object' = [object EXCEPT ![target[r]].size = call[r].size,
                                ![target[r]].ttl = t]
  /\ UNCHANGED <<blob, vaultBytes, vaultCount, nsBytes, nsCount, audit,
                 call, target, delta>>

\* Mutant of ConfirmMatches: the id alone.
ConfirmMatchesById(id) == TRUE

\* UPDATE ... SET upload_status = 'confirmed' WHERE the token matches and the
\* row is pending.  deleted_at is not looked at; S3 is not asked.  A NULL
\* upload_token matches nothing.
ConfirmMatches(id) == TokenIssued /\ object[id].status = "pending"

ConfirmUpload(r) ==
  /\ pc[r] = "confirm"
  /\ IF ConfirmMatches(target[r])
     THEN /\ Goto(r, "confirm", "nsAdd")
          /\ \E s \in Sizes \cup {object[target[r]].size} :
               /\ object' = [object EXCEPT ![target[r]].status = "confirmed",
                                           ![target[r]].size = s]
               /\ delta' = [delta EXCEPT ![r] = s]
          /\ UNCHANGED <<call, target>>
     ELSE Reply(r, "confirm") /\ UNCHANGED object
  /\ UNCHANGED <<blob, vaultBytes, vaultCount, nsBytes, nsCount, audit>>

\* UPDATE agent_namespaces, agent_vaults after a new confirmed object.
AddToNamespace(r) ==
  /\ Goto(r, "nsAdd", "vaultAdd")
  /\ nsBytes' = [nsBytes EXCEPT ![call[r].ns] = @ + delta[r]]
  /\ nsCount' = [nsCount EXCEPT ![call[r].ns] = @ + 1]
  /\ UNCHANGED <<object, blob, vaultBytes, vaultCount, audit, call, target,
                 delta>>

AddToVault(r) ==
  /\ Goto(r, "vaultAdd", "audit")
  /\ vaultBytes' = vaultBytes + delta[r]
  /\ vaultCount' = vaultCount + 1
  /\ UNCHANGED <<object, blob, nsBytes, nsCount, audit, call, target, delta>>

\* The same after an upsert: bytes only, and without GREATEST.
AdjustNamespace(r) ==
  /\ Goto(r, "nsDiff", "vaultDiff")
  /\ nsBytes' = [nsBytes EXCEPT ![call[r].ns] = @ + delta[r]]
  /\ UNCHANGED <<object, blob, vaultBytes, vaultCount, nsCount, audit, call,
                 target, delta>>

AdjustVault(r) ==
  /\ Goto(r, "vaultDiff", "audit")
  /\ vaultBytes' = vaultBytes + delta[r]
  /\ UNCHANGED <<object, blob, vaultCount, nsBytes, nsCount, audit, call,
                 target, delta>>

\* Mutant of Deletable: no deleted_at IS NULL in the WHERE clause.
DeletableAgain(n, k) == {id \in ObjectIds : Exists(id) /\ At(id, n, k)}

\* UPDATE ... SET deleted_at = NOW() WHERE deleted_at IS NULL RETURNING: one
\* statement finds and marks the row; without a row the answer is 404.
Deletable(n, k) == LiveAt(n, k)

MarkDeleted(r) ==
  /\ pc[r] = "mark"
  /\ IF Deletable(call[r].ns, call[r].key) = {}
     THEN Reply(r, "mark") /\ UNCHANGED object
     ELSE \E id \in Deletable(call[r].ns, call[r].key) :
            /\ Goto(r, "mark", "nsSub")
            /\ object' = [object EXCEPT ![id].deleted = TRUE]
            /\ target' = [target EXCEPT ![r] = id]
            /\ delta' = [delta EXCEPT ![r] = object[id].size]
            /\ UNCHANGED call
  /\ UNCHANGED <<blob, vaultBytes, vaultCount, nsBytes, nsCount, audit>>

\* GREATEST(0, a - b)
Less(a, b) == IF a > b THEN a - b ELSE 0

SubtractFromNamespace(r) ==
  /\ Goto(r, "nsSub", "vaultSub")
  /\ nsBytes' = [nsBytes EXCEPT ![call[r].ns] = Less(@, delta[r])]
  /\ nsCount' = [nsCount EXCEPT ![call[r].ns] = Less(@, 1)]
  /\ UNCHANGED <<object, blob, vaultBytes, vaultCount, audit, call, target,
                 delta>>

SubtractFromVault(r) ==
  /\ Goto(r, "vaultSub", "audit")
  /\ vaultBytes' = Less(vaultBytes, delta[r])
  /\ vaultCount' = Less(vaultCount, 1)
  /\ UNCHANGED <<object, blob, nsBytes, nsCount, audit, call, target, delta>>

\* serac_retrieve of a large object: a download URL, and no audit row.
AnsweredByUrl(r, id) ==
  call[r].op = "mcpRetrieve" /\ object[id].size > MaxInline

\* SELECT the visible row.  REST then signs a download URL, MCP downloads.
FindObject(r) ==
  /\ pc[r] = "find"
  /\ LET found == VisibleAt(call[r].ns, call[r].key) IN
     \/ /\ found = {} \/ \E id \in found : AnsweredByUrl(r, id)
        /\ Reply(r, "find")
     \/ \E id \in found :
          /\ ~AnsweredByUrl(r, id)
          /\ Goto(r, "find", IF call[r].op = "retrieve" THEN "audit"
                                                        ELSE "get")
          /\ target' = [target EXCEPT ![r] = id]
          /\ UNCHANGED <<call, delta>>
  /\ UNCHANGED <<tables, blob>>

\* GetObject: a missing blob throws, and the client gets INTERNAL_ERROR.
GetBlob(r) ==
  /\ pc[r] = "get"
  /\ IF blob[target[r]] = Null
     THEN Reply(r, "get")
     ELSE Goto(r, "get", "audit") /\ UNCHANGED <<call, target, delta>>
  /\ UNCHANGED <<tables, blob>>

\* Mutant of Logged: an action the table does not know.
LoggedUnknown(op) == CASE op \in Reads -> "get" [] OTHER -> "put"

\* The audit row; its failure is swallowed (.catch(() => {})).  Then reply.
Logged(op) == CASE op \in Reads -> "retrieve" [] op = "delete" -> "delete"
                [] OTHER -> "store"

Audit(r) ==
  /\ Reply(r, "audit")
  /\ \/ audit' = audit \cup {<<Logged(call[r].op), call[r].ns>>}
     \/ AuditFails /\ UNCHANGED audit
  /\ UNCHANGED <<object, blob, vaultBytes, vaultCount, nsBytes, nsCount>>

\* A statement fails or the process dies: nothing undoes the earlier ones.
Stop(r) ==
  /\ Faulty /\ pc[r] # "idle"
  /\ Reply(r, pc[r])
  /\ UNCHANGED <<tables, blob>>

Statement(r) ==
  \/ CheckQuota(r) \/ LookupExisting(r)
  \/ PutNewBlob(r) \/ OverwriteBlob(r)
  \/ InsertConfirmed(r) \/ InsertPending(r) \/ UpdateRow(r)
  \/ ConfirmUpload(r) \/ MarkDeleted(r)
  \/ AddToNamespace(r) \/ AddToVault(r)
  \/ AdjustNamespace(r) \/ AdjustVault(r)
  \/ SubtractFromNamespace(r) \/ SubtractFromVault(r)
  \/ FindObject(r) \/ GetBlob(r) \/ Audit(r)

\* The client PUTs data to the presigned URL, at any time and any number of
\* times while the URL is valid; the server is not involved.
ClientUpload(id) ==
  /\ Exists(id) /\ object[id].url
  /\ \E s \in Sizes : blob' = [blob EXCEPT ![id] = s]
  /\ UNCHANGED <<tables, locals>>

\* expires_at passes.
Expire(id) ==
  /\ Exists(id) /\ object[id].ttl = "running"
  /\ object' = [object EXCEPT ![id].ttl = "expired"]
  /\ UNCHANGED <<blob, vaultBytes, vaultCount, nsBytes, nsCount, audit,
                 locals>>

Next ==
  \/ \E r \in Requests : StartStore(r) \/ StartKeyed(r) \/ StartConfirm(r)
                         \/ Statement(r) \/ Stop(r)
  \/ \E id \in ObjectIds : ClientUpload(id) \/ Expire(id)

Spec == Init /\ [][Next]_vars

-----------------------------------------------------------------------------
(* Properties. *)

\* The type of every variable: a row, a blob size or Null for each id, a
\* call and a label for each request.
TypeOK ==
  /\ object \in [ObjectIds -> Row \cup {Null}]
  /\ blob \in [ObjectIds -> Nat \cup {Null}]
  /\ vaultBytes \in Int /\ vaultCount \in Int
  /\ nsBytes \in [Namespaces -> Int] /\ nsCount \in [Namespaces -> Int]
  /\ audit \subseteq {"store", "retrieve", "delete"} \X Namespaces
  /\ pc \in [Requests -> Labels]
  /\ call \in [Requests -> Call \cup {Null}]
  /\ target \in [Requests -> ObjectIds \cup {Null}]
  /\ delta \in [Requests -> Int]

\* The objects the counters are about: confirmed and not deleted.
Counted == {id \in ObjectIds : Live(id) /\ Confirmed(id)}

\* Requests that have changed a row and not yet the vault's counters.
Adding == {r \in Requests : pc[r] \in {"nsAdd", "vaultAdd"}}
Subtracting == {r \in Requests : pc[r] \in {"nsSub", "vaultSub"}}

BytesOf(ids) == MapThenSumSet(LAMBDA id : object[id].size, ids)
DeltaOf(rs) == MapThenSumSet(LAMBDA r : delta[r], rs)

\* The object counter of the vault never falls below the number of confirmed
\* live objects, once the requests in flight are accounted for: a clamped
\* decrement (GREATEST) that overtakes its increment can only leave it high.
VaultCountNeverLow ==
  vaultCount + Cardinality(Adding) >=
    Cardinality(Counted) + Cardinality(Subtracting)

\* The same for the bytes of the vault, which the quota is checked against.
VaultBytesNeverLow ==
  vaultBytes + DeltaOf(Adding) >= BytesOf(Counted) + DeltaOf(Subtracting)

\* Of the deletes of one key that run at the same time one wins: no two
\* requests release the storage of the same row, and the row they release
\* is deleted.
NoDoubleRelease ==
  \A r \in Subtracting :
    /\ Exists(target[r]) /\ object[target[r]].deleted
    /\ \A q \in Subtracting : target[q] = target[r] => q = r

\* An object is credited to the vault once: the request that makes its row a
\* confirmed one is the only one to add it to the counters, however often and
\* in whatever order clients confirm it, repeat the confirm, or store and
\* delete its key.
Crediting(id) == {r \in Adding : target[r] = id}

CreditedOnce ==
  [][\A id \in ObjectIds :
       IF Confirmed(id)
       THEN Confirmed(id)' /\ Crediting(id)' \subseteq Crediting(id)
       ELSE Cardinality(Crediting(id)') <= 1]_vars

\* A key has at most one live row, whatever is upserted, confirmed or deleted
\* at the same time and wherever a request stops.
LiveKeyUnique ==
  \A i, j \in ObjectIds :
    Live(i) /\ Live(j) /\ At(i, object[j].ns, object[j].key) => i = j

\* A reader that has been given a row finds its data in S3: blobs are put
\* before their rows, and nothing takes them away.  The one exception is a row
\* whose client confirmed it without having uploaded: nobody asks S3.
ConfirmedUnasked(id) == TokenIssued /\ object[id].url /\ Confirmed(id)

NoDanglingRead ==
  \A r \in Requests :
    \/ pc[r] = "get"
    \/ pc[r] = "audit" /\ call[r].op \in Reads
    => blob[target[r]] # Null \/ ConfirmedUnasked(target[r])

\* The quota check and the increment are apart, so concurrent stores pass the
\* limit together; but by no more than one object that fits for each further
\* request.
MaxFitting == Max({s \in Sizes : s <= PlanLimit} \cup {0})

QuotaOvershootBounded ==
  PlanLimit > 0 =>
    BytesOf(Counted) <= PlanLimit + (Cardinality(Requests) - 1) * MaxFitting

\* A confirm is refused only for the reason its answer gives, "Object not
\* found or already confirmed": never while the uploaded row is pending.
ConfirmRefusedWhenDone ==
  [][\A r \in Requests :
       pc[r] = "confirm" /\ pc'[r] = "idle" =>
         object[target[r]].status # "pending"]_vars

-----------------------------------------------------------------------------
(* The map a client of the REST handlers sees (VaultStore). *)

\* Labels before the statement that gives a request its effect.
Before == {"quota", "put", "insert", "mark", "find"}

ShownAt(p) ==
  LET found == VisibleAt(p[1], p[2])
  IN IF found = {} THEN Null ELSE blob[CHOOSE id \in found : TRUE]

StateOf(r) == CASE pc[r] = "idle" -> "idle" [] pc[r] \in Before -> "called"
                [] OTHER -> "applied"

AskedBy(r) ==
  LET slot == <<call[r].ns, call[r].key>>
  IN IF pc[r] = "idle" THEN Null
     ELSE CASE call[r].op = "direct" ->
                 [kind |-> "store", slot |-> slot, data |-> call[r].size]
            [] call[r].op = "delete" -> [kind |-> "delete", slot |-> slot]
            [] OTHER -> [kind |-> "read", slot |-> slot]

ResultOf(r) == IF pc[r] = "audit" /\ call[r].op = "retrieve"
               THEN blob[target[r]] ELSE Null

Client == INSTANCE VaultStore WITH
  Slots <- Namespaces \X Keys, Data <- Sizes, Absent <- Null,
  shown <- [p \in Namespaces \X Keys |-> ShownAt(p)],
  state <- [r \in Requests |-> StateOf(r)],
  asked <- [r \in Requests |-> AskedBy(r)],
  result <- [r \in Requests |-> ResultOf(r)]

\* Direct stores, reads and deletes behave like an atomic map: each answered
\* one takes effect once, at one instant, however their statements interleave.
ActsLikeAMap == Client!Spec
=============================================================================
