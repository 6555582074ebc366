# Serac agents: a TLA+ model

Serac is an encrypted object store for software agents. An agent owns a *vault*;
the vault has *namespaces*, and a namespace holds *objects*, each of which is a
row in Postgres and a blob in S3. Agents reach the store through REST routes, an
MCP endpoint and two client libraries. This directory models that code in TLA+,
checks the models with TLC on small instances, and proves with TLAPS, for every
instance, the safety properties that TLC checks.

Paths below are relative to `src/`.

## 1. The system

| part | code | state | operations |
|---|---|---|---|
| object store (REST) | `impl/routes/agent-objects.ts` | `agent_objects`; byte and object counters of vault and namespace; audit log; the S3 bucket | presigned store, confirm, direct store, retrieve, list, delete |
| object store (MCP) | `impl/routes/mcp-server.ts` | the same tables | serac_store (upsert), serac_retrieve, serac_delete, serac_list, serac_quota |
| sessions | `api/routes/agent/auth.ts`, `impl/routes/agent-auth.ts`, `impl/middleware/auth-agent.ts` | Redis: challenges and a counter per vault; Postgres: `is_active`, `is_revoked`; JWTs | challenge, token, api-key, verify, the preHandler of every route |
| vault creation | `impl/routes/agent-vaults.ts`, `api/routes/agent/auth.ts` | vault, first namespace, guardian, first API key | `POST /vaults` (by an owner), `POST /register` (by the agent) |
| vault administration | `impl/routes/agent-vaults.ts`, `migrations/017` | namespaces, API keys, guardians, append-only audit log | create and delete namespaces, create and revoke keys, add guardians |
| archive | `api/routes/agent/archive.ts`, `migrations/020` | `archive_status`; the storage class in S3 | archive, restore, archive-status |
| sharing | `api/routes/agent/share.ts`, `migrations/020` | `vault_shares` | share, read a shared object, list, revoke |
| spending limits | `api/middleware/x402.ts`, `migrations/019` | monthly usage and the month it is for | check before a handler, charge after it |
| TypeScript client | `sdk/src/client.ts` | one JWT and its expiry, shared by all calls | call with renewal and retries |
| Python client | `sdk-python/src/serac_mcp/client.py`, `__init__.py` | a key, a JWT and its expiry | call, register, reauthenticate, with exchanges inside requests |
| attestation | `api/lib/attestation.ts`, `api/routes/agent/attest.ts` | the key of the service | attest, verify |
| crypto, facades | `sdk/src/*`, `sdk-python/src/*` | none but the session, which `register()` and `reauthenticate()` set | |
| registry | `registry/*` | none | |

**How they interact.** Every request passes the session check, then (on the
routes under `api/routes/agent`) the spending check, then its handler. Handlers
share nothing but the database, S3 and Redis, and *no handler but `POST /vaults`
opens a transaction*: a handler is a sequence of separate statements, and any
other request may run between two of them. Foreign keys, unique constraints and
the trigger on the audit log act inside a statement.

**What is hard here.** (1) Interleavings: a value is read in one statement and
used in a later one (quota, limits, month, challenge, status, duplicate share).
(2) A process that stops between two statements leaves what the earlier ones
did; nothing repairs it inside this code. (3) Errors that are swallowed: every
audit insert, the restore request, the charge. (4) Time: TTLs of objects,
challenges, counters, JWTs, shares, restored copies, and the turn of the month.
(5) Constraints of the schema that refuse what a handler takes for granted.
`PROJECT.json` lists the hazards with the line where each bites and the
properties that cover it, or why none does.

**What makes each part correct.**

* Object store: a row that is shown has its data; a key has one live row; the
  counters cover what is stored; deletes and confirms have one winner; an
  acknowledged store can be read; clients see an atomic map.
* Sessions: a challenge serves its own vault only, and not again once it has
  been redeemed; nobody passes its check when it is old or its vault disabled;
  limits end; a disabled vault falls silent.
* Vault: a vault whose key somebody holds is complete; limits hold up to the
  requests in flight; the audit log only grows, and each row keeps the
  namespace it names.
* Archive: the status says where the data is; intermediate states end.
* Sharing: one share in force, or as many as sharings that overtook the check.
* Spending: the limit is kept up to the requests in flight; the counter is what
  was delivered.
* Clients: a call ends, is sent a bounded number of times, and (TypeScript)
  first with a JWT unless another call is renewing it.

## 2. Modules

| module | models | proved about |
|---|---|---|
| `AgentObjects` | the REST and MCP handlers on objects of one vault | `AgentObjectsProofs` |
| `VaultStore` | the abstract promise: an atomic map from (namespace, key) to data | `AgentObjectsProofs` |
| `NamespaceDrop` | `AgentObjects` composed with the deletion of namespaces | `AgentObjectsProofs` |
| `AgentAuth` | sessions | `AgentAuthProofs` |
| `VaultSetup` | creating vaults | `VaultSetupProofs` |
| `AgentVaults` | administering one vault, its audit log | `AgentVaultsProofs` |
| `VaultLife` | a vault from its creation to its use: `VaultSetup`, then `AgentVaults` | |
| `AgentArchive` | archive, restore, status; S3's storage classes | `AgentArchiveProofs` |
| `AgentShare` | sharing | `AgentShareProofs` |
| `X402` | the spending middleware of one vault | `X402Proofs` |
| `SdkClient` | one TypeScript client and the answers it may get | `SdkClientsProofs` |
| `PyClient` | one Python client and the answers it may get | `SdkClientsProofs` |
| `SdkClients` | a program that uses either client; what both promise | `SdkClientsProofs` |

`MC<module>` extends a module with symmetry sets and, for `AgentShare`, `X402`
and `NamespaceDrop`, the values of constants that a cfg cannot write. `SdkClients`
is checked as it is.

**Compositions.** `NamespaceDrop` adds one action of another component to the
store: a namespace goes and takes its objects along (foreign key) while requests
may be at work in it. It reuses every action of `AgentObjects`; a request whose
namespace is gone finds no row, or breaks the foreign key (`Stranded`).
`VaultLife` runs `VaultSetup` until a client uses a key it was given (`Open`), and
`AgentVaults` from then on, from the rows that the setup left; that these are the
rows `AgentVaults` begins with, whichever route made them, is `OpensComplete`.
`SdkClients` puts the two clients next to each other so that liveness and
budgets are stated once for both. `AgentArchive` and `AgentShare` contain, as
actions of an environment, what the other handlers do to the rows they use
(deletion, archiving, cascades, disabling, `serac_store` writing over an archived
object).

### Conventions

A request is a process `r` with a label `pc[r]`, the statement it runs next, and
its locals (`call`, `target`, `delta`, ...). Each SQL statement, Redis command
or S3 call is one action, atomic as it is there; the computation between two of
them belongs to the one before. `Reply` is a `return` or a `throw`: the locals
go. A statement that cannot succeed (a unique constraint, a foreign key, a
trigger) replies with an error and changes nothing. `Stop(r)`, enabled by
`Faulty` or `Crashes`, ends a request between two statements. Where nothing is
written between two awaits, a step still ends at each of them: what was read
before may be out of date after it. Data is abstract:
a size stands for the data of an object, `ttl` is "none", "running" or
"expired", a JWT is a state of being usable.

**Variants.** The source holds some handlers twice, or a client and a server
that do not fit; the models follow the variant in which the rest of the handler
runs.

* `AgentObjects!TokenIssued` is FALSE for the code as it is: the INSERT of the
  presigned store leaves `upload_token` NULL, so that no confirm ever matches
  (`v_confirm`). TRUE is the flow that the schema describes ("One-time token to
  confirm presigned upload"), without which the handler of the confirm would
  never get past its first statement; `objects_faulty` runs with it, and the
  theorems hold for both.
* `AgentAuth` verifies signatures as `impl/routes/agent-auth.ts` does, with
  libsodium on the raw key. `api/routes/agent/auth.ts` has the same statements
  around `createPublicKey`, which takes the raw key for DER and throws: there no
  signature is accepted, whatever it is.
* `SdkClient` lets the server accept the key exchange. `sdk/src/client.ts`
  sends `api_key`, `api/routes/agent/auth.ts` reads `apiKey`; against that
  server every exchange is refused, which is one of the answers of the model.

**History variables.** Four modules keep what has happened so far in a variable
that no guard reads, so that a property can say exactly when it fails:
`AgentArchive!mishaps` (per object: two requests at once, a request that
stopped, a lost restore request, a copy to the cold class that took effect
though its call failed, a dropped copy, data written over one that is not
active), `AgentShare!raced` (object and
target of two sharings that passed the duplicate check together),
`X402!slips` (a failed charge, a charge in another month, a second reset) and
`NamespaceDrop!lost`, `overrun` (what went with the namespaces, and whether one
went under a running request). A
property that names some of them was checked to fail without each one it names.

**Correspondence.** `PROJECT.json` maps every definition to its lines. In short:

* `AgentObjects`: `StartStore` .. `CheckQuota` .. `PutNewBlob` ..
  `InsertConfirmed` .. `AddToNamespace` .. `AddToVault` .. `Audit` is
  `POST /store/direct` top to bottom; `InsertPending` ends the presigned store,
  `ConfirmUpload` begins its confirm; `LookupExisting`, `OverwriteBlob`,
  `UpdateRow`, `AdjustNamespace`, `AdjustVault` are the upsert branch of
  `toolStore`; `MarkDeleted`, `SubtractFromNamespace`, `SubtractFromVault` the
  delete, with `Less` for `GREATEST(0, ...)`; `FindObject`, `GetBlob` the reads
  (`AnsweredByUrl`: serac_retrieve of an object above `MaxInline`, which is 1 MiB,
  gives a URL, asks S3 for nothing and writes no audit row).
  `ClientUpload` (a client that PUTs to its URL) and `Expire` are the
  environment. The unique constraint of `migrations/017` lines 217-218 is
  modelled by its intent, over rows with `deleted_at IS NULL`. (As written, a
  table constraint with a WHERE clause, PostgreSQL does not take it; it has to
  be a partial unique index.)
* `AgentAuth`: `CheckVault`, `CountChallenge` (INCR), `StartWindow` (EXPIRE),
  `StoreChallenge`; `GetChallenge`, `DelChallenge`, `CheckChallenge` (vault and
  age), `ReadVault`, `VerifySignature`, `MintFromChallenge`, `ResetRate`, each up to
  the next await; `LookupKey`, `MintFromKey`; `Authenticate`, `FinishCall`.
  `expires_at` of an API key and `agentNamespaceId` of a session are set and
  never read by this code, so they are not state.
* `VaultSetup`: `Transaction` (`POST /vaults`), `InsertVault` and
  `InsertNamespace` (`POST /register`), then `InsertKey` and `Answer`, which
  shows the key, for both. The module follows the INSERT of `/register`, whose
  columns no migration in `src/` creates and whose owner may be NULL, while
  `migrations/017:31` has `owner_id` NOT NULL: under that schema the statement
  fails and the module has more behaviours than the program, not fewer.
* `AgentVaults`: counting and inserting namespaces and keys, looking up and
  deleting a namespace, revoking, guardians, and of a store its two INSERTs (`InsertObject`, `AuditStore`). The trigger of the
  audit log is `Blocked`, its foreign key `Referable`.
* `AgentArchive`: the statements of the three handlers against `status`
  (Postgres) and `class` (S3: standard, cold, thawing, warm). `CopyToGlacier` has
  three outcomes: made, not made, and made while the call failed, which the catch
  takes for not made. `Overwrite` is `serac_store` on a key that exists.
* `AgentShare`: `FindSource`, `FindTarget`, `CheckDuplicate`,
  `ReadNamespaceKey`, `InsertShare` is the share handler top to bottom;
  `RevokeShare` is one statement.
* `X402`: `readUsage`, `reset`, `handler`, `charge`; `getOperationCost` is a
  function on paths. The module takes any path; in `src/` the middleware stands
  before the share, attest and archive routes only, and the store and list routes
  of `impl/routes/agent-objects.ts`, which the price table names, charge nothing.
  The run calls paths of the former; among them archiving an object called
  "store", which begins with the entry of the store route.
* `SdkClient`: `auth` (before the loop), `answer`, `reauth`, `sleep`; renewal is
  the client's own (`refreshAuth`) or its user's (`reauthenticate()`).
  `authenticate()` sets `this.jwt` in one microtask and `request()` reads it in a
  later one (`resume`). Other calls whose answers are in may run between the two,
  each up to its next await: `ran` keeps what they await from being answered
  before the microtasks are through.
* `PyClient`: `_request()` is the loop `answer`, `sleep`; `Unauthorized` starts
  the exchange inside a request that was answered 401, `Return` ends it and
  repeats the request once (`again`), `Raise` unwinds all requests that wait.
  Only the number of those (`depth`) is state: whatever the exchange does, their
  loops are over.

## 3. What the runs check

Each component has one type invariant, checked in one of its runs. Bounds are
named in the modules (`IdLeft`, `ChallengeLeft`, `ShareIdLeft`, `MaxDelivered`,
`MaxWindows`, `MaxExpiries`, `LastMonth`, `MaxObjects`, `PyClient!More`) and limit how much
happens, never what a step does.

| run | instance | states | what it shows |
|---|---|---|---|
| `objects_concurrent` | 2 requests, 3 keys, 3 objects, sizes 1 and 2, plan limit 2; direct store, delete, retrieve; every object has a TTL | 1.0M | `AgentObjects` implements `VaultStore`; vault counters never below what is stored (in flight included); overshoot of the quota: one object for each further request |
| `objects_faulty` | 2 requests, 1 key, 2 objects, all 7 operations, upload tokens, any may stop, audit inserts fail | 1.8M | shown rows have data, but for uploads confirmed and never made; one live row per key; one winner of a delete; one credit for each object, however often it is confirmed |
| `objects_serial` | 1 request, 2 namespaces of which one may be deleted, 3 objects, 2 sizes, upserts, large reads, failing audit inserts | 128k | the vault's counters are a recount plus what went with deleted namespaces, those of a namespace are a recount; a store leaves what was sent |
| `auth_challenge` | 2 requests, which may stop, 2 vaults, 1 challenge, any signer | 606k | a redeemed challenge is gone; redemptions of it have overlapped; it serves its own vault; nobody passes the check for an old challenge or a disabled vault |
| `auth_limits` | 2 requests, 1 vault, limit 1, 2 windows, 2 challenges; exchanges and calls; fair | 223k | issues bounded per window; the counter always expires; a lockout ends; a disabled vault falls silent |
| `vaults` | 2 requests, 3 vaults and 2 names to create, which may stop; then limits 1 (namespaces) and 1 (keys), 3 ids each, failing audit inserts | 681k | a held key opens a complete vault, the one `AgentVaults` begins with; limits passed by one row for each further request at most; audit rows never change and keep the namespaces they name |
| `archive` | 3 requests, 1 object; S3 calls fail or seem to, requests stop, copies go, data is written over; fair | 639k | which mishaps part status and data, or leave an object in archiving or restoring, and that nothing else does |
| `share` | 2 requests, 4 vaults of which two have one key, 3 shares, everything else that changes the rows | 734k | one share in force unless two sharings overtook the check, and no more than requests at one time |
| `x402` | 3 requests, limit 3, 2 months, failing charges | 867k | overshoot bounded by the other requests; counter equals what was delivered unless one of three slips happened |
| `sdk` | TypeScript: 2 calls, 3 attempts each, every answer, 1 expiry. Python: 3 exchanges deep, every answer, a key that is revoked; fair | 336k | budgets bound how often a call is sent and carried out; a TypeScript call is first sent without a JWT only while the other renews it; every call ends |
| `v_confirm` | 1 request, presigned flow | | see "Where code and text disagree" |
| `v_renew` | the Python client, one expiry, no other failure | | see "Where code and text disagree" |

**Why the bounds are enough.** The hazards are races of two requests, or of one
request and the environment, on one row. Two requests and one key give every
pairwise interleaving; where a claim counts the requests in flight (quota,
limits, overshoot) the bound is stated with the number of requests and 2 or 3 of
them reach it, while the instance has room for more: three objects of size 2 make
6 where the quota with two requests allows 4 (`objects_concurrent`, which is why
it has three keys and ids), and three namespaces or keys exceed a limit of 1 by
two where two requests may exceed it by one (`vaults`). In `objects_concurrent`
every object has a TTL that may run out or not, so it stands for objects without
one too; a large object and one that fits are sizes 2 and 1. Objects can be
stored, deleted and stored again in `objects_serial`, which also has two
namespaces whose counters could be confused, one of which may go with its
objects, also in the middle of a request; `MaxInline` of 1 makes size 2 a large
object for serac_retrieve. One challenge in `auth_challenge` is redeemed by both
requests for either vault; a second would meet the same statements. Revoking a
key lets the key limit of 1 be reached anew. Two windows and two challenges let a
reset, an expiry and a refusal follow one another in `auth_limits`; three levels
of exchanges are one in a call, one in an exchange and one in that, after which
they repeat; one JWT that expires is enough for a call to be answered 401 while
the other is at any await; the month starts stale or not and turns once, so that
a stale reset meets a charge and a charge meets the next month. Each property
has a mutant of the code in its module (a definition next to the original with a
comment) that the same instance catches, so the instance is large enough for the
case to happen.

`CHECK_DEADLOCK FALSE` appears where an environment that has used up its bound
and clients that ask for nothing more leave nothing to do: a disabled vault, no
ids left, all objects deleted, the last month spent.

Symmetry is used in runs without liveness properties only, over sets whose
members the code cannot tell apart (requests, ids, keys).

### Fairness

* `AgentAuth!FairSpec`, `AgentArchive!FairSpec`, `SdkClients!ClientsSpec`: weak
  fairness of the statements of each request, and of the Python client's steps
  (its `urlopen` has a timeout, `time.sleep` ends). A request on Node's event loop
  whose statement has been answered goes on; the client's fetches end by
  `AbortSignal.timeout`, its sleeps by a timer, and a microtask always runs. Requests are never *obliged to
  start*.
* `AgentAuth`: weak fairness of the expiry of the rate counter, which Redis
  guarantees for keys with a TTL.
* `AgentArchive`: weak fairness of S3 finishing a restore it has accepted, and
  strong fairness of clients polling the status, because only a poll moves
  restoring to active (the header of `archive.ts` tells clients to poll), and of
  a poll that finds the copy ready: S3 may fail now and then, not each time.

### Where code and text disagree

`v_confirm` checks `ConfirmRefusedWhenDone`, what the answer of the confirm
handler says ("Object not found or already confirmed"), and TLC finds it
violated: no presigned upload can be confirmed, because the store never sets the
token the confirm compares (`impl/routes/agent-objects.ts:118-149`, `:178`).

`v_renew` checks `PyRenewsItself`, what the Python SDK says of itself ("Automatic
JWT renewal", `sdk-python/README.md:57`; "SDK auto-renews", `__init__.py:330`): a
call does not report a 401 with a good key before it has tried to renew the JWT.
TLC finds it violated by a client whose JWT has expired: the exchange happens only
while there is no JWT at all (`client.py:115`), and `reauthenticate()` returns a
JWT without keeping it. That such a client never gets another JWT is
`PyExpiredForGood`, which is proved.

Other differences met while modelling shape the properties, which are stated for
what the code does keep:

* Objects. The counters may end too high when a delete overtakes the counter
  updates of a store (`agent-objects.ts:448`, `GREATEST(0, ...)`), and too low
  when a pending row is deleted (`:437`) or two upserts subtract one old size
  (`mcp-server.ts:225`); a recount is compared for one request at a time, and
  "never low" is stated without presigned stores and upserts. An upsert over a pending row
  leaves it pending (`mcp-server.ts:226`). Concurrent stores pass the quota
  ("Cutoff immédiat", `architecture/gap-analysis.md:156`).
* Sessions. Two overlapping redemptions may both succeed (GET and DEL,
  `impl/routes/agent-auth.ts:242-243`; "single-use", `impl/INTEGRATION.md:112`);
  `RedemptionsBounded` says how many. A challenge may grow old, and its vault be
  disabled, while the signature is verified and the JWT signed
  (`impl/routes/agent-auth.ts:258-323`); nothing is read again.
  A process that stops between INCR and EXPIRE leaves a counter that never
  expires (`api/routes/agent/auth.ts:375`).
* Vaults. The foreign key of the audit log sets `namespace_id` to NULL on delete
  and its trigger refuses that, so a namespace with audit rows cannot be deleted
  (`migrations/017:111`, `:134`); the audit row of a deletion names a namespace
  that is gone and is dropped (`agent-vaults.ts:377`; "every action logged",
  `impl/INTEGRATION.md:113`); the protected name is "default" and `/register`
  calls the first namespace "memory" (`auth.ts:223`); objects that go with a
  namespace stay in the vault's counters (`agent-vaults.ts:374`), which
  `NamespaceDrop` models for a namespace whose audit inserts failed; the guardian
  INSERT reads `guardianEncryptedMasterKey`, which its schema does not have
  (`agent-vaults.ts:528`).
* Setup. A registration that stops after its first INSERT leaves a vault without
  namespace and key (`auth.ts:217`).
* Archive. The mishaps of `AgentArchive`: the catch after a failed copy writes
  active without asking S3 what became of it (`archive.ts:84-90`), and
  `serac_store` writes over the data of an archived object without looking at
  `archive_status` (`mcp-server.ts:214`), so that it stays archived and is not
  cold. The audit rows of archive and
  restore give an object's id as `namespace_id` and are refused
  (`archive.ts:105`, `:180`). An object whose restored copy has gone is active,
  unreadable, and neither archivable (the copy fails) nor restorable (it is not
  archived).
* Sharing. No constraint backs the duplicate check ("Prevent duplicate active
  shares", `share.ts:112`).
* Spending. Reset and charge do not compare months (`x402.ts:63`, `:83`); a path
  `/objects/:key/archive` does not begin with the price entry written for it
  (`x402.ts:40`), so archiving is free in the model as in the code.
* TypeScript client. An attempt, the first one included, takes `this.jwt!` while
  another call has set it to null (`client.ts:96`, `:53`): between the end of
  `authenticate()` and the header lie microtasks, in which the other may run.
  A 401 on a later attempt is final
  (`:119`). The facade sends the namespace of archive and restore in the body
  (`sdk/src/index.ts:328`, `:336`) where the routes read the query
  (`archive.ts:43`, `:129`), and a query string is never a `z.boolean()` or
  `z.number()` (`share.ts:41-42`).
* Python client. A failure of the repeated request is dropped and reported as the
  401 from before it.
* Sharing, again. The header says that the server re-encrypts the namespace key
  for the target (`share.ts:13-14`); the handler stores the owner's encrypted
  key as it is and its comment leaves the rest to a later version (`:137-140`).
  The model keeps who has which share and not what a key decrypts.
* Attestation. The handler selects `o.uploaded_at` (`attest.ts:56`), which no
  migration creates; every attest ends with 500.

## 4. What is proved

Eight modules hold proofs; each extends the module it is about
(`AgentObjectsProofs` covers the store, its refinement of `VaultStore` and
`NamespaceDrop`; `SdkClientsProofs` the three client modules) and assumes only
the named ASSUME of that module: requests and ids are finite sets where
something is counted, limits are naturals (positive where the code's are), `Null`
is none of the values it stands in for. Nothing bounds the number of requests,
vaults, objects, keys, challenges, months or attempts. Every invariant and action
property of a run that passes, and the refinement, is stated by a theorem; the
one exception is `VaultLife`, of which the two modules that it joins are proved
about each by itself and `OpensComplete`, the joint between them, is checked.

| module | theorem | statement | under |
|---|---|---|---|
| `AgentObjectsProofs` | `TypeCorrect` | `Spec => []TypeOK` | |
| | `DeleteHasOneWinner` | `Spec => []NoDoubleRelease` | |
| | `CreditHasOneWinner` | `Spec => CreditedOnce` | |
| | `OneLiveRowPerKey` | `Spec => []LiveKeyUnique` | |
| | `CountNeverLow` | `Spec => []VaultCountNeverLow` | no request stops half-way, no presigned stores |
| | `ReadsFindTheirData` | `Spec => []NoDanglingRead` | |
| | `BytesNeverLow` | `Spec => []VaultBytesNeverLow` | no stops; direct stores, deletes, reads |
| | `OvershootBounded` | `Spec => []QuotaOvershootBounded` | no stops; direct stores, deletes, reads |
| | `ObjectsActLikeAMap` | `Spec => ActsLikeAMap`, that is `Client!Spec` | no stops; direct stores, deletes, retrievals |
| | `StoresTakeEffect` | `DropSpec => []StoreTakesEffect` | one request; no presigned stores |
| | `CountersAddUp` | `DropSpec => []CountersExplained` | one request; no presigned stores, no stops |
| `AgentAuthProofs` | `TypeSafe` | `Spec => []TypeOK` | |
| | `RedeemedIsGoneSafe` | `Spec => []RedeemedIsGone` | |
| | `RedemptionsBoundedSafe` | `Spec => []RedemptionsBounded` | |
| | `MintedRightSafe` | `Spec => MintedRight` | |
| | `IssueBoundedSafe` | `Spec => []IssueBounded` | |
| | `CounterWillExpireSafe` | `Spec => []CounterWillExpire` | `~Faulty` |
| | `DisabledGetsNoHandler` | `Spec => [][DisabledStep]_vars` | |
| `AgentVaultsProofs` | `TypeSafe` | `Spec => []TypeOK` | |
| | `LimitsOvershootBoundedSafe` | `Spec => []LimitsOvershootBounded` | |
| | `AuditAppendOnlySafe` | `Spec => AuditAppendOnly` | |
| `VaultSetupProofs` | `TypeSafe` | `Spec => []TypeOK` | `SetupAssumption`, on the constants |
| | `HeldIsUsableSafe` | `Spec => []HeldIsUsable` | `SetupAssumption` |
| `AgentArchiveProofs` | `TypeSafe` | `Spec => []TypeOK` | |
| | `StatusTruthfulSafe` | `Spec => []StatusTruthful` | |
| | `ArchivingIsAttended` | `Spec => []ArchivingAttended(o)` for each object | |
| | `RestoringIsAttended` | `Spec => []RestoreAttended(o)` for each object | |
| `AgentShareProofs` | `TypeSafe` | `Spec => []TypeOK` | |
| | `OneActiveShareSafe` | `Spec => []OneActiveShare` | |
| | `SharesBoundedSafe` | `Spec => []SharesBounded` | |
| `X402Proofs` | `TypeSafe` | `Spec => []TypeOK` | |
| | `OvershootBoundedSafe` | `Spec => []OvershootBounded` | |
| | `ChargesExactSafe` | `Spec => []ChargesExact` | |
| `SdkClientsProofs` | `TypeSafe`, `ClientsTypeSafe` | `[]TypeOK`, `[]ClientsTypeOK` | |
| | `AttemptsBoundedSafe` | `Spec => []AttemptsBounded` | |
| | `FirstSentWithTokenSafe` | `Spec => FirstSentWithToken` | |
| | `PyAttemptsBoundedSafe` | `ClientsSpec => []PyAttemptsBounded` | |
| | `PyExpiredForGoodSafe` | `ClientsSpec => PyExpiredForGood` | |
| | `CallsGetNearer` | each step of a call lessens `Work(r)`, no step adds to it | |
| | `PyCallsGetNearer` | each step of the call lessens `PyWork`, no step adds to it | |

The hypotheses in the last column are those of the runs, and each is needed.
A request that stops, or a statement that fails, between a row and its counters
leaves counters that no recount explains, and a delete that ends with an error
while its object is there is a refusal that an atomic map does not give. An upsert adds the difference to a size that it read several statements
ago: two of them, or one and a delete, leave `bytes_used` below what is stored,
so the byte counters are exact only for one request at a time and bounded below
only without upserts. Deleting a presigned row that was never confirmed
subtracts what was never added, and an upsert of such a row leaves it
unconfirmed. What is proved under no hypothesis holds with
all of this going on.

**The shape of each proof.** `TypeOK` alone is hardly ever inductive: an action
that uses the arguments of its request needs to know that the request has some.
`TypeInv` (`TypeOK` with `LocalsOK` or `Progress`) says at which labels arguments
and a target are there. On top of it stands one strengthening for each property:

* `AgentObjects`, winners: `WinnerInv == FreshOK /\ NoDoubleCredit /\
  NoDoubleRelease /\ LiveKeyUnique`, where `NoDoubleCredit` says that no two
  requests credit one object at a time. One winner of a delete follows from the
  single statement that finds and marks the row, but the step needs that the row
  was live before, and that a row being credited and a row about to be inserted
  are not the same: `FreshOK` (an id between PutObject and INSERT has a blob, no
  row and one owner) gives that. Most statements are dismissed together by
  `WinnerQuiet`.
* `AgentObjects`, credits: `CreditedOnce` is about the life of a row and not about
  one state. `RowKept`: no statement takes a row away or makes a confirmed one
  pending again. `CreditsBegin`: only an INSERT or a confirm that finds the row
  not confirmed takes a request to where it credits. So from its confirmation on
  the requests that credit an object only get fewer (`CreditSteps`).
* `AgentObjects`, counter: `CountInv == NoPending /\ VaultCountNeverLow`. Each
  statement moves at most one id between `Counted`, `Adding` and `Subtracting`
  and changes `vaultCount` accordingly; `CountKept` states what that does to
  cardinalities. A clamped decrement leaves the counter no lower than an exact
  one. The theorem needs that nothing is pending (deleting a pending row
  subtracts what was never added) and that no request stops before its increment.
* `AgentObjects`, reads: `BlobInv`, confirmed rows have blobs, unless a confirm,
  which does not ask S3, made them so (`ConfirmedUnasked`), and a request that
  reads holds a confirmed row. A row that is not confirmed has an upload URL, so
  only such rows can be the exception; without tokens there are none.
* `AgentObjects`, sums: `Total(f, S)` adds up a function over a finite set. The
  library defines such a sum by a fold, a recursive function on subsets, and an
  induction on those would need an operator as a parameter. Instead
  `IsTable(g, f, S)` says that a function tabulates the sums of all subsets; a
  table that were wrong somewhere would be wrong at a smallest subset, and it is
  not. From this follow what one uses: the sum of a set and one more element, of
  a function changed at one place, of a part, of a larger function.
* `AgentObjects`, bytes: `BytesInv`, what the counter and the requests about to
  add to it hold covers the confirmed live rows and what is about to be
  subtracted. Each step has one of six effects on these sums (`Effects`); a
  clamped decrement is covered by the counter it clamps. `QuotaInv`: counter and
  what is owed stay within the limit and one fitting object for each other
  request; only the step that passes the quota check adds to what is owed, and
  it finds the counter low enough, while each of the others owes one object at
  most.
* `AgentObjects`, refinement: `MapInv` collects what the mapping rests on: types,
  one live row for each key, rows that are all confirmed, rows that have their
  blob. Each concrete step maps to one abstract step or to none, with a lemma for
  each abstract action (what must be shown of the mapped variables) and one for
  each kind of concrete step (why it is so). The instant of a store is its
  INSERT, that of a delete the UPDATE that finds and marks the row, that of a
  retrieval the SELECT; what follows changes counters and logs that the map does
  not have. A TTL that runs out is `Lapse`.
* `NamespaceDrop`: `SerialInv`, at each label the row and the blob of the one
  request are as its earlier statements left them, unless its namespace is gone
  (`Dropped`); `StoresTakeEffect` needs it with stops too, since a stop only ends
  the request. `BalancedInv`: counters plus what the request has still to bring
  (`VaultDue`, `NsDue`) are a recount plus what deleted namespaces took along.
  When no request runs nothing is due.
* `AgentAuth`, redemptions: `Redeemed`, a request that is past the DEL finds its
  challenge gone, and a redeemed challenge keeps its vault, so its id is not
  issued again. Two requests may both be past the GET; neither brings it back.
  `RedemptionsBounded` is inductive next to it: a request joins `Redeeming` while
  the challenge is stored and nothing has been minted, and leaves it for one JWT.
* `AgentAuth`, minting: `Checked`, a request at each label of the redemption has
  passed the checks before it as far as nobody can undo them (whose challenge it
  is, who signed it). Age and `is_active` are not such facts: they may have
  changed by the time the JWT is signed, and the theorem says of them only that
  those past the check get no company (`ChecksClose`).
* `AgentAuth`, limit: `Budgeted(v)`, what was issued, what has been admitted and
  not issued, and what the window still admits fit into `MaxChallenges` for each
  window begun. An expiry or a DEL between INCR and issue empties the last part
  only; each first INCR begins a window. `CounterWillExpire` is proved without
  stops, for which it is false.
* `AgentAuth`, disabled vaults: the statement that admits a request to a handler
  reads `is_active` in that step, and nothing sets it again. So the handlers of
  a disabled vault only get fewer.
* `AgentVaults`, limits: `LimitsInv` counts the requests between COUNT and INSERT
  as if they had inserted; the last to count saw room, the others may all have
  counted before it. Audit log: `AuditRefers`, the foreign key; a deletion that
  is not refused by the trigger finds no audit row of its namespace.
* `VaultSetup`: `HeldInv`, a request at each label has inserted what the labels
  before it insert (`Equipped`); no statement takes anything away (`Grows`).
* `AgentArchive`: `Sound(o)`, an object without an overlap has one
  request at most, which finds what its next statement relies on (`Fits`), and
  is `Settled` otherwise, both up to what the mishaps of the object excuse in
  either direction (`CanRead`, `IsCold`). Requests that stop and calls to S3 that
  fail, or seem to, are among the steps. `AttendedInv` stands next to it: a
  status of archiving has a request at work that will replace it, one of restoring
  a request that is about to ask S3 or a restore that S3 has taken on, unless a
  mishap that the property names has happened.
* `AgentShare`: `Orderly(o, v)`, unless two sharings overtook the check, one
  at most is past it, and then no share is in force. `Crowd(o, v)`, the bound when
  they did: a share in force and a request past the check count alike, a request
  passes the check only when no share is in force, and an INSERT turns the one
  into the other.
* `X402`, limit: `OwedInv`, the counter and what may yet be charged pass the limit
  by the price of the other requests. A sum over requests would need an
  induction; since a price is 0, 1 or 2 it is the number of requests that owe at
  least one cent and the number of those that owe two. Counter: `Books`, the
  same device for what is about to be charged to the month of the counter, with
  nothing delivered in a later month and nobody let through for one.
* Clients: `Counted(r)`, the number of the attempt is the number of requests
  sent; `FirstInv`, what sleeps is not a first attempt, and a call that has still
  to resume finds the JWT it got or somebody who renews it (`Renewing`): whoever
  dropped it ran since, and what it awaits is not answered before the call has
  resumed; `PyChain`, an exchange
  inside an exchange means that the key is revoked, so no exchange returns a JWT
  to another; `PyCounts`, each level of exchanges has sent its attempts.
  `Work` and `PyWork` are naturals that weigh what is left of a call (attempts,
  sleeps, exchanges it may still begin, repetitions on the way out) so that each
  answer and each sleep that ends makes them smaller.

**What stays with TLC.** Liveness under fairness, which the prover does not
reach: `LockoutEnds`, `DisabledVaultDrains`, `ArchivingEnds`, `RestoreCompletes`,
`CallsEnd`. For each, the safety part of its argument is a theorem: a counter
that locks out has a TTL (`CounterWillExpireSafe`); a disabled vault gets no
further handler (`DisabledGetsNoHandler`); whoever waits for an archive or a
restore waits for somebody (`ArchivingIsAttended`, `RestoringIsAttended`); a
call has a natural number of steps ahead of it, which each of its steps lessens
(`CallsGetNearer`, `PyCallsGetNearer`). What TLC adds is that fairness turns
these into an end.

## 5. What is not modelled

* Encryption, hashing, encodings and what the two facades do with them: pure
  functions.
* `serac_list`, `serac_quota` and the GET routes that list: they read, in one
  statement; the lists have no cursor that could go stale.
* The JSON-RPC dispatcher, schemas of inputs (a request that fails them changes
  nothing), the per-IP limits of Fastify.
* `lib/s3`, `lib/redis`, the database client and the clean-up and reconciliation
  jobs: not in `src/`; S3 and Redis are modelled from how they are used.
* The payment and rate-limit tables of migration 019: no code uses them.
* In `X402`, which route charges: the middleware is modelled for any path.
* Time zones in `x402.ts`; a month is a number. Which zone the database and the
  process run in is configuration outside `src/`.
* Attestation: the query of the handler names a column that does not exist, so no
  request gets past it. What would follow is one hash and one signature with a
  key fixed when the process starts, and the verification is a pure function.
* Route registration and the catalogue entries: no state.

Three hazards of `PROJECT.json` have no property. Deleting a row that was never
confirmed (`agent-objects.ts:437`) makes the counters too low: the properties
leave that case out and say so. An upsert that stops between blob and row
(`mcp-server.ts:214`) breaks whatever one would say of a stopped request. The
zone of the month (`x402.ts:59`) is not in the model.

## 6. What could follow

The order in which the modules were written is that of section 2: the store is
what the product promises, sessions guard all of it, and the rest builds on
both. Left over:

1. A composition of `AgentArchive`, `AgentShare` and `AgentObjects` over one table
   of objects (delete, archive, cascade and share of one object at once), in place
   of the environment actions of the separate modules.
2. `OvershootBounded` of `X402` for several vaults that pay, when the payment tables of
   migration 019 are used.

## 7. Running

    tlc -workers 2 -config objects_concurrent.cfg MCAgentObjects.tla
    tlc -workers 2 -config objects_serial.cfg MCNamespaceDrop.tla
    tlc -workers 2 -config sdk.cfg SdkClients.tla
    tlapm AgentObjectsProofs.tla

Run names are cfg names; `PROJECT.json` gives each run's module and properties.
