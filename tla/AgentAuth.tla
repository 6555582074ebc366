------------------------------ MODULE AgentAuth ------------------------------
(***************************************************************************)
(* How an agent gets and uses a session: the challenge, token, api-key and *)
(* verify handlers of api/routes/agent/auth.ts, and the check in front of  *)
(* every other agent route (impl/middleware/auth-agent.ts and              *)
(* authenticateMcpRequest).  impl/routes/agent-auth.ts has the same        *)
(* handlers but for one step: it verifies a signature with libsodium,      *)
(* which takes the raw public key; the other file gives the raw key to     *)
(* createPublicKey as DER, which throws.  The model follows the former.    *)
(*                                                                         *)
(* Redis keeps the challenges and one counter per vault; Postgres keeps    *)
(* is_active and is_revoked; a JWT is stateless.  As in AgentObjects, each *)
(* Redis command and each SQL statement of a request is one action.        *)
(***************************************************************************)
EXTENDS Integers, FiniteSets

CONSTANTS
  Requests, Vaults,
  Challenges,     \* what randomBytes(32) can return: the bound on challenges
  MaxChallenges,  \* MAX_CHALLENGES_PER_HOUR
  MaxWindows,     \* bound on the rate windows of a vault
  Faulty,         \* TRUE: a request may stop between any two statements
  Operations,     \* subset of {"challenge", "token", "exchange", "call"}
  Null

VARIABLES
  active,     \* agent_vaults.is_active
  revoked,    \* is_revoked of the API key of each vault
  rate,       \* Redis challenge_rate:<vault>; 0 when the key is absent
  rateTtl,    \* does that key have an expiry
  stored,     \* Redis challenge:<challenge> is present
  old,        \* more than CHALLENGE_TTL_SECONDS since its timestamp
  issuedTo,   \* the vault each challenge was issued to, or Null
  session,    \* the agent of the vault holds a JWT that has not expired
  minted,     \* history: how many JWTs each challenge was redeemed for
  windows,    \* history: how many rate windows each vault has begun
  pc,         \* the statement each request runs next
  call        \* the arguments of each request

redis == <<rate, rateTtl, stored, old, issuedTo>>
locals == <<pc, call>>
vars == <<active, revoked, rate, rateTtl, stored, old, issuedTo, session,
          minted, windows, pc, call>>

Call == [op: {"challenge", "exchange", "call"}, vault: Vaults]
          \cup [op: {"token"}, vault: Vaults, challenge: Challenges,
                signer: Vaults]   \* whose private key signed the message

Labels == {"idle", "chVault", "chIncr", "chExpire", "chSet", "tkGet", "tkDel",
           "tkCheck", "tkVault", "tkVerify", "tkSign", "tkReset", "akLookup",
           "akSign", "jwt", "handler"}

ASSUME AuthAssumption ==
  /\ MaxChallenges \in Nat \ {0} /\ MaxWindows \in Nat
  /\ Faulty \in BOOLEAN
  /\ Operations \subseteq {"challenge", "token", "exchange", "call"}
  /\ IsFiniteSet(Requests) /\ IsFiniteSet(Challenges)
  /\ Null \notin Vaults /\ Null \notin Call /\ Null \notin Challenges

Init ==
  /\ active = [v \in Vaults |-> TRUE] /\ revoked = [v \in Vaults |-> FALSE]
  /\ rate = [v \in Vaults |-> 0] /\ rateTtl = [v \in Vaults |-> FALSE]
  /\ stored = [c \in Challenges |-> FALSE] /\ old = [c \in Challenges |-> FALSE]
  /\ issuedTo = [c \in Challenges |-> Null]
  /\ session = [v \in Vaults |-> FALSE]
  /\ minted = [c \in Challenges |-> 0] /\ windows = [v \in Vaults |-> 0]
  /\ pc = [r \in Requests |-> "idle"]
  /\ call = [r \in Requests |-> Null]

Goto(r, from, to) == pc[r] = from /\ pc' = [pc EXCEPT ![r] = to]

Reply(r, from) ==
  /\ Goto(r, from, "idle") /\ call' = [call EXCEPT ![r] = Null]

Start(r, label, c) ==
  /\ c.op \in Operations
  /\ Goto(r, "idle", label) /\ call' = [call EXCEPT ![r] = c]
  /\ UNCHANGED <<active, revoked, redis, session, minted, windows>>

-----------------------------------------------------------------------------
(* GET /challenge *)

\* Bounds: a challenge is asked for only if one is left for it, and as long
\* as the counter is at most one above its limit.
ChallengeLeft ==
  Cardinality({c \in Challenges : issuedTo[c] = Null}) >
  Cardinality({r \in Requests : pc[r] \in {"chVault", "chIncr", "chExpire",
                                           "chSet"}})

StartChallenge(r, v) ==
  /\ ChallengeLeft
  /\ rate[v] <= MaxChallenges + 1 /\ windows[v] < MaxWindows
  /\ Start(r, "chVault", [op |-> "challenge", vault |-> v])

CheckVault(r) ==
  /\ IF active[call[r].vault]
     THEN Goto(r, "chVault", "chIncr") /\ UNCHANGED call
     ELSE Reply(r, "chVault")
  /\ UNCHANGED <<active, revoked, redis, session, minted, windows>>

\* Mutants of TooMany and FirstOfWindow: off by one, both ways.
TooManyLate(count) == count > MaxChallenges + 1
FirstOfWindowNever(count) == count = 0

\* INCR; count === 1 begins a window; above the limit the answer is 429.
TooMany(count) == count > MaxChallenges
FirstOfWindow(count) == count = 1

CountChallenge(r) ==
  LET v == call[r].vault  count == rate[v] + 1 IN
  /\ rate' = [rate EXCEPT ![v] = count]
  /\ windows' = [windows EXCEPT ![v] = IF rate[v] = 0 THEN @ + 1 ELSE @]
  /\ IF TooMany(count)
     THEN Reply(r, "chIncr")
     ELSE /\ Goto(r, "chIncr", IF FirstOfWindow(count) THEN "chExpire"
                                                       ELSE "chSet")
          /\ UNCHANGED call
  /\ UNCHANGED <<active, revoked, rateTtl, stored, old, issuedTo, session,
                 minted>>

\* EXPIRE does nothing to a key that is absent.
StartWindow(r) ==
  /\ Goto(r, "chExpire", "chSet")
  /\ rateTtl' = [rateTtl EXCEPT ![call[r].vault] = rate[call[r].vault] > 0]
  /\ UNCHANGED <<active, revoked, rate, stored, old, issuedTo, session, minted,
                 windows, call>>

StoreChallenge(r) ==
  /\ Reply(r, "chSet")
  /\ \E c \in Challenges :
       /\ issuedTo[c] = Null
       /\ issuedTo' = [issuedTo EXCEPT ![c] = call[r].vault]
       /\ stored' = [stored EXCEPT ![c] = TRUE]
  /\ UNCHANGED <<active, revoked, rate, rateTtl, old, session, minted, windows>>

-----------------------------------------------------------------------------
(* POST /token *)

\* Any challenge that was handed out, for any vault, signed with any key.
StartToken(r, v, c, s) ==
  /\ issuedTo[c] # Null
  /\ Start(r, "tkGet", [op |-> "token", vault |-> v, challenge |-> c,
                        signer |-> s])

\* GET and DEL are two commands.
GetChallenge(r) ==
  /\ IF stored[call[r].challenge]
     THEN /\ Goto(r, "tkGet", "tkDel")
          /\ UNCHANGED call
     ELSE Reply(r, "tkGet")
  /\ UNCHANGED <<active, revoked, redis, session, minted, windows>>

\* Mutant of Remaining: no DEL.
RemainingAll(c) == stored

Remaining(c) == [stored EXCEPT ![c] = FALSE]

DelChallenge(r) ==
  /\ Goto(r, "tkDel", "tkCheck")
  /\ stored' = Remaining(call[r].challenge)
  /\ UNCHANGED <<active, revoked, rate, rateTtl, old, issuedTo, session,
                 minted, windows, call>>

\* Mutant of SameVault: the vault of the challenge is not compared.
SameVaultAny(c) == TRUE

SameVault(c) == issuedTo[c.challenge] = c.vault

\* A step of a redemption that only decides whether it goes on.
Proceed(r, from, condition, to) ==
  /\ pc[r] = from
  /\ IF condition THEN Goto(r, from, to) /\ UNCHANGED call ELSE Reply(r, from)
  /\ UNCHANGED <<active, revoked, redis, session, minted, windows>>

\* What was read of the challenge names its vault and its time.
CheckChallenge(r) ==
  Proceed(r, "tkCheck", SameVault(call[r]) /\ ~old[call[r].challenge], "tkVault")

\* SELECT the public key and is_active of the vault.
ReadVault(r) == Proceed(r, "tkVault", active[call[r].vault], "tkVerify")

\* The signature over challenge:vault:timestamp is awaited, against that key.
VerifySignature(r) ==
  Proceed(r, "tkVerify", call[r].signer = call[r].vault, "tkSign")

\* Nothing is read again when the JWT has been signed.
MintFromChallenge(r) ==
  LET c == call[r] IN
  /\ Goto(r, "tkSign", "tkReset")
  /\ session' = [session EXCEPT ![c.vault] = TRUE]
  /\ minted' = [minted EXCEPT ![c.challenge] = @ + 1]
  /\ UNCHANGED <<active, revoked, redis, windows, call>>

\* Mutant of Cleared: an attempt is given back (DECR) instead of DEL.
ClearedByOne(count) == count - 1

Cleared(count) == 0

\* DEL challenge_rate:<vault>, and with it the expiry; its failure is caught.
ResetRate(r) ==
  /\ Reply(r, "tkReset")
  /\ \/ /\ rate' = [rate EXCEPT ![call[r].vault] = Cleared(@)]
        /\ rateTtl' = [rateTtl EXCEPT ![call[r].vault] = FALSE]
     \/ UNCHANGED <<rate, rateTtl>>
  /\ UNCHANGED <<active, revoked, stored, old, issuedTo, session, minted,
                 windows>>

-----------------------------------------------------------------------------
(* POST /api-key: the row is read once; bcrypt.compare takes its time; the  *)
(* row decides.  expires_at of the key is not looked at.                    *)

StartExchange(r, v) == Start(r, "akLookup", [op |-> "exchange", vault |-> v])

Honoured(v) == ~revoked[v] /\ active[v]

LookupKey(r) ==
  /\ \/ /\ Honoured(call[r].vault)
        /\ Goto(r, "akLookup", "akSign") /\ UNCHANGED call
     \/ Reply(r, "akLookup")   \* the caller's key is wrong, or not honoured
  /\ UNCHANGED <<active, revoked, redis, session, minted, windows>>

MintFromKey(r) ==
  /\ Reply(r, "akSign")
  /\ session' = [session EXCEPT ![call[r].vault] = TRUE]
  /\ UNCHANGED <<active, revoked, redis, minted, windows>>

-----------------------------------------------------------------------------
(* Any other agent route: jwtVerify, then is_active, then the handler.      *)

StartCall(r, v) ==
  session[v] /\ Start(r, "jwt", [op |-> "call", vault |-> v])

\* Mutant of Admitted: a valid JWT is enough.
AdmittedByToken(v) == session[v]

Admitted(v) == active[v]

Authenticate(r) ==
  /\ IF Admitted(call[r].vault)
     THEN Goto(r, "jwt", "handler") /\ UNCHANGED call
     ELSE Reply(r, "jwt")
  /\ UNCHANGED <<active, revoked, redis, session, minted, windows>>

FinishCall(r) ==
  /\ Reply(r, "handler")
  /\ UNCHANGED <<active, revoked, redis, session, minted, windows>>

-----------------------------------------------------------------------------
(* Around the handlers.                                                     *)

Stop(r) ==
  /\ Faulty /\ pc[r] # "idle" /\ Reply(r, pc[r])
  /\ UNCHANGED <<active, revoked, redis, session, minted, windows>>

Disable(v) ==
  /\ active[v] /\ active' = [active EXCEPT ![v] = FALSE]
  /\ UNCHANGED <<revoked, redis, session, minted, windows, locals>>

Revoke(v) ==
  /\ ~revoked[v] /\ revoked' = [revoked EXCEPT ![v] = TRUE]
  /\ UNCHANGED <<active, redis, session, minted, windows, locals>>

\* Five minutes pass; Redis drops the challenge only after that.
Age(c) ==
  /\ issuedTo[c] # Null /\ ~old[c] /\ old' = [old EXCEPT ![c] = TRUE]
  /\ UNCHANGED <<active, revoked, rate, rateTtl, stored, issuedTo, session,
                 minted, windows, locals>>

ExpireChallenge(c) ==
  /\ stored[c] /\ old[c] /\ stored' = [stored EXCEPT ![c] = FALSE]
  /\ UNCHANGED <<active, revoked, rate, rateTtl, old, issuedTo, session,
                 minted, windows, locals>>

ExpireRate(v) ==
  /\ rateTtl[v]
  /\ rate' = [rate EXCEPT ![v] = 0] /\ rateTtl' = [rateTtl EXCEPT ![v] = FALSE]
  /\ UNCHANGED <<active, revoked, stored, old, issuedTo, session, minted,
                 windows, locals>>

ExpireSession(v) ==
  /\ session[v] /\ session' = [session EXCEPT ![v] = FALSE]
  /\ UNCHANGED <<active, revoked, redis, minted, windows, locals>>

Statement(r) ==
  \/ pc[r] = "chVault" /\ CheckVault(r)
  \/ pc[r] = "chIncr" /\ CountChallenge(r)
  \/ StartWindow(r) \/ StoreChallenge(r)
  \/ pc[r] = "tkGet" /\ GetChallenge(r)
  \/ DelChallenge(r) \/ CheckChallenge(r) \/ ReadVault(r) \/ VerifySignature(r)
  \/ MintFromChallenge(r) \/ ResetRate(r)
  \/ pc[r] = "akLookup" /\ LookupKey(r)
  \/ MintFromKey(r)
  \/ pc[r] = "jwt" /\ Authenticate(r)
  \/ FinishCall(r)

Request(r) ==
  \/ \E v \in Vaults : StartChallenge(r, v) \/ StartExchange(r, v)
                       \/ StartCall(r, v)
  \/ \E v, s \in Vaults, c \in Challenges : StartToken(r, v, c, s)

Environment ==
  \/ \E v \in Vaults : Disable(v) \/ Revoke(v) \/ ExpireRate(v)
                       \/ ExpireSession(v)
  \/ \E c \in Challenges : Age(c) \/ ExpireChallenge(c)

Next == Environment \/ \E r \in Requests : Request(r) \/ Statement(r) \/ Stop(r)

Spec == Init /\ [][Next]_vars

\* The event loop runs every request on; Redis drops keys whose time is up.
FairSpec ==
  /\ Spec
  /\ \A r \in Requests : WF_vars(Statement(r))
  /\ \A v \in Vaults : WF_vars(ExpireRate(v))

-----------------------------------------------------------------------------
(* Properties. *)

\* The type of every variable.
TypeOK ==
  /\ active \in [Vaults -> BOOLEAN] /\ revoked \in [Vaults -> BOOLEAN]
  /\ rate \in [Vaults -> Nat] /\ rateTtl \in [Vaults -> BOOLEAN]
  /\ stored \in [Challenges -> BOOLEAN] /\ old \in [Challenges -> BOOLEAN]
  /\ issuedTo \in [Challenges -> Vaults \cup {Null}]
  /\ session \in [Vaults -> BOOLEAN]
  /\ minted \in [Challenges -> Nat] /\ windows \in [Vaults -> Nat]
  /\ pc \in [Requests -> Labels]
  /\ call \in [Requests -> Call \cup {Null}]

\* Once a JWT has been given for a challenge, the challenge is gone: whoever
\* presents it from then on is refused.
RedeemedIsGone == \A c \in Challenges : minted[c] > 0 => ~stored[c]

\* GET and DEL are two commands, so one challenge may be redeemed more than
\* once, but only by requests that were all in progress together: the JWTs it
\* gave and the requests that still may give one are no more than the requests.
Redeeming(c) ==
  {r \in Requests : /\ pc[r] \in {"tkDel", "tkCheck", "tkVault", "tkVerify",
                                 "tkSign"}
                    /\ call[r].challenge = c}

RedemptionsBounded ==
  \A c \in Challenges :
    minted[c] + Cardinality(Redeeming(c)) <= Cardinality(Requests)

\* A counter that is there has an expiry, or a request is about to give it
\* one: the limit on challenges cannot become permanent.
CounterWillExpire ==
  \A v \in Vaults :
    rate[v] > 0 => \/ rateTtl[v]
                   \/ \E r \in Requests : pc[r] = "chExpire" /\ call[r].vault = v

\* A vault over its limit is admitted again after a while.
LockoutEnds ==
  \A v \in Vaults : rate[v] >= MaxChallenges ~> rate[v] < MaxChallenges

\* In each rate window at most MaxChallenges challenges are issued; requests
\* admitted in one window may be served in the next.
ChallengesOf(v) == {c \in Challenges : issuedTo[c] = v}

IssueBounded ==
  \A v \in Vaults : Cardinality(ChallengesOf(v)) <= MaxChallenges * windows[v]

\* A disabled vault is shut out at once, whatever JWTs and API keys are still
\* around: from some point on no handler runs for it.
DisabledVaultDrains ==
  \A v \in Vaults :
    ~active[v] ~> [](\A r \in Requests :
                       pc[r] = "handler" => call[r].vault # v)

\* A challenge only ever serves the vault that asked for it and signed it: a
\* JWT begins no session but that vault's.  The age, the row of the vault and
\* the JWT are read and signed one after the other, so a JWT may be signed for
\* a challenge grown old or a vault disabled meanwhile; but once that is so, no
\* request joins those past the check, by challenge or by API key.
CheckedAge(c) ==
  {r \in Requests : /\ pc[r] \in {"tkVault", "tkVerify", "tkSign"}
                    /\ call[r].challenge = c}

CheckedVault(v) ==
  {r \in Requests : /\ pc[r] \in {"tkVerify", "tkSign", "akSign"}
                    /\ call[r].vault = v}

MintedRight ==
  [][/\ \A c \in Challenges : minted'[c] > minted[c] =>
          /\ session'[issuedTo[c]]
          /\ \A v \in Vaults \ {issuedTo[c]} : session'[v] = session[v]
          /\ \E r \in CheckedAge(c) : call[r].signer = issuedTo[c]
     /\ \A c \in Challenges : old[c] => CheckedAge(c)' \subseteq CheckedAge(c)
     /\ \A v \in Vaults : ~active[v] =>
          CheckedVault(v)' \subseteq CheckedVault(v)]_vars
=============================================================================
