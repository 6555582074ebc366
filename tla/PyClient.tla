------------------------------ MODULE PyClient ------------------------------
(***************************************************************************)
(* The HTTP client of the Python SDK (sdk-python, client.py): one thread,  *)
(* one call at a time.  _request() loops over the attempts of a request;   *)
(* a 401 without a JWT makes it exchange the API key, which is a request   *)
(* too, with a loop and an exchange of its own, and then repeat itself     *)
(* once outside its loop.  Of the requests that wait for an exchange only  *)
(* the number matters: whatever the exchange does, their loops are over.   *)
(* The server is external.                                                 *)
(***************************************************************************)
EXTENDS Naturals

CONSTANTS
  MaxRetries,   \* self.max_retries, attempts in all
  MaxDepth,     \* exchanges inside exchanges until RecursionError
  PyAnswers,    \* subset of {"limit", "broken", "refused", "fault", "garbled"}:
                \* 429; 502 to 504 or no answer; another 4xx; 500; a 2xx that
                \* cannot be read to its end
  MaxExpiries   \* bound on the JWTs that expire

VARIABLES
  jwt,      \* self.jwt: "none", "good", "due" (past jwt_expiry), "rejected"
            \* (before it, but no longer accepted by the server)
  key,      \* self.api_key: "absent" (register()), "good" or "revoked"
  expiries,
  op,       \* what the caller asked for
  phase, depth, attempt,
  header,   \* of the request under way: "key", "good", or "stale"
  sent, exchanged, applied,  \* history of the call: its requests, those to
            \* /api-key on its behalf, and how often it was carried out
  result

vars == <<jwt, key, expiries, op, phase, depth, attempt, header, sent,
          exchanged, applied, result>>
history == <<sent, exchanged, applied>>

Operations == {"call", "reauthenticate", "register"}
AllAnswers == {"limit", "broken", "refused", "fault", "garbled"}

PyAssumption ==
  /\ MaxRetries \in Nat \ {0} /\ MaxDepth \in Nat \ {0} /\ MaxExpiries \in Nat
  /\ PyAnswers \subseteq AllAnswers

\* from_api_key() with a key, or register() without one.
Init ==
  /\ jwt = "none" /\ key \in {"absent", "good", "revoked"} /\ expiries = 0
  /\ op = "call" /\ phase = "idle" /\ depth = 0 /\ attempt = 0
  /\ header = "key" /\ sent = 0 /\ exchanged = 0 /\ applied = 0
  /\ result = "none"

\* _get_auth_headers()
AuthHeader == CASE jwt = "good" -> "good"
                [] jwt = "rejected" -> "stale"
                [] OTHER -> "key"

\* POST /api-key, by refresh_auth(): inside another request or for the caller.
ExchangingAt(d) == d > 0 \/ op = "reauthenticate"
Exchanging == ExchangingAt(depth)

\* Bound: the histories stop counting beyond what a call may do.
More(n) == IF n > (MaxDepth + 1) * MaxRetries THEN n ELSE n + 1

\* urlopen()
Request(token, d) ==
  /\ header' = token /\ depth' = d
  /\ sent' = IF ExchangingAt(d) THEN sent ELSE More(sent)
  /\ exchanged' = IF ExchangingAt(d) THEN More(exchanged) ELSE exchanged

\* The request under way raises.  A request that waits for an exchange drops
\* its exception and raises the 401 it had: so do all of them, outwards.
Raise(error) ==
  /\ phase' = "idle" /\ depth' = 0
  /\ result' = IF depth = 0 THEN error ELSE "auth"
  /\ UNCHANGED <<jwt, key, op, attempt, header, sent, exchanged>>

\* The request under way returns: to the caller, or as the JWT of the request
\* that waits for it, which is then sent again.
Return ==
  /\ UNCHANGED <<op, attempt>>
  /\ IF depth = 0
     THEN /\ phase' = "idle" /\ result' = "ok"
          /\ IF op = "register" THEN jwt' = "good" /\ key' = "good"
                                ELSE UNCHANGED <<jwt, key>>
          /\ UNCHANGED <<depth, header, sent, exchanged>>
     ELSE /\ phase' = "again" /\ jwt' = "good" /\ Request("good", depth - 1)
          /\ UNCHANGED <<key, result>>

\* What the server can answer besides PyAnswers.  /api-key goes by the key in
\* the body, /register needs nothing, any other route a JWT that it accepts.
Served == IF Exchanging THEN key = "good"
                        ELSE op = "register" \/ header = "good"

\* Carried out; or perhaps so, when the answer does not tell.
Apply == applied' = IF Exchanging THEN applied ELSE More(applied)
MayApply == UNCHANGED applied \/ (Served /\ Apply)

-----------------------------------------------------------------------------
Start(o) ==
  /\ phase = "idle" /\ (o = "register" <=> key = "absent")
  /\ op' = o /\ phase' = "answer" /\ depth' = 0 /\ attempt' = 0
  /\ result' = "none" /\ applied' = 0 /\ header' = AuthHeader
  /\ sent' = IF o = "reauthenticate" THEN 0 ELSE 1
  /\ exchanged' = 1 - sent'
  /\ UNCHANGED <<jwt, key, expiries>>

Answered == phase = "answer" /\ Served /\ Apply /\ Return

\* if e.code == 401 and not self.jwt and self.api_key
Renews == jwt = "none" /\ key # "absent"

Unauthorized ==
  /\ phase = "answer" /\ ~Served /\ UNCHANGED applied
  /\ IF Renews /\ depth < MaxDepth
     THEN /\ attempt' = 0 /\ Request(AuthHeader, depth + 1)
          /\ UNCHANGED <<jwt, key, op, phase, result>>
     ELSE Raise("auth")

\* Mutant of CanRetry: off by one.
CanRetryLate(n) == n < MaxRetries

CanRetry(n) == n < MaxRetries - 1

NextAttempt(n) == n + 1

\* RETRY_STATUS_CODES and URLError
TryAgain ==
  /\ phase = "answer" /\ PyAnswers \cap {"limit", "broken"} # {}
  /\ \/ UNCHANGED applied
     \/ "broken" \in PyAnswers /\ Served /\ Apply
  /\ IF CanRetry(attempt)
     THEN /\ phase' = "sleep" /\ attempt' = NextAttempt(attempt)
          /\ UNCHANGED <<jwt, key, op, depth, header, sent, exchanged, result>>
     ELSE Raise("failed")

WakeUp ==
  /\ phase = "sleep" /\ phase' = "answer" /\ Request(header, depth)
  /\ UNCHANGED <<jwt, key, op, attempt, applied, result>>

Refused ==
  /\ phase = "answer" /\ Raise("refused")
  /\ \/ "refused" \in PyAnswers /\ (Served \/ Exchanging) /\ UNCHANGED applied
     \/ "fault" \in PyAnswers /\ MayApply

\* A read that times out and a body that is not JSON are not caught.
Garbled ==
  /\ phase = "answer" /\ "garbled" \in PyAnswers /\ Served
  /\ Apply /\ Raise("raised")

\* The one repetition with the new JWT; whatever goes wrong is dropped and the
\* 401 from before is raised.
RepeatedWell == phase = "again" /\ Served /\ Apply /\ Return

RepeatedBadly ==
  /\ phase = "again" /\ Raise("auth")
  /\ \/ (~Served \/ PyAnswers # {}) /\ UNCHANGED applied
     \/ PyAnswers \cap {"broken", "fault", "garbled"} # {} /\ Served /\ Apply

-----------------------------------------------------------------------------
(* Time, and the server's side: a JWT expires or is no longer accepted, also *)
(* one that is in the header of a request that sleeps; a key is revoked.    *)
ExpireToken ==
  /\ jwt = "good" /\ expiries < MaxExpiries /\ expiries' = expiries + 1
  /\ jwt' \in {"due", "rejected"}
  /\ header' \in {header} \cup (IF header = "good" THEN {"stale"} ELSE {})
  /\ UNCHANGED <<key, op, phase, depth, attempt, history, result>>

RevokeKey ==
  /\ key = "good" /\ key' = "revoked"
  /\ UNCHANGED <<jwt, expiries, op, phase, depth, attempt, header, history,
                 result>>

Proceed ==
  /\ \/ Answered \/ Unauthorized \/ TryAgain \/ WakeUp \/ Refused \/ Garbled
     \/ RepeatedWell \/ RepeatedBadly
  /\ UNCHANGED expiries

Next == (\E o \in Operations : Start(o)) \/ Proceed \/ ExpireToken \/ RevokeKey

Spec == Init /\ [][Next]_vars

\* urlopen() has a timeout, time.sleep() ends.
FairSpec == Spec /\ WF_vars(Proceed)

-----------------------------------------------------------------------------
(* Properties. *)

\* The type of every variable; a JWT comes with the key it was exchanged for,
\* and only a request that waits for an answer or sleeps has others waiting.
PyTypeOK ==
  /\ jwt \in {"none", "good", "due", "rejected"}
  /\ key \in {"absent", "good", "revoked"} /\ (key = "absent" => jwt = "none")
  /\ expiries \in 0 .. MaxExpiries /\ op \in Operations
  /\ phase \in {"idle", "answer", "sleep", "again"}
  /\ depth \in 0 .. MaxDepth /\ (phase = "idle" => depth = 0)
  /\ attempt \in 0 .. MaxRetries - 1 /\ header \in {"key", "good", "stale"}
  /\ sent \in Nat /\ exchanged \in Nat /\ applied \in Nat
  /\ result \in {"none", "ok", "auth", "refused", "failed", "raised"}

\* The attempts and the one repetition bound what a call sends; it is carried
\* out no more often, and when it returns, it was.  A registration, which
\* leaves a vault behind each time, has no repetition.  The exchanges inside
\* exchanges stop at the depth of the stack, each after its attempts.
PyAttemptsBounded ==
  /\ applied <= sent /\ sent <= MaxRetries + 1
  /\ op = "register" => sent <= MaxRetries
  /\ result = "ok" /\ op # "reauthenticate" => applied > 0
  /\ op = "call" => exchanged <= MaxDepth * MaxRetries

\* A JWT that has expired is never replaced: "not self.jwt" keeps a client
\* from the exchange that the docstring of reauthenticate() promises ("SDK
\* auto-renews"), and reauthenticate() returns a JWT without keeping it.
PyExpiredForGood ==
  [][(jwt \in {"due", "rejected"}) => jwt' # "good"]_vars

\* "Automatic JWT renewal" (sdk-python/README.md), "SDK auto-renews"
\* (reauthenticate()): a call does not report a 401 while its key is good
\* without having tried to renew the JWT.
RenewsItself ==
  op = "call" /\ result = "auth" /\ key = "good" => exchanged > 0
=============================================================================
