------------------------------ MODULE SdkClient ------------------------------
(***************************************************************************)
(* The HTTP client of the TypeScript SDK (sdk/src/client.ts): several      *)
(* calls of one HttpClient run concurrently and share its JWT, each with   *)
(* its own loop of attempts.  JavaScript runs a call without interruption  *)
(* up to its next await, so an action goes from one answer, or the end of  *)
(* one sleep, to the next await.  authenticate() sets this.jwt and returns *)
(* to request(), which awaits it: request() resumes in a later microtask,  *)
(* after other calls whose answers are in, but before any answer to what   *)
(* these ask for meanwhile.  The server is external.                       *)
(***************************************************************************)
EXTENDS Naturals, FiniteSets

CONSTANTS
  Requests,     \* concurrent calls of request()
  MaxRetries,   \* this.maxRetries
  Answers,      \* subset of {"ok", "limit", "refused", "broken"}: 2xx, 429,
                \* another 4xx but 401, 5xx or no answer
  AuthAnswers,  \* of POST /api-key: subset of {"ok", "refused", "broken"}
  MaxExpiries   \* bound on the JWTs that are found to be expired

VARIABLES
  jwt,       \* this.jwt: "none", "good", "due" (past jwtExpiry), or "rejected"
             \* (before jwtExpiry, but no longer accepted by the server)
  expiries,  \* how many have expired
  ran,       \* calls that ran while one had still to resume: what they
             \* await is answered after that
  pc,        \* what each call awaits
  attempt,   \* of the loop in request()
  bearer,    \* the JWT in the header of the call under way
  sent, applied,  \* history: attempts made, and carried out by the server
  result

vars == <<jwt, expiries, ran, pc, attempt, bearer, sent, applied, result>>

Tokens == {"none", "good", "due", "rejected"}
Awaits == {"idle", "auth", "reauth", "renew", "resume", "sleep", "answer"}

ASSUME ClientAssumption ==
  /\ MaxRetries \in Nat
  /\ Answers \subseteq {"ok", "limit", "refused", "broken"} /\ "ok" \in Answers
  /\ AuthAnswers \subseteq {"ok", "refused", "broken"} /\ "ok" \in AuthAnswers
  /\ MaxExpiries \in Nat

\* fromApiKey(), or register(), whose answer comes with a JWT.
Init ==
  /\ jwt \in {"none", "good"} /\ expiries = 0 /\ ran = {}
  /\ pc = [r \in Requests |-> "idle"] /\ attempt = [r \in Requests |-> 0]
  /\ bearer = [r \in Requests |-> "none"]
  /\ sent = [r \in Requests |-> 0] /\ applied = [r \in Requests |-> 0]
  /\ result = [r \in Requests |-> "none"]

\* Bound: the histories stop counting beyond what a call may do.
More(n) == IF n > MaxRetries + 1 THEN n ELSE n + 1

Goto(r, from, to) == pc[r] = from /\ pc' = [pc EXCEPT ![r] = to]

RunsOn(r) ==
  ran' = IF \E q \in Requests : pc'[q] = "resume" THEN ran \cup {r} ELSE {}

\* fetch with the header Bearer ${this.jwt!}.
Fetch(r, from, n, token) ==
  /\ Goto(r, from, "answer")
  /\ attempt' = [attempt EXCEPT ![r] = n]
  /\ bearer' = [bearer EXCEPT ![r] = token]
  /\ sent' = [sent EXCEPT ![r] = More(@)]

Finish(r, from, res) ==
  /\ Goto(r, from, "idle") /\ result' = [result EXCEPT ![r] = res]
  /\ UNCHANGED <<attempt, bearer, sent>>

\* Mutants of CanRetry: off by one; of NextAttempt: a failure is not counted.
CanRetryLate(n) == n <= MaxRetries
NextAttemptSame(n) == n

NextAttempt(n) == n + 1

\* The end of an attempt that may be followed by another one, after a sleep.
CanRetry(n) == n < MaxRetries

TryAgain(r, from) ==
  IF CanRetry(attempt[r])
  THEN /\ Goto(r, from, "sleep")
       /\ attempt' = [attempt EXCEPT ![r] = NextAttempt(@)]
       /\ UNCHANGED <<bearer, sent, result>>
  ELSE Finish(r, from, "failed")

-----------------------------------------------------------------------------
\* Mutant of NeedsAuth: the expiry is checked, the JWT is not.
NeedsAuthDue(token) == token = "due"

NeedsAuth(token) == token \in {"none", "due"}

\* request(): authenticate first unless there is a JWT before its expiry.
StartCall(r) ==
  /\ applied' = [applied EXCEPT ![r] = 0]
  /\ result' = [result EXCEPT ![r] = "none"]
  /\ IF NeedsAuth(jwt)
     THEN /\ Goto(r, "idle", "auth")
          /\ sent' = [sent EXCEPT ![r] = 0]
          /\ UNCHANGED <<attempt, bearer>>
     ELSE /\ Goto(r, "idle", "answer")
          /\ attempt' = [attempt EXCEPT ![r] = 0]
          /\ bearer' = [bearer EXCEPT ![r] = jwt]
          /\ sent' = [sent EXCEPT ![r] = 1]
  /\ UNCHANGED <<jwt, expiries>>

\* authenticate() answered: before the loop, any failure is thrown ...
Authenticated(r) ==
  /\ \/ /\ Goto(r, "auth", "resume") /\ jwt' = "good"
        /\ attempt' = [attempt EXCEPT ![r] = 0]
        /\ UNCHANGED <<bearer, sent, result>>
     \/ /\ AuthAnswers # {"ok"}
        /\ Finish(r, "auth", "failed") /\ UNCHANGED jwt
  /\ UNCHANGED <<expiries, applied>>

\* ... and in the loop, a 4xx is thrown and anything else is retried.
Reauthenticated(r) ==
  /\ \/ /\ jwt' = "good"
        /\ IF CanRetry(attempt[r])
           THEN /\ Goto(r, "reauth", "resume")
                /\ attempt' = [attempt EXCEPT ![r] = @ + 1]
                /\ UNCHANGED <<bearer, sent, result>>
           ELSE Finish(r, "reauth", "failed")
     \/ /\ "refused" \in AuthAnswers
        /\ Finish(r, "reauth", "failed") /\ UNCHANGED jwt
     \/ "broken" \in AuthAnswers /\ TryAgain(r, "reauth") /\ UNCHANGED jwt
  /\ UNCHANGED <<expiries, applied>>

\* The call goes on after its authenticate(), with this.jwt as it is by now.
Resume(r) ==
  /\ Fetch(r, "resume", attempt[r], jwt)
  /\ UNCHANGED <<jwt, expiries, applied, result>>

WakeUp(r) ==
  /\ Fetch(r, "sleep", attempt[r], jwt)
  /\ UNCHANGED <<jwt, expiries, applied, result>>

\* 401: the JWT is dropped and renewed, on the first attempt only.
Unauthorized(r) ==
  /\ bearer[r] # "good"
  /\ IF attempt[r] = 0
     THEN /\ Goto(r, "answer", "reauth") /\ jwt' = "none"
          /\ UNCHANGED <<attempt, bearer, sent, result>>
     ELSE Finish(r, "answer", "auth") /\ UNCHANGED jwt
  /\ UNCHANGED <<expiries, applied>>

\* Any other answer.  A 429 and a failure do not depend on the JWT; a call that
\* broke may have been carried out if it had one.
Answered(r) ==
  LET authorized == bearer[r] \in {"good", "due"} IN
  /\ \/ /\ authorized /\ Finish(r, "answer", "ok")
        /\ applied' = [applied EXCEPT ![r] = More(@)]
     \/ /\ authorized /\ "refused" \in Answers
        /\ Finish(r, "answer", "refused") /\ UNCHANGED applied
     \/ "limit" \in Answers /\ TryAgain(r, "answer") /\ UNCHANGED applied
     \/ /\ "broken" \in Answers /\ TryAgain(r, "answer")
        /\ \/ UNCHANGED applied
           \/ authorized /\ applied' = [applied EXCEPT ![r] = More(@)]
  /\ UNCHANGED <<jwt, expiries>>

\* reauthenticate() by the caller: refreshAuth() drops the JWT for everyone.
StartRenewal(r) ==
  /\ Goto(r, "idle", "renew") /\ jwt' = "none"
  /\ result' = [result EXCEPT ![r] = "none"]
  /\ UNCHANGED <<expiries, attempt, bearer, sent, applied>>

Renewed(r) ==
  /\ \/ Finish(r, "renew", "renewed") /\ jwt' = "good"
     \/ AuthAnswers # {"ok"} /\ Finish(r, "renew", "failed") /\ UNCHANGED jwt
  /\ UNCHANGED <<expiries, applied>>

\* Time passes, or the server begins to refuse the JWT before its time.
ExpireToken ==
  /\ jwt = "good" /\ expiries < MaxExpiries /\ expiries' = expiries + 1
  /\ jwt' \in {"due", "rejected"}
  /\ UNCHANGED <<ran, pc, attempt, bearer, sent, applied, result>>

\* What a call awaited has come.
Arrived(r) ==
  /\ r \notin ran
  /\ \/ Authenticated(r) \/ Reauthenticated(r) \/ Renewed(r) \/ WakeUp(r)
     \/ pc[r] = "answer" /\ Unauthorized(r)
     \/ pc[r] = "answer" /\ Answered(r)

Proceed(r) == (Arrived(r) \/ Resume(r)) /\ RunsOn(r)

Start(r) == (StartCall(r) \/ StartRenewal(r)) /\ RunsOn(r)

Next == ExpireToken \/ \E r \in Requests : Start(r) \/ Proceed(r)

Spec == Init /\ [][Next]_vars

\* Every fetch is answered or runs into AbortSignal.timeout, every sleep ends,
\* every microtask runs.
FairSpec == Spec /\ \A r \in Requests : WF_vars(Proceed(r))

-----------------------------------------------------------------------------
(* Properties. *)

\* The type of every variable.
TypeOK ==
  /\ jwt \in Tokens /\ expiries \in 0 .. MaxExpiries
  /\ ran \subseteq Requests /\ pc \in [Requests -> Awaits]
  /\ attempt \in [Requests -> 0 .. MaxRetries]
  /\ bearer \in [Requests -> Tokens]
  /\ sent \in [Requests -> Nat] /\ applied \in [Requests -> Nat]
  /\ result \in [Requests -> {"none", "ok", "renewed", "refused", "failed", "auth"}]

\* Renewing the JWT, being told to wait and failures share one budget: a call
\* is sent, and so carried out, at most once more than it may be retried, and
\* one that succeeds has been carried out.
AttemptsBounded ==
  \A r \in Requests :
    /\ applied[r] <= sent[r] /\ sent[r] <= MaxRetries + 1
    /\ result[r] = "ok" => applied[r] > 0

\* "Bearer ${this.jwt!}": a call that just authenticated may still be sent
\* with "Bearer null", but only because another call drops this.jwt between
\* its authenticate() and its first attempt, and is renewing it then.  A later
\* attempt takes this.jwt as it is when the sleep ends.
FirstSentWithToken ==
  [][\A r \in Requests :
       /\ pc[r] # "answer" /\ pc'[r] = "answer"
       /\ attempt'[r] = 0 /\ bearer'[r] = "none"
       => \E q \in Requests \ {r} : pc[q] \in {"reauth", "renew"}]_vars
=============================================================================
