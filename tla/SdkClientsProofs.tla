-------------------------- MODULE SdkClientsProofs --------------------------
(***************************************************************************)
(* Theorems about the HTTP clients of the two SDKs, for every set of       *)
(* concurrent calls, every number of retries, every depth of the Python    *)
(* stack and every choice of answers.                                      *)
(***************************************************************************)
EXTENDS Integers, SdkClients, TLAPS

-----------------------------------------------------------------------------
(* The TypeScript client: typing. *)

LEMMA TypeInit == Init => TypeOK
  BY ClientAssumption DEF Init, TypeOK, Tokens, Awaits

\* What an action does to the loop of one call, case by case.
LEMMA MoreTyped == ASSUME NEW n \in Nat PROVE More(n) \in Nat
  BY ClientAssumption DEF More

LEMMA FetchTyped ==
  ASSUME TypeOK, NEW r \in Requests, NEW from, NEW n \in 0 .. MaxRetries,
         NEW token \in Tokens, Fetch(r, from, n, token)
  PROVE  /\ pc' \in [Requests -> Awaits]
         /\ attempt' \in [Requests -> 0 .. MaxRetries]
         /\ bearer' \in [Requests -> Tokens]
         /\ sent' \in [Requests -> Nat]
<1>1. More(sent[r]) \in Nat
  BY MoreTyped DEF TypeOK
<1>2. QED
  BY <1>1 DEF TypeOK, Fetch, Goto, Awaits

LEMMA FinishTyped ==
  ASSUME TypeOK, NEW r \in Requests, NEW from,
         NEW res \in {"none", "ok", "renewed", "refused", "failed", "auth"},
         Finish(r, from, res)
  PROVE  /\ pc' \in [Requests -> Awaits]
         /\ attempt' \in [Requests -> 0 .. MaxRetries]
         /\ bearer' \in [Requests -> Tokens]
         /\ sent' \in [Requests -> Nat]
         /\ result' \in [Requests -> {"none", "ok", "renewed", "refused", "failed", "auth"}]
  BY DEF TypeOK, Finish, Goto, Awaits

LEMMA TryAgainTyped ==
  ASSUME TypeOK, NEW r \in Requests, NEW from, TryAgain(r, from)
  PROVE  /\ pc' \in [Requests -> Awaits]
         /\ attempt' \in [Requests -> 0 .. MaxRetries]
         /\ bearer' \in [Requests -> Tokens]
         /\ sent' \in [Requests -> Nat]
         /\ result' \in [Requests -> {"none", "ok", "renewed", "refused", "failed", "auth"}]
<1>1. CASE CanRetry(attempt[r])
  BY <1>1, ClientAssumption
  DEF TypeOK, TryAgain, Goto, CanRetry, NextAttempt, Awaits
<1>2. CASE ~CanRetry(attempt[r])
  BY <1>2, FinishTyped DEF TryAgain
<1>3. QED
  BY <1>1, <1>2

LEMMA TypeStep == TypeOK /\ [Next]_vars => TypeOK'
<1> SUFFICES ASSUME TypeOK, [Next]_vars PROVE TypeOK'
  OBVIOUS
<1> USE ClientAssumption
<1> DEFINE Rest ==
      /\ jwt \in Tokens /\ expiries \in 0 .. MaxExpiries
      /\ pc \in [Requests -> Awaits]
      /\ attempt \in [Requests -> 0 .. MaxRetries]
      /\ bearer \in [Requests -> Tokens]
      /\ sent \in [Requests -> Nat] /\ applied \in [Requests -> Nat]
      /\ result \in [Requests -> {"none", "ok", "renewed", "refused", "failed", "auth"}]
<1>0. Rest /\ ran \subseteq Requests
  BY DEF TypeOK
<1>a. ASSUME NEW r \in Requests, RunsOn(r), Rest' PROVE TypeOK'
  <2>1. ran' \subseteq Requests
    BY <1>0, <1>a DEF RunsOn
  <2>2. QED
    BY <1>a, <2>1 DEF TypeOK
<1>1. ASSUME NEW r \in Requests, StartCall(r) PROVE Rest'
  BY <1>1 DEF TypeOK, StartCall, Goto, Awaits
<1>2. ASSUME NEW r \in Requests, StartRenewal(r) PROVE Rest'
  BY <1>2 DEF TypeOK, StartRenewal, Goto, Tokens, Awaits
<1>3. ASSUME NEW r \in Requests, Authenticated(r) PROVE Rest'
  <2>1. CASE Goto(r, "auth", "resume")
    BY <1>3, <2>1 DEF TypeOK, Authenticated, Goto, Tokens, Awaits, Finish
  <2>2. CASE Finish(r, "auth", "failed") /\ UNCHANGED jwt
    BY <1>3, <2>2, FinishTyped DEF TypeOK, Authenticated
  <2>3. QED
    BY <1>3, <2>1, <2>2 DEF Authenticated
<1>4. ASSUME NEW r \in Requests, Reauthenticated(r) PROVE Rest'
  <2>0. UNCHANGED <<expiries, applied>>
    BY <1>4 DEF Reauthenticated
  <2>1. CASE /\ jwt' = "good" /\ CanRetry(attempt[r])
             /\ Goto(r, "reauth", "resume")
             /\ attempt' = [attempt EXCEPT ![r] = @ + 1]
             /\ UNCHANGED <<bearer, sent, result>>
    <3>1. attempt[r] + 1 \in 0 .. MaxRetries
      BY <2>1 DEF TypeOK, CanRetry
    <3>2. QED
      BY <2>0, <2>1, <3>1 DEF TypeOK, Goto, Tokens, Awaits
  <2>2. CASE jwt' \in {"good", jwt} /\ Finish(r, "reauth", "failed")
    BY <2>0, <2>2, FinishTyped DEF TypeOK, Tokens
  <2>3. CASE TryAgain(r, "reauth") /\ UNCHANGED jwt
    BY <2>0, <2>3, TryAgainTyped DEF TypeOK
  <2>4. QED
    BY <1>4, <2>1, <2>2, <2>3 DEF Reauthenticated
<1>5. ASSUME NEW r \in Requests, Renewed(r) PROVE Rest'
  BY <1>5, FinishTyped DEF TypeOK, Renewed, Tokens
<1>6. ASSUME NEW r \in Requests, WakeUp(r) \/ Resume(r) PROVE Rest'
  BY <1>6, FetchTyped DEF TypeOK, WakeUp, Resume
<1>7. ASSUME NEW r \in Requests, Unauthorized(r) PROVE Rest'
  BY <1>7, FinishTyped DEF TypeOK, Unauthorized, Goto, Tokens, Awaits
<1>8. ASSUME NEW r \in Requests, Answered(r) PROVE Rest'
  <2>1. More(applied[r]) \in Nat
    BY MoreTyped DEF TypeOK
  <2>2. applied' \in [Requests -> Nat]
    BY <1>8, <2>1 DEF TypeOK, Answered
  <2>3. \/ Finish(r, "answer", "ok") \/ Finish(r, "answer", "refused")
        \/ TryAgain(r, "answer")
    BY <1>8 DEF Answered
  <2>4. QED
    BY <1>8, <2>2, <2>3, FinishTyped, TryAgainTyped DEF TypeOK, Answered
<1>9. ASSUME ExpireToken PROVE TypeOK'
  BY <1>9 DEF TypeOK, ExpireToken, Tokens
<1>10. ASSUME UNCHANGED vars PROVE TypeOK'
  BY <1>10 DEF TypeOK, vars
<1>11. ASSUME NEW r \in Requests, Start(r) \/ Proceed(r) PROVE TypeOK'
  <2>1. RunsOn(r)
    BY <1>11 DEF Start, Proceed
  <2>2. Rest'
    BY <1>11, <1>1, <1>2, <1>3, <1>4, <1>5, <1>6, <1>7, <1>8
    DEF Start, Proceed, Arrived
  <2>3. QED
    BY <1>a, <2>1, <2>2
<1>12. QED
  BY <1>9, <1>10, <1>11 DEF Next

\* Every variable keeps its type; in particular no attempt has a number above
\* maxRetries.
THEOREM TypeSafe == Spec => []TypeOK
  BY TypeInit, TypeStep, PTL DEF Spec

-----------------------------------------------------------------------------
(* The TypeScript client: the budget of attempts. *)

\* The number of the attempt counts what has been sent, at every await of a
\* call, and an attempt under way is not yet counted as carried out.
Counted(r) ==
  /\ pc[r] = "auth" => sent[r] = 0 /\ applied[r] = 0
  /\ pc[r] = "answer" => sent[r] = attempt[r] + 1 /\ applied[r] <= attempt[r]
  /\ pc[r] = "reauth" => sent[r] = 1 /\ attempt[r] = 0 /\ applied[r] <= 1
  /\ pc[r] \in {"sleep", "resume"} => sent[r] = attempt[r]
  /\ pc[r] = "sleep" => attempt[r] > 0
  /\ applied[r] <= sent[r] /\ sent[r] <= MaxRetries + 1
  /\ result[r] = "ok" => applied[r] > 0

BudgetInv == \A r \in Requests : Counted(r)

LEMMA BudgetInit == Init => BudgetInv
  BY ClientAssumption DEF Init, BudgetInv, Counted

\* A step moves one call: it is enough to look at that one.
LEMMA OneCallMoves ==
  ASSUME TypeOK, BudgetInv, NEW r \in Requests, Counted(r)',
         \A q \in Requests \ {r} :
           /\ pc'[q] = pc[q] /\ attempt'[q] = attempt[q]
           /\ sent'[q] = sent[q] /\ applied'[q] = applied[q]
           /\ result'[q] = result[q]
  PROVE  BudgetInv'
  BY DEF BudgetInv, Counted

\* The two ways an attempt ends: for good, or with a sleep before the next.
LEMMA AttemptEnds ==
  ASSUME TypeOK, NEW r \in Requests, NEW from, Counted(r),
         sent[r] = attempt[r] + 1, applied' \in [Requests -> Nat],
         applied[r] <= applied'[r], applied'[r] <= sent[r],
         \/ TryAgain(r, from)
         \/ \E res : Finish(r, from, res) /\ (res = "ok" => applied'[r] > 0)
  PROVE  Counted(r)'
<1> USE ClientAssumption
<1>1. ASSUME NEW res, Finish(r, from, res), res = "ok" => applied'[r] > 0
      PROVE  Counted(r)'
  BY <1>1 DEF TypeOK, Counted, Finish, Goto
<1>2. CASE TryAgain(r, from) /\ CanRetry(attempt[r])
  <2>1. /\ pc'[r] = "sleep" /\ attempt'[r] = attempt[r] + 1
        /\ sent'[r] = sent[r] /\ result'[r] = result[r]
    BY <1>2 DEF TypeOK, TryAgain, Goto, NextAttempt
  <2>2. QED
    BY <2>1 DEF TypeOK, Counted
<1>3. CASE TryAgain(r, from) /\ ~CanRetry(attempt[r])
  BY <1>1, <1>3 DEF TryAgain
<1>4. QED
  BY <1>1, <1>2, <1>3

LEMMA BudgetStep == TypeOK /\ BudgetInv /\ [Next]_vars => BudgetInv'
<1> SUFFICES ASSUME TypeOK, BudgetInv, [Next]_vars PROVE BudgetInv'
  OBVIOUS
<1> USE ClientAssumption
<1>0. \A r \in Requests : Counted(r)
  BY DEF BudgetInv
<1>1. ASSUME NEW r \in Requests, StartCall(r) PROVE BudgetInv'
  <2>1. Counted(r)'
    BY <1>0, <1>1 DEF TypeOK, StartCall, Counted, Goto
  <2>2. QED
    BY <1>1, <2>1, OneCallMoves DEF TypeOK, StartCall, Goto
<1>2. ASSUME NEW r \in Requests, StartRenewal(r) PROVE BudgetInv'
  <2>1. Counted(r)'
    BY <1>0, <1>2 DEF TypeOK, StartRenewal, Counted, Goto
  <2>2. QED
    BY <1>2, <2>1, OneCallMoves DEF TypeOK, StartRenewal, Goto
<1>3. ASSUME NEW r \in Requests, Authenticated(r) PROVE BudgetInv'
  <2>1. Counted(r)'
    BY <1>0, <1>3 DEF TypeOK, Authenticated, Counted, Finish, Goto
  <2>2. QED
    BY <1>3, <2>1, OneCallMoves DEF TypeOK, Authenticated, Finish, Goto
<1>4. ASSUME NEW r \in Requests, Reauthenticated(r) PROVE BudgetInv'
  <2>0. /\ pc[r] = "reauth" /\ UNCHANGED applied
        /\ sent[r] = 1 /\ attempt[r] = 0 /\ applied[r] <= 1 /\ Counted(r)
    BY <1>0, <1>4
    DEF Reauthenticated, Finish, TryAgain, Goto, Counted
  <2>1. CASE /\ CanRetry(attempt[r]) /\ Goto(r, "reauth", "resume")
             /\ attempt' = [attempt EXCEPT ![r] = @ + 1]
             /\ UNCHANGED <<bearer, sent, result>>
    <3>1. Counted(r)'
      BY <2>0, <2>1 DEF TypeOK, Counted, Goto, CanRetry
    <3>2. QED
      BY <2>0, <2>1, <3>1, OneCallMoves DEF TypeOK, Goto
  <2>2. CASE TryAgain(r, "reauth") \/ Finish(r, "reauth", "failed")
    <3>0. /\ sent[r] = attempt[r] + 1 /\ applied' \in [Requests -> Nat]
          /\ applied[r] <= applied'[r] /\ applied'[r] <= sent[r]
          /\ \/ TryAgain(r, "reauth")
             \/ \E res : Finish(r, "reauth", res) /\ (res = "ok" => applied'[r] > 0)
      BY <2>0, <2>2 DEF TypeOK
    <3>1. Counted(r)'
      BY <2>0, <3>0, AttemptEnds
    <3>2. QED
      BY <2>0, <2>2, <3>1, OneCallMoves DEF TypeOK, TryAgain, Finish, Goto
  <2>3. QED
    BY <1>4, <2>1, <2>2 DEF Reauthenticated
<1>5. ASSUME NEW r \in Requests, Renewed(r) PROVE BudgetInv'
  <2>1. Counted(r)'
    BY <1>0, <1>5 DEF TypeOK, Renewed, Counted, Finish, Goto
  <2>2. QED
    BY <1>5, <2>1, OneCallMoves DEF TypeOK, Renewed, Finish, Goto
<1>6. ASSUME NEW r \in Requests, WakeUp(r) \/ Resume(r) PROVE BudgetInv'
  <2>1. Counted(r)'
    BY <1>0, <1>6 DEF TypeOK, WakeUp, Resume, Counted, Fetch, Goto, More
  <2>2. QED
    BY <1>6, <2>1, OneCallMoves DEF TypeOK, WakeUp, Resume, Fetch, Goto
<1>7. ASSUME NEW r \in Requests, pc[r] = "answer", Unauthorized(r)
      PROVE  BudgetInv'
  <2>1. Counted(r)'
    BY <1>0, <1>7 DEF TypeOK, Unauthorized, Counted, Finish, Goto
  <2>2. QED
    BY <1>7, <2>1, OneCallMoves DEF TypeOK, Unauthorized, Finish, Goto
<1>8. ASSUME NEW r \in Requests, pc[r] = "answer", Answered(r)
      PROVE  BudgetInv'
  <2>1. /\ sent[r] = attempt[r] + 1 /\ applied[r] <= attempt[r] /\ Counted(r)
        /\ More(applied[r]) = applied[r] + 1
    BY <1>0, <1>8 DEF TypeOK, Counted, More
  <2>2. applied' \in {applied, [applied EXCEPT ![r] = applied[r] + 1]}
    BY <1>8, <2>1 DEF Answered
  <2>3. /\ applied' \in [Requests -> Nat]
        /\ applied[r] <= applied'[r] /\ applied'[r] <= sent[r]
        /\ \A q \in Requests \ {r} : applied'[q] = applied[q]
    BY <2>1, <2>2 DEF TypeOK
  <2>4. \/ TryAgain(r, "answer") \/ Finish(r, "answer", "refused")
        \/ Finish(r, "answer", "ok") /\ applied'[r] > 0
    BY <1>8, <2>1 DEF TypeOK, Answered
  <2>5. Counted(r)'
    BY <2>1, <2>3, <2>4, AttemptEnds
  <2>6. QED
    BY <2>3, <2>4, <2>5, OneCallMoves DEF TypeOK, TryAgain, Finish, Goto
<1>9. ASSUME ExpireToken \/ UNCHANGED vars PROVE BudgetInv'
  BY <1>9 DEF BudgetInv, Counted, ExpireToken, vars
<1>10. QED
  BY <1>1, <1>2, <1>3, <1>4, <1>5, <1>6, <1>7, <1>8, <1>9
  DEF Next, Start, Proceed, Arrived

\* However renewals, 429s and failures alternate in the attempts of a call,
\* it is sent and carried out at most maxRetries + 1 times, and it succeeds only if
\* it was carried out.
THEOREM AttemptsBoundedSafe == Spec => []AttemptsBounded
<1>1. BudgetInv => AttemptsBounded
  BY DEF BudgetInv, Counted, AttemptsBounded
<1>2. QED
  BY TypeInit, TypeStep, BudgetInit, BudgetStep, <1>1, PTL DEF Spec

-----------------------------------------------------------------------------
(* The TypeScript client: the first attempt. *)

\* Someone renews the JWT that it dropped, and is not answered before every
\* call that has to resume has done so.
Renewing(r) ==
  \E q \in Requests \ {r} : q \in ran /\ pc[q] \in {"reauth", "renew"}

\* What sleeps is not a first attempt; a call that resumes finds the JWT that
\* it got, unless another call dropped it since and has not got a new one.
Resuming(r) ==
  /\ pc[r] = "sleep" => attempt[r] > 0
  /\ pc[r] = "resume" => jwt # "none" \/ Renewing(r)

FirstInv == \A r \in Requests : Resuming(r)

LEMMA FirstInit == Init => FirstInv
  BY DEF Init, FirstInv, Resuming

LEMMA FirstStep == TypeOK /\ FirstInv /\ [Next]_vars => FirstInv'
<1> SUFFICES ASSUME TypeOK, FirstInv, [Next]_vars, NEW r \in Requests
             PROVE  Resuming(r)'
  BY DEF FirstInv
<1> USE ClientAssumption
<1>0. Resuming(r)
  BY DEF FirstInv
\* A step of the call itself.
<1>1. ASSUME Start(r) PROVE Resuming(r)'
  BY <1>1 DEF TypeOK, Start, StartCall, StartRenewal, Goto, Resuming
<1>2. ASSUME Proceed(r) PROVE Resuming(r)'
  <2>1. pc'[r] = "sleep" => attempt'[r] > 0
    <3>1. CASE \E from : TryAgain(r, from)
      BY <3>1 DEF TypeOK, TryAgain, Finish, Goto, CanRetry, NextAttempt
    <3>2. CASE ~\E from : TryAgain(r, from)
      BY <1>2, <3>2
      DEF TypeOK, Proceed, Arrived, Authenticated, Reauthenticated, Renewed,
          WakeUp, Unauthorized, Answered, Resume, Fetch, Finish, Goto
    <3>3. QED
      BY <3>1, <3>2
  <2>2. pc'[r] = "resume" => jwt' # "none"
    BY <1>2
    DEF TypeOK, Proceed, Arrived, Authenticated, Reauthenticated, Renewed,
        WakeUp, Unauthorized, Answered, Resume, Fetch, Finish, TryAgain, Goto
  <2>3. QED
    BY <2>1, <2>2 DEF Resuming
\* A step of another call, which keeps the JWT or drops it to renew it.
<1>3. ASSUME NEW q \in Requests \ {r}, Start(q) \/ Proceed(q)
      PROVE  Resuming(r)'
  <2>1. pc'[r] = pc[r] /\ attempt'[r] = attempt[r] /\ RunsOn(q)
    BY <1>3
    DEF TypeOK, Start, StartCall, StartRenewal, Proceed, Arrived, Authenticated,
        Reauthenticated, Renewed, WakeUp, Unauthorized, Answered, Resume, Fetch,
        Finish, TryAgain, Goto
  <2>2. CASE pc[r] # "resume"
    BY <1>0, <2>1, <2>2 DEF Resuming
  <2>3. CASE pc[r] = "resume"
    <3>1. ran' = ran \cup {q}
      BY <2>1, <2>3 DEF RunsOn
    <3>2. CASE jwt' # "none"
      BY <1>0, <2>1, <3>2 DEF Resuming
    <3>3. CASE jwt' = "none" /\ jwt # "none"
      <4>1. pc'[q] \in {"reauth", "renew"}
        BY <1>3, <3>3
        DEF TypeOK, Start, StartCall, StartRenewal, Proceed, Arrived,
            Authenticated, Reauthenticated, Renewed, WakeUp, Unauthorized,
            Answered, Resume, Goto
      <4>2. QED
        BY <1>0, <2>1, <3>1, <4>1 DEF Resuming, Renewing
    <3>4. CASE jwt' = "none" /\ jwt = "none"
      <4>1. PICK p \in Requests \ {r} : p \in ran /\ pc[p] \in {"reauth", "renew"}
        BY <1>0, <2>3, <3>4 DEF Resuming, Renewing
      <4>2. CASE p # q
        <5>1. pc'[p] = pc[p]
          BY <1>3, <4>2
          DEF TypeOK, Start, StartCall, StartRenewal, Proceed, Arrived,
              Authenticated, Reauthenticated, Renewed, WakeUp, Unauthorized,
              Answered, Resume, Fetch, Finish, TryAgain, Goto
        <5>2. QED
          BY <1>0, <2>1, <3>1, <4>1, <5>1 DEF Resuming, Renewing
      <4>3. CASE p = q
        BY <1>3, <4>1, <4>3
        DEF Start, StartCall, StartRenewal, Proceed, Arrived, Resume, Fetch, Goto
      <4>4. QED
        BY <4>2, <4>3
    <3>5. QED
      BY <3>2, <3>3, <3>4
  <2>4. QED
    BY <2>2, <2>3
<1>4. ASSUME ExpireToken \/ UNCHANGED vars PROVE Resuming(r)'
  BY <1>0, <1>4 DEF ExpireToken, vars, Resuming, Renewing
<1>5. QED
  BY <1>1, <1>2, <1>3, <1>4 DEF Next

\* A call is first sent without a JWT only if another one dropped this.jwt
\* after the call's own authenticate() and is renewing it: for any number of
\* calls, whatever they are answered in between.
THEOREM FirstSentWithTokenSafe == Spec => FirstSentWithToken
<1>1. TypeOK /\ FirstInv /\ [Next]_vars =>
        [\A r \in Requests :
           /\ pc[r] # "answer" /\ pc'[r] = "answer"
           /\ attempt'[r] = 0 /\ bearer'[r] = "none"
           => \E q \in Requests \ {r} : pc[q] \in {"reauth", "renew"}]_vars
  <2> SUFFICES ASSUME TypeOK, FirstInv, [Next]_vars, NEW r \in Requests,
                      pc[r] # "answer", pc'[r] = "answer", attempt'[r] = 0,
                      bearer'[r] = "none"
               PROVE  \E q \in Requests \ {r} : pc[q] \in {"reauth", "renew"}
    OBVIOUS
  <2>0. Resuming(r)
    BY DEF FirstInv
  <2>1. Start(r) \/ Proceed(r)
    BY DEF TypeOK, Next, ExpireToken, vars, Start, StartCall, StartRenewal,
           Proceed, Arrived, Authenticated, Reauthenticated, Renewed, WakeUp,
           Unauthorized, Answered, Resume, Fetch, Finish, TryAgain, Goto
  <2>2. CASE Start(r)
    BY <2>2 DEF TypeOK, Start, StartCall, StartRenewal, Goto, NeedsAuth
  <2>3. CASE WakeUp(r)
    BY <2>0, <2>3 DEF TypeOK, WakeUp, Fetch, Goto, Resuming
  <2>4. CASE Resume(r)
    BY <2>0, <2>4 DEF TypeOK, Resume, Fetch, Goto, Resuming, Renewing
  <2>5. CASE Arrived(r) /\ ~WakeUp(r)
    BY <2>5
    DEF TypeOK, Arrived, Authenticated, Reauthenticated, Renewed, Unauthorized,
        Answered, Finish, TryAgain, Goto
  <2>6. QED
    BY <2>1, <2>2, <2>3, <2>4, <2>5 DEF Proceed
<1>2. QED
  BY TypeInit, TypeStep, FirstInit, FirstStep, <1>1, PTL
  DEF Spec, FirstSentWithToken

-----------------------------------------------------------------------------
(* The Python client. *)

\* An exchange happens for a client without a JWT only; one inside another
\* happens because the key is revoked, so that no exchange succeeds any more.
PyChain ==
  /\ phase # "idle" => (op = "register" <=> key = "absent")
  /\ phase = "again" => op # "register"
  /\ depth > 0 => op # "register" /\ phase # "again" /\ pyJwt = "none"
  /\ depth > 1 => key = "revoked"

PyInv == Py!PyTypeOK /\ PyChain

LEMMA PyInvInit == Py!Init => PyInv
  BY PyAssumed
  DEF Py!Init, Py!PyTypeOK, Py!PyAssumption, Py!Operations, PyInv, PyChain

LEMMA PyMoreTyped ==
  ASSUME NEW n \in Nat
  PROVE  /\ Py!More(n) \in Nat /\ Py!More(n) > 0
         /\ n <= Py!More(n) /\ Py!More(n) <= n + 1
         /\ n <= MaxRetries => Py!More(n) = n + 1
<1>1. /\ (MaxDepth + 1) * MaxRetries = MaxDepth * MaxRetries + MaxRetries
      /\ MaxDepth * MaxRetries \in Nat /\ MaxRetries \in Nat
  BY PyAssumed DEF Py!PyAssumption
<1>2. QED
  BY <1>1 DEF Py!More

LEMMA PyInvStep == PyInv /\ [Py!Next]_pyVars => PyInv'
<1> SUFFICES ASSUME PyInv, [Py!Next]_pyVars PROVE PyInv'
  OBVIOUS
<1> USE PyAssumed DEF Py!PyAssumption, PyInv, PyChain, Py!PyTypeOK
<1>0. /\ Py!More(pySent) \in Nat /\ Py!More(exchanged) \in Nat
      /\ Py!More(pyApplied) \in Nat
  BY PyMoreTyped
<1>a. ASSUME NEW t, NEW d, Py!Request(t, d)
      PROVE  /\ pySent' \in Nat /\ exchanged' \in Nat
             /\ header' = t /\ depth' = d
  BY <1>0, <1>a DEF Py!Request
<1>b. ASSUME NEW error \in {"auth", "failed", "refused", "raised"},
             Py!Raise(error), pyApplied' \in Nat, UNCHANGED pyExpiries
      PROVE  PyInv'
  BY <1>b DEF Py!Raise
<1>c. ASSUME Py!Return, Py!Apply, Py!Served, UNCHANGED pyExpiries, phase # "idle"
      PROVE  PyInv'
  <2>1. pyApplied' \in Nat
    BY <1>0, <1>c DEF Py!Apply
  <2>2. CASE depth = 0
    BY <1>c, <2>1, <2>2 DEF Py!Return
  <2>3. CASE depth > 0
    <3>1. depth = 1 /\ key = "good"
      BY <1>c, <2>3 DEF Py!Served, Py!Exchanging, Py!ExchangingAt
    <3>2. /\ phase' = "again" /\ pyJwt' = "good" /\ UNCHANGED <<key, pyResult>>
          /\ UNCHANGED <<op, pyAttempt>> /\ Py!Request("good", 0)
      BY <1>c, <3>1 DEF Py!Return
    <3>3. QED
      BY <1>a, <1>c, <2>1, <2>3, <3>1, <3>2
  <2>4. QED
    BY <2>2, <2>3
<1>1. ASSUME NEW o \in Py!Operations, Py!Start(o) PROVE PyInv'
  BY <1>1 DEF Py!Start, Py!AuthHeader, Py!Operations
<1>2. ASSUME Py!Answered, UNCHANGED pyExpiries PROVE PyInv'
  BY <1>2, <1>c DEF Py!Answered
<1>3. ASSUME Py!Unauthorized, UNCHANGED pyExpiries PROVE PyInv'
  <2>1. CASE Py!Renews /\ depth < MaxDepth
    <3>1. /\ Py!Request("key", depth + 1) /\ pyAttempt' = 0
          /\ UNCHANGED <<pyJwt, key, op, phase, pyResult, pyApplied>>
          /\ pyJwt = "none" /\ key # "absent" /\ phase = "answer"
      BY <1>3, <2>1 DEF Py!Unauthorized, Py!Renews, Py!AuthHeader
    <3>2. depth > 0 => key = "revoked"
      BY <1>3, <3>1
      DEF Py!Unauthorized, Py!Served, Py!Exchanging, Py!ExchangingAt
    <3>3. QED
      BY <1>3, <1>a, <2>1, <3>1, <3>2
  <2>2. CASE ~(Py!Renews /\ depth < MaxDepth)
    BY <1>3, <1>b, <2>2 DEF Py!Unauthorized
  <2>3. QED
    BY <2>1, <2>2
<1>4. ASSUME Py!TryAgain, UNCHANGED pyExpiries PROVE PyInv'
  <2>1. pyApplied' \in Nat
    BY <1>0, <1>4 DEF Py!TryAgain, Py!Apply
  <2>2. CASE Py!CanRetry(pyAttempt)
    BY <1>4, <2>1, <2>2 DEF Py!TryAgain, Py!CanRetry, Py!NextAttempt
  <2>3. CASE ~Py!CanRetry(pyAttempt)
    BY <1>4, <1>b, <2>1, <2>3 DEF Py!TryAgain
  <2>4. QED
    BY <2>2, <2>3
<1>5. ASSUME Py!WakeUp, UNCHANGED pyExpiries PROVE PyInv'
  BY <1>5, <1>a DEF Py!WakeUp
<1>6. ASSUME Py!Refused \/ Py!Garbled \/ Py!RepeatedBadly,
             UNCHANGED pyExpiries
      PROVE  PyInv'
  <2>1. pyApplied' \in Nat
    BY <1>0, <1>6
    DEF Py!Refused, Py!Garbled, Py!RepeatedBadly, Py!MayApply, Py!Apply
  <2>2. QED
    BY <1>6, <1>b, <2>1 DEF Py!Refused, Py!Garbled, Py!RepeatedBadly
<1>7. ASSUME Py!RepeatedWell, UNCHANGED pyExpiries PROVE PyInv'
  BY <1>7, <1>c DEF Py!RepeatedWell
<1>8. ASSUME Py!ExpireToken PROVE PyInv'
  BY <1>8 DEF Py!ExpireToken, Py!history
<1>9. ASSUME Py!RevokeKey PROVE PyInv'
  BY <1>9 DEF Py!RevokeKey, Py!history
<1>10. ASSUME UNCHANGED pyVars PROVE PyInv'
  BY <1>10 DEF pyVars
<1>11. QED
  BY <1>1, <1>2, <1>3, <1>4, <1>5, <1>6, <1>7, <1>8, <1>9, <1>10
  DEF Py!Next, Py!Proceed

-----------------------------------------------------------------------------
(* The Python client: the budgets. *)

\* What d exchanges inside each other may send.
Levels(d) == d * MaxRetries

LEMMA LevelsGrow ==
  /\ Levels(0) = 0 /\ Levels(1) = MaxRetries
  /\ \A d \in 0 .. MaxDepth :
       /\ Levels(d) \in Nat /\ Levels(d) <= Levels(MaxDepth)
       /\ Levels(d + 1) = Levels(d) + MaxRetries
<1> USE PyAssumed DEF Py!PyAssumption
<1>1. ASSUME NEW d \in 0 .. MaxDepth PROVE Levels(d) <= Levels(MaxDepth)
  <2>1. MaxDepth - d \in Nat /\ (MaxDepth - d) * MaxRetries \in Nat
    OBVIOUS
  <2>2. MaxDepth * MaxRetries = d * MaxRetries + (MaxDepth - d) * MaxRetries
    OBVIOUS
  <2>3. d * MaxRetries \in Nat
    OBVIOUS
  <2>4. QED
    BY <2>1, <2>2, <2>3 DEF Levels
<1>2. QED
  BY <1>1 DEF Levels

\* At the depth of the call itself, the attempt counts what has been sent;
\* deeper, it counts what the innermost exchange has sent.  What is under way
\* is not yet counted as carried out.
PyCounts ==
  /\ op = "reauthenticate" => pySent = 0 /\ pyApplied = 0
  /\ op # "reauthenticate" /\ depth = 0 /\ phase = "answer" =>
       pySent = pyAttempt + 1 /\ pyApplied <= pyAttempt
  /\ op # "reauthenticate" /\ depth = 0 /\ phase = "sleep" =>
       pySent = pyAttempt /\ pyApplied <= pyAttempt
  /\ op # "reauthenticate" /\ depth > 0 =>
       pySent <= MaxRetries /\ pyApplied < pySent
  /\ op # "reauthenticate" /\ phase = "again" => pyApplied < pySent
  /\ op = "call" /\ depth = 0 /\ phase \in {"answer", "sleep"} => exchanged = 0
  /\ op = "call" /\ depth > 0 /\ phase = "answer" =>
       exchanged + MaxRetries <= Levels(depth) + pyAttempt + 1
  /\ op = "call" /\ depth > 0 /\ phase = "sleep" =>
       exchanged + MaxRetries <= Levels(depth) + pyAttempt
  /\ phase # "idle" => pyResult # "ok"

PyBudgetInv == PyCounts /\ PyAttemptsBounded

LEMMA PyBudgetInit == Py!Init => PyBudgetInv
  BY PyAssumed, LevelsGrow
  DEF Py!Init, PyBudgetInv, PyCounts, PyAttemptsBounded, Py!PyAttemptsBounded,
      Py!PyAssumption, Levels

LEMMA PyBudgetStep == PyInv /\ PyBudgetInv /\ [Py!Next]_pyVars => PyBudgetInv'
<1> SUFFICES ASSUME PyInv, PyBudgetInv, [Py!Next]_pyVars PROVE PyBudgetInv'
  OBVIOUS
<1> USE PyAssumed, LevelsGrow
    DEF Py!PyAssumption, PyInv, PyChain, Py!PyTypeOK, PyBudgetInv, PyCounts
<1> DEFINE Bounded ==
      /\ pyApplied <= pySent /\ pySent <= MaxRetries + 1
      /\ op = "register" => pySent <= MaxRetries
      /\ pyResult = "ok" /\ op # "reauthenticate" => pyApplied > 0
      /\ op = "call" => exchanged <= Levels(MaxDepth)
<1>d. PyAttemptsBounded <=> Bounded
  BY DEF PyAttemptsBounded, Py!PyAttemptsBounded, Levels
<1>e. PyAttemptsBounded' <=> Bounded'
  BY DEF PyAttemptsBounded, Py!PyAttemptsBounded, Levels
<1>0. /\ Py!More(pySent) \in Nat /\ Py!More(exchanged) \in Nat
      /\ Py!More(pyApplied) \in Nat
      /\ Py!More(pySent) <= pySent + 1 /\ Py!More(exchanged) <= exchanged + 1
      /\ Py!More(pyApplied) <= pyApplied + 1 /\ Py!More(pyApplied) > 0
      /\ pySent <= Py!More(pySent)
  BY PyMoreTyped
\* Whatever a step does to what has been carried out.
<1>a. ASSUME Py!Apply \/ UNCHANGED pyApplied
      PROVE  /\ pyApplied' \in Nat /\ pyApplied' <= pyApplied + 1
             /\ op = "reauthenticate" \/ depth > 0 => pyApplied' = pyApplied
  BY <1>0, <1>a DEF Py!Apply, Py!Exchanging, Py!ExchangingAt
<1>b. ASSUME NEW error \in {"auth", "failed", "refused", "raised"},
             Py!Raise(error), Py!Apply \/ UNCHANGED pyApplied, phase # "idle",
             phase = "sleep" => UNCHANGED pyApplied
      PROVE  PyBudgetInv'
  <2>1. /\ phase' = "idle" /\ pyResult' # "ok"
        /\ UNCHANGED <<op, pySent, exchanged>> /\ depth' = 0
    BY <1>b DEF Py!Raise
  <2>2. pyApplied' <= pySent
    BY <1>a, <1>b, <1>d
  <2>3. QED
    BY <1>a, <1>b, <1>d, <1>e, <2>1, <2>2
<1>c. ASSUME Py!Return, Py!Apply, Py!Served, phase \in {"answer", "again"}
      PROVE  PyBudgetInv'
  <2>1. CASE depth = 0
    <3>1. /\ phase' = "idle" /\ depth' = 0 /\ UNCHANGED <<op, pySent, exchanged>>
      BY <1>c, <2>1 DEF Py!Return
    <3>2. /\ pyApplied' <= pySent
          /\ op # "reauthenticate" => pyApplied' > 0
      BY <1>0, <1>a, <1>c, <2>1 DEF Py!Apply, Py!Exchanging, Py!ExchangingAt
    <3>3. QED
      BY <1>a, <1>c, <1>d, <1>e, <2>1, <3>1, <3>2
  <2>2. CASE depth > 0
    <3>1. depth = 1 /\ key = "good" /\ phase = "answer" /\ op # "register"
      BY <1>c, <2>2 DEF Py!Served, Py!Exchanging, Py!ExchangingAt
    <3>2. /\ phase' = "again" /\ depth' = 0 /\ UNCHANGED <<op, pyResult>>
          /\ pyApplied' = pyApplied
          /\ op # "reauthenticate" =>
               pySent' = Py!More(pySent) /\ UNCHANGED exchanged
          /\ op = "reauthenticate" => UNCHANGED pySent
      BY <1>a, <1>c, <3>1 DEF Py!Return, Py!Request, Py!ExchangingAt
    <3>3. QED
      BY <1>0, <1>d, <1>e, <3>1, <3>2
  <2>3. QED
    BY <2>1, <2>2
<1>1. ASSUME NEW o \in Py!Operations, Py!Start(o) PROVE PyBudgetInv'
  BY <1>1, <1>d, <1>e DEF Py!Start, Py!Operations
<1>2. ASSUME Py!Answered PROVE PyBudgetInv'
  BY <1>2, <1>c DEF Py!Answered
<1>3. ASSUME Py!Unauthorized PROVE PyBudgetInv'
  <2>1. CASE Py!Renews /\ depth < MaxDepth
    <3>1. /\ phase = "answer" /\ phase' = "answer" /\ depth' = depth + 1
          /\ pyAttempt' = 0 /\ UNCHANGED <<op, pyApplied, pyResult, pySent>>
          /\ exchanged' = Py!More(exchanged) /\ op # "register"
      BY <1>3, <2>1
      DEF Py!Unauthorized, Py!Renews, Py!Request, Py!ExchangingAt
    <3>2. Levels(depth + 1) = Levels(depth) + MaxRetries
      OBVIOUS
    <3>3. op = "call" => exchanged <= Levels(depth)
      <4>1. CASE depth = 0
        BY <3>1, <4>1
      <4>2. CASE depth > 0
        BY <3>1, <4>2
      <4>3. QED
        BY <4>1, <4>2
    <3>4. Levels(depth) \in Nat /\ Levels(depth + 1) <= Levels(MaxDepth)
      BY <2>1
    <3>5. op = "call" => /\ exchanged' + MaxRetries <= Levels(depth') + 1
                         /\ exchanged' <= Levels(MaxDepth)
      BY <1>0, <3>1, <3>2, <3>3, <3>4
    <3>6. op # "reauthenticate" => pySent <= MaxRetries /\ pyApplied < pySent
      BY <3>1
    <3>7. QED
      BY <1>d, <1>e, <3>1, <3>5, <3>6
  <2>2. CASE ~(Py!Renews /\ depth < MaxDepth)
    BY <1>3, <1>b, <2>2 DEF Py!Unauthorized
  <2>3. QED
    BY <2>1, <2>2
<1>4. ASSUME Py!TryAgain PROVE PyBudgetInv'
  <2>1. Py!Apply \/ UNCHANGED pyApplied
    BY <1>4 DEF Py!TryAgain
  <2>2. CASE Py!CanRetry(pyAttempt)
    <3>1. /\ phase = "answer" /\ phase' = "sleep" /\ pyAttempt' = pyAttempt + 1
          /\ UNCHANGED <<op, depth, pySent, exchanged, pyResult>>
      BY <1>4, <2>2 DEF Py!TryAgain, Py!NextAttempt
    <3>2. QED
      BY <1>a, <1>d, <1>e, <2>1, <3>1
  <2>3. CASE ~Py!CanRetry(pyAttempt)
    BY <1>4, <1>b, <2>1, <2>3 DEF Py!TryAgain
  <2>4. QED
    BY <2>2, <2>3
<1>5. ASSUME Py!WakeUp PROVE PyBudgetInv'
  <2>1. /\ phase = "sleep" /\ phase' = "answer"
        /\ UNCHANGED <<op, depth, pyAttempt, pyApplied, pyResult>>
        /\ pySent' = IF op = "reauthenticate" \/ depth > 0 THEN pySent
                                                           ELSE Py!More(pySent)
        /\ exchanged' = IF op = "reauthenticate" \/ depth > 0
                        THEN Py!More(exchanged) ELSE exchanged
    BY <1>5 DEF Py!WakeUp, Py!Request, Py!ExchangingAt
  <2>2. op # "reauthenticate" /\ depth = 0 => pySent' = pySent + 1
    BY <2>1, PyMoreTyped
  <2>3. QED
    BY <1>0, <1>d, <1>e, <2>1, <2>2
<1>6. ASSUME Py!Refused \/ Py!Garbled \/ Py!RepeatedBadly PROVE PyBudgetInv'
  BY <1>6, <1>b
  DEF Py!Refused, Py!Garbled, Py!RepeatedBadly, Py!MayApply
<1>7. ASSUME Py!RepeatedWell PROVE PyBudgetInv'
  BY <1>7, <1>c DEF Py!RepeatedWell
<1>8. ASSUME Py!ExpireToken \/ Py!RevokeKey \/ UNCHANGED pyVars
      PROVE  PyBudgetInv'
  BY <1>8, <1>d, <1>e DEF Py!ExpireToken, Py!RevokeKey, Py!history, pyVars
<1>9. QED
  BY <1>1, <1>2, <1>3, <1>4, <1>5, <1>6, <1>7, <1>8 DEF Py!Next, Py!Proceed

-----------------------------------------------------------------------------
(* The two clients next to each other. *)

\* Both clients take steps of their own specifications.
LEMMA ClientSteps == [ClientsNext]_allVars => [Next]_vars /\ [Py!Next]_pyVars
  BY DEF ClientsNext, allVars

LEMMA ClientsTypeStep ==
  ClientsTypeOK /\ PyChain /\ [ClientsNext]_allVars =>
    ClientsTypeOK' /\ PyChain'
<1> SUFFICES ASSUME ClientsTypeOK, PyChain, [ClientsNext]_allVars
             PROVE  ClientsTypeOK' /\ PyChain'
  OBVIOUS
<1>1. [Next]_vars /\ [Py!Next]_pyVars
  BY ClientSteps
<1>2. sdk' = sdk
  BY DEF ClientsNext, allVars
<1>3. TypeOK'
  BY <1>1, TypeStep DEF ClientsTypeOK
<1>4. PyInv'
  BY <1>1, PyInvStep DEF ClientsTypeOK, PyInv
<1>5. QED
  BY <1>2, <1>3, <1>4 DEF ClientsTypeOK, PyInv

\* The two clients next to each other keep the types of all their variables.
THEOREM ClientsTypeSafe == ClientsSpec => []ClientsTypeOK
<1>1. ClientsInit => ClientsTypeOK /\ PyChain
  BY TypeInit, PyInvInit DEF ClientsInit, ClientsTypeOK, PyInv
<1>2. QED
  BY <1>1, ClientsTypeStep, PTL DEF ClientsSpec

\* The attempts, the exchanges inside exchanges and the one repetition of the
\* Python client are bounded, for any number of attempts and any stack.
THEOREM PyAttemptsBoundedSafe == ClientsSpec => []PyAttemptsBounded
<1>1. PyBudgetInv => PyAttemptsBounded
  BY DEF PyBudgetInv
<1>2. ClientsInit => PyInv /\ PyBudgetInv
  BY PyInvInit, PyBudgetInit DEF ClientsInit
<1>3. QED
  BY <1>1, <1>2, ClientSteps, PyInvStep, PyBudgetStep, PTL DEF ClientsSpec

\* The Python client never gets a JWT in the place of one that has expired.
THEOREM PyExpiredForGoodSafe == ClientsSpec => PyExpiredForGood
<1>1. PyInv /\ [Py!Next]_pyVars =>
        [(pyJwt \in {"due", "rejected"}) => pyJwt' # "good"]_pyVars
  <2> SUFFICES ASSUME PyInv, [Py!Next]_pyVars, pyJwt \in {"due", "rejected"}
               PROVE  pyJwt' # "good"
    OBVIOUS
  <2> USE DEF PyInv, PyChain, Py!PyTypeOK
  <2>1. ASSUME Py!Return, phase # "idle" PROVE UNCHANGED pyJwt
    BY <2>1 DEF Py!Return
  <2>2. ASSUME NEW e, Py!Raise(e) PROVE UNCHANGED pyJwt
    BY <2>2 DEF Py!Raise
  <2>3. CASE Py!Proceed
    <3>1. CASE Py!Answered \/ Py!RepeatedWell
      BY <2>1, <3>1 DEF Py!Answered, Py!RepeatedWell
    <3>2. CASE Py!Unauthorized \/ Py!TryAgain \/ Py!WakeUp
      BY <2>2, <3>2 DEF Py!Unauthorized, Py!TryAgain, Py!WakeUp
    <3>3. CASE Py!Refused \/ Py!Garbled \/ Py!RepeatedBadly
      BY <2>2, <3>3 DEF Py!Refused, Py!Garbled, Py!RepeatedBadly
    <3>4. QED
      BY <2>3, <3>1, <3>2, <3>3 DEF Py!Proceed
  <2>4. CASE \E o \in Py!Operations : Py!Start(o)
    BY <2>4 DEF Py!Start
  <2>5. CASE Py!ExpireToken \/ Py!RevokeKey \/ UNCHANGED pyVars
    BY <2>5 DEF Py!ExpireToken, Py!RevokeKey, pyVars
  <2>6. QED
    BY <2>3, <2>4, <2>5 DEF Py!Next
<1>2. ClientsInit => PyInv
  BY PyInvInit DEF ClientsInit
<1>3. QED
  BY <1>1, <1>2, ClientSteps, PyInvStep, PTL
  DEF ClientsSpec, PyExpiredForGood, Py!PyExpiredForGood, pyVars, Py!vars

-----------------------------------------------------------------------------
(* The TypeScript client: every await brings a call nearer to its end. *)

\* What a call has still ahead of it: three awaits for each attempt it may yet
\* make (two answers and a resumption, or one and a sleep), less what it has
\* done of the one under way.
Ahead(n) == MaxRetries - n

Work(r) ==
  CASE pc[r] = "idle" -> 0
    [] pc[r] = "renew" -> 1
    [] pc[r] = "answer" -> 3 * Ahead(attempt[r]) + 3
    [] pc[r] = "reauth" -> 3 * Ahead(attempt[r]) + 2
    [] pc[r] \in {"sleep", "resume"} -> 3 * Ahead(attempt[r]) + 4
    [] pc[r] = "auth" -> 3 * MaxRetries + 5

\* It is a natural number ...
LEMMA WorkTyped ==
  ASSUME TypeOK, NEW r \in Requests
  PROVE  Work(r) \in Nat
<1>1. attempt[r] \in 0 .. MaxRetries /\ MaxRetries \in Nat
  BY ClientAssumption DEF TypeOK, ClientAssumption
<1>2. pc[r] \in Awaits
  BY DEF TypeOK
<1>3. QED
  BY <1>1, <1>2 DEF Work, Ahead, Awaits

\* ... after a step too.
LEMMA WorkTypedNext ==
  ASSUME TypeOK', NEW r \in Requests
  PROVE  Work(r)' \in Nat
<1>1. attempt'[r] \in 0 .. MaxRetries /\ MaxRetries \in Nat
  BY ClientAssumption DEF TypeOK, ClientAssumption
<1>2. pc'[r] \in Awaits
  BY DEF TypeOK
<1>3. QED
  BY <1>1, <1>2 DEF Work, Ahead, Awaits

\* The end of an attempt, and of a call, is nearer to the end.
LEMMA TryAgainNearer ==
  ASSUME TypeOK, NEW r \in Requests, NEW from \in {"answer", "reauth"},
         TryAgain(r, from)
  PROVE  Work(r)' < Work(r)
<1>1. /\ attempt[r] \in 0 .. MaxRetries /\ MaxRetries \in Nat /\ pc[r] = from
  BY ClientAssumption DEF TypeOK, ClientAssumption, TryAgain, Finish, Goto
<1>2. CASE CanRetry(attempt[r])
  <2>1. pc'[r] = "sleep" /\ attempt'[r] = attempt[r] + 1 /\ attempt[r] < MaxRetries
    BY <1>2 DEF TryAgain, Goto, TypeOK, CanRetry, NextAttempt
  <2>2. QED
    BY <1>1, <2>1 DEF Work, Ahead
<1>3. CASE ~CanRetry(attempt[r])
  <2>1. pc'[r] = "idle"
    BY <1>3 DEF TryAgain, Finish, Goto, TypeOK
  <2>2. QED
    BY <1>1, <2>1 DEF Work, Ahead
<1>4. QED
  BY <1>2, <1>3

\* A call that ends has nothing ahead.
LEMMA FinishNearer ==
  ASSUME TypeOK, NEW r \in Requests, NEW from, from # "idle", NEW res,
         Finish(r, from, res)
  PROVE  Work(r)' < Work(r)
<1>1. /\ attempt[r] \in 0 .. MaxRetries /\ MaxRetries \in Nat /\ pc[r] = from
      /\ pc[r] \in Awaits
      /\ pc'[r] = "idle"
  BY ClientAssumption DEF TypeOK, ClientAssumption, Finish, Goto
<1>2. QED
  BY <1>1 DEF Work, Ahead, Awaits

\* So it is for every answer, the end of every sleep and every resumption.
LEMMA CallNearer ==
  ASSUME TypeOK, NEW r \in Requests, Proceed(r)
  PROVE  Work(r)' < Work(r)
<1>0. /\ attempt[r] \in 0 .. MaxRetries /\ MaxRetries \in Nat
  BY ClientAssumption DEF TypeOK, ClientAssumption
<1>1. ASSUME NEW from, NEW n \in Nat, NEW token, Fetch(r, from, n, token),
             from \in {"sleep", "resume"}, n = attempt[r]
      PROVE  Work(r)' < Work(r)
  <2>1. pc[r] = from /\ pc'[r] = "answer" /\ attempt'[r] = n
    BY <1>1 DEF Fetch, Goto, TypeOK
  <2>2. QED
    BY <1>0, <1>1, <2>1 DEF Work, Ahead
<1>2. CASE Authenticated(r)
  <2>1. CASE Goto(r, "auth", "resume") /\ attempt' = [attempt EXCEPT ![r] = 0]
    <3>1. pc[r] = "auth" /\ pc'[r] = "resume" /\ attempt'[r] = 0
      BY <2>1 DEF Goto, TypeOK
    <3>2. QED
      BY <1>0, <3>1 DEF Work, Ahead
  <2>2. CASE Finish(r, "auth", "failed")
    BY <2>2, FinishNearer
  <2>3. QED
    BY <1>2, <2>1, <2>2 DEF Authenticated
<1>3. CASE Reauthenticated(r)
  <2>1. CASE /\ CanRetry(attempt[r]) /\ Goto(r, "reauth", "resume")
             /\ attempt' = [attempt EXCEPT ![r] = @ + 1]
    <3>1. /\ pc[r] = "reauth" /\ pc'[r] = "resume"
          /\ attempt'[r] = attempt[r] + 1 /\ attempt[r] < MaxRetries
      BY <2>1 DEF Goto, TypeOK, CanRetry
    <3>2. QED
      BY <1>0, <3>1 DEF Work, Ahead
  <2>2. CASE Finish(r, "reauth", "failed") \/ TryAgain(r, "reauth")
    BY <2>2, FinishNearer, TryAgainNearer
  <2>3. QED
    BY <1>3, <2>1, <2>2 DEF Reauthenticated
<1>4. CASE Renewed(r)
  BY <1>4, FinishNearer DEF Renewed
<1>5. CASE WakeUp(r) \/ Resume(r)
  BY <1>0, <1>1, <1>5 DEF WakeUp, Resume
<1>6. CASE Unauthorized(r)
  <2>1. CASE attempt[r] = 0
    <3>1. pc[r] = "answer" /\ pc'[r] = "reauth" /\ attempt' = attempt
      BY <1>6, <2>1 DEF Unauthorized, Goto, TypeOK
    <3>2. QED
      BY <1>0, <3>1 DEF Work, Ahead
  <2>2. CASE attempt[r] # 0
    BY <1>6, <2>2, FinishNearer DEF Unauthorized
  <2>3. QED
    BY <2>1, <2>2
<1>7. CASE Answered(r)
  BY <1>7, FinishNearer, TryAgainNearer DEF Answered
<1>8. QED
  BY <1>2, <1>3, <1>4, <1>5, <1>6, <1>7 DEF Proceed, Arrived

\* Nothing else takes a call that is running further away from its end.
LEMMA OthersKeepWork ==
  ASSUME TypeOK, [Next]_vars, NEW r \in Requests, pc[r] # "idle", ~Proceed(r)
  PROVE  Work(r)' = Work(r)
<1>1. pc'[r] = pc[r] /\ attempt'[r] = attempt[r]
  <2>1. ASSUME NEW q \in Requests, q # r,
               Start(q) \/ Proceed(q)
        PROVE  pc'[r] = pc[r] /\ attempt'[r] = attempt[r]
    BY <2>1
    DEF Start, StartCall, StartRenewal, Proceed, Arrived, Authenticated,
        Reauthenticated, Renewed, WakeUp, Unauthorized, Answered, Resume, Fetch,
        Finish, TryAgain, Goto, TypeOK
  <2>2. ASSUME Start(r) PROVE FALSE
    BY <2>2 DEF Start, StartCall, StartRenewal, Goto
  <2>3. CASE ExpireToken \/ UNCHANGED vars
    BY <2>3 DEF ExpireToken, vars
  <2>4. QED
    BY <2>1, <2>2, <2>3 DEF Next
<1>2. QED
  BY <1>1 DEF Work

\* The answer to each fetch of a call, and the end of each of its sleeps,
\* brings the call nearer to its end, and nothing that other calls do to the
\* JWT they share takes it further away: no call goes on for ever, for any
\* number of concurrent calls and any budget of retries.
THEOREM CallsGetNearer ==
  Spec => [][\A r \in Requests : pc[r] # "idle" =>
               /\ Work(r) \in Nat /\ Work(r)' <= Work(r)
               /\ Proceed(r) => Work(r)' < Work(r)]_vars
<1>1. TypeOK /\ TypeOK' /\ [Next]_vars =>
        [\A r \in Requests : pc[r] # "idle" =>
           /\ Work(r) \in Nat /\ Work(r)' <= Work(r)
           /\ Proceed(r) => Work(r)' < Work(r)]_vars
  <2> SUFFICES ASSUME TypeOK, TypeOK', [Next]_vars,
                      NEW r \in Requests, pc[r] # "idle"
               PROVE  /\ Work(r) \in Nat /\ Work(r)' <= Work(r)
                      /\ Proceed(r) => Work(r)' < Work(r)
    OBVIOUS
  <2>1. Work(r) \in Nat
    BY WorkTyped
  <2>2. CASE Proceed(r)
    <3>1. Work(r)' < Work(r)
      BY <2>2, CallNearer
    <3>2. Work(r)' \in Nat
      BY WorkTypedNext
    <3>3. QED
      BY <2>1, <3>1, <3>2
  <2>3. CASE ~Proceed(r)
    BY <2>1, <2>3, OthersKeepWork
  <2>4. QED
    BY <2>2, <2>3
<1>2. QED
  BY TypeInit, TypeStep, <1>1, PTL DEF Spec

-----------------------------------------------------------------------------
(* The Python client: every answer brings the call nearer to its end. *)

\* What the exchanges that may still begin inside one at depth d can take: for
\* each of them its attempts, the sleeps between them and a repetition.
Deeper(d) == (MaxDepth - d) * (2 * MaxRetries + 2)

\* One level deeper there is one level less.
LEMMA DeeperShrinks ==
  ASSUME NEW d \in 0 .. MaxDepth
  PROVE  /\ Deeper(d) \in Nat
         /\ d < MaxDepth => Deeper(d) = Deeper(d + 1) + 2 * MaxRetries + 2
<1> DEFINE x == 2 * MaxRetries + 2
           n == MaxDepth - d
<1>1. x \in Nat /\ n \in Nat
  BY PyAssumed DEF Py!PyAssumption
<1>2. Deeper(d) = n * x /\ MaxDepth - (d + 1) = n - 1
  BY PyAssumed DEF Deeper, Py!PyAssumption
<1>3. Deeper(d + 1) = (n - 1) * x
  BY <1>2 DEF Deeper
<1> HIDE DEF n
<1>4. n * x \in Nat /\ n * x = (n - 1) * x + x
  <2> HIDE DEF x
  <2> QED
    BY <1>1
<1>5. (n - 1) * x \in Int
  <2> HIDE DEF x
  <2> QED
    BY <1>1
<1>6. MaxRetries \in Nat
  BY PyAssumed DEF Py!PyAssumption
<1>7. QED
  BY <1>2, <1>3, <1>4, <1>5, <1>6

\* What a call has still ahead of it: its repetitions on the way out, what the
\* exchanges inside it can take, and the attempts of the request under way.
PyWork ==
  CASE phase = "idle" -> 0
    [] phase = "again" -> depth + 1
    [] phase = "answer" ->
         MaxDepth + 1 + Deeper(depth) + 2 * (MaxRetries - pyAttempt)
    [] phase = "sleep" ->
         MaxDepth + 2 + Deeper(depth) + 2 * (MaxRetries - pyAttempt)

\* It is a natural number ...
LEMMA PyWorkTyped == Py!PyTypeOK => PyWork \in Nat
<1> SUFFICES ASSUME Py!PyTypeOK PROVE PyWork \in Nat
  OBVIOUS
<1>1. Deeper(depth) \in Nat
  BY DeeperShrinks DEF Py!PyTypeOK
<1>2. QED
  BY <1>1, PyAssumed DEF PyWork, Py!PyTypeOK, Py!PyAssumption

\* ... after a step too.
LEMMA PyWorkTypedNext == ASSUME Py!PyTypeOK' PROVE PyWork' \in Nat
<1>1. Deeper(depth)' \in Nat
  <2>1. PICK d \in 0 .. MaxDepth : d = depth'
    BY DEF Py!PyTypeOK
  <2>2. Deeper(depth)' = Deeper(d)
    BY <2>1 DEF Deeper
  <2>3. QED
    BY <2>2, DeeperShrinks
<1>2. QED
  BY <1>1, PyAssumed DEF PyWork, Py!PyTypeOK, Py!PyAssumption

\* Every answer and the end of every sleep take something off it.
LEMMA PyCallNearer ==
  ASSUME Py!PyTypeOK, Py!PyTypeOK', Py!Proceed
  PROVE  PyWork' < PyWork
<1>0. /\ MaxRetries \in Nat \ {0} /\ MaxDepth \in Nat \ {0}
      /\ depth \in 0 .. MaxDepth /\ pyAttempt \in 0 .. MaxRetries - 1
      /\ depth' \in 0 .. MaxDepth /\ pyAttempt' \in 0 .. MaxRetries - 1
      /\ Deeper(depth) \in Nat
      /\ depth < MaxDepth => Deeper(depth) = Deeper(depth + 1) + 2 * MaxRetries + 2
  BY PyAssumed, DeeperShrinks DEF Py!PyTypeOK, Py!PyAssumption
<1>1. ASSUME phase # "idle", phase' = "idle" PROVE PyWork' < PyWork
  <2>1. PyWork' = 0
    BY <1>1 DEF PyWork
  <2>2. phase \in {"answer", "sleep", "again"}
    BY <1>1 DEF Py!PyTypeOK
  <2>3. PyWork > 0
    BY <1>0, <2>2 DEF PyWork
  <2>4. QED
    BY <2>1, <2>3
<1>2. ASSUME phase \in {"answer", "again"}, depth > 0,
             phase' = "again", depth' = depth - 1
      PROVE  PyWork' < PyWork
  <2>1. PyWork' = depth
    BY <1>0, <1>2 DEF PyWork
  <2>2. PyWork > depth
    BY <1>0, <1>2 DEF PyWork
  <2>3. QED
    BY <2>1, <2>2
<1>3. ASSUME NEW error, Py!Raise(error), phase # "idle" PROVE PyWork' < PyWork
  BY <1>1, <1>3 DEF Py!Raise
<1>4. ASSUME Py!Return, phase \in {"answer", "again"} PROVE PyWork' < PyWork
  <2>1. CASE depth = 0
    BY <1>1, <1>4, <2>1 DEF Py!Return
  <2>2. CASE depth # 0
    BY <1>0, <1>2, <1>4, <2>2 DEF Py!Return, Py!Request
  <2>3. QED
    BY <2>1, <2>2
<1>5. CASE Py!Answered \/ Py!RepeatedWell
  BY <1>4, <1>5 DEF Py!Answered, Py!RepeatedWell
<1>6. CASE Py!Unauthorized
  <2>1. CASE Py!Renews /\ depth < MaxDepth
    <3>1. /\ phase = "answer" /\ phase' = "answer" /\ pyAttempt' = 0
          /\ depth' = depth + 1
      BY <1>6, <2>1 DEF Py!Unauthorized, Py!Request
    <3>2. Deeper(depth)' = Deeper(depth + 1)
      BY <3>1 DEF Deeper
    <3>3. Deeper(depth + 1) \in Nat
      BY <1>0, <2>1, DeeperShrinks
    <3>4. QED
      BY <1>0, <2>1, <3>1, <3>2, <3>3 DEF PyWork
  <2>2. CASE ~(Py!Renews /\ depth < MaxDepth)
    BY <1>3, <1>6, <2>2 DEF Py!Unauthorized
  <2>3. QED
    BY <2>1, <2>2
<1>7. CASE Py!TryAgain
  <2>1. CASE Py!CanRetry(pyAttempt)
    <3>1. /\ phase = "answer" /\ phase' = "sleep" /\ pyAttempt' = pyAttempt + 1
          /\ depth' = depth
      BY <1>7, <2>1 DEF Py!TryAgain, Py!NextAttempt
    <3>2. Deeper(depth)' = Deeper(depth)
      BY <3>1 DEF Deeper
    <3>3. QED
      BY <1>0, <3>1, <3>2 DEF PyWork
  <2>2. CASE ~Py!CanRetry(pyAttempt)
    BY <1>3, <1>7, <2>2 DEF Py!TryAgain
  <2>3. QED
    BY <2>1, <2>2
<1>8. CASE Py!WakeUp
  <2>1. /\ phase = "sleep" /\ phase' = "answer" /\ pyAttempt' = pyAttempt
        /\ depth' = depth
    BY <1>8 DEF Py!WakeUp, Py!Request
  <2>2. Deeper(depth)' = Deeper(depth)
    BY <2>1 DEF Deeper
  <2>3. QED
    BY <1>0, <2>1, <2>2 DEF PyWork
<1>9. CASE Py!Refused \/ Py!Garbled \/ Py!RepeatedBadly
  BY <1>3, <1>9 DEF Py!Refused, Py!Garbled, Py!RepeatedBadly
<1>10. QED
  BY <1>5, <1>6, <1>7, <1>8, <1>9 DEF Py!Proceed

\* Each answer to the Python client, and the end of each sleep, brings the
\* call nearer to its end, through all the exchanges inside exchanges and their
\* repetitions; a JWT that expires and a key that is revoked take it no further
\* away: no call goes on for ever, however deep the stack.
THEOREM PyCallsGetNearer ==
  ClientsSpec => [][phase # "idle" =>
                      /\ PyWork \in Nat /\ PyWork' <= PyWork
                      /\ Py!Proceed => PyWork' < PyWork]_pyVars
<1>1. PyInv /\ PyInv' /\ [Py!Next]_pyVars =>
        [phase # "idle" =>
           /\ PyWork \in Nat /\ PyWork' <= PyWork
           /\ Py!Proceed => PyWork' < PyWork]_pyVars
  <2> SUFFICES ASSUME PyInv, PyInv', [Py!Next]_pyVars, phase # "idle"
               PROVE  /\ PyWork \in Nat /\ PyWork' <= PyWork
                      /\ Py!Proceed => PyWork' < PyWork
    OBVIOUS
  <2>1. PyWork \in Nat /\ PyWork' \in Nat
    BY PyWorkTyped, PyWorkTypedNext DEF PyInv
  <2>2. CASE Py!Proceed
    <3>1. PyWork' < PyWork
      BY <2>2, PyCallNearer DEF PyInv
    <3>2. QED
      BY <2>1, <3>1
  <2>3. CASE ~Py!Proceed
    <3>1. UNCHANGED <<phase, depth, pyAttempt>>
      BY <2>3 DEF Py!Next, Py!Start, Py!ExpireToken, Py!RevokeKey, pyVars
    <3>2. PyWork' = PyWork
      BY <3>1 DEF PyWork, Deeper
    <3>3. QED
      BY <2>1, <2>3, <3>2
  <2>4. QED
    BY <2>2, <2>3
<1>2. ClientsInit => PyInv
  BY PyInvInit DEF ClientsInit
<1>3. QED
  BY <1>1, <1>2, ClientSteps, PyInvStep, PTL DEF ClientsSpec
=============================================================================
