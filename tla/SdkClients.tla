----------------------------- MODULE SdkClients -----------------------------
(***************************************************************************)
(* The HTTP clients of the two SDKs.  A program uses one of them, and they *)
(* share nothing but the API: a behaviour is one of the TypeScript client  *)
(* (SdkClient) or one of the Python client (PyClient), next to the other   *)
(* as it was created.                                                      *)
(***************************************************************************)
EXTENDS SdkClient

CONSTANTS MaxDepth, PyAnswers

VARIABLES
  sdk,  \* the client that the program uses
  pyJwt, key, pyExpiries, op, phase, depth, pyAttempt, header, pySent,
  exchanged, pyApplied, pyResult

pyVars == <<pyJwt, key, pyExpiries, op, phase, depth, pyAttempt, header,
            pySent, exchanged, pyApplied, pyResult>>
allVars == <<sdk, vars, pyVars>>

Py == INSTANCE PyClient WITH jwt <- pyJwt, expiries <- pyExpiries,
        attempt <- pyAttempt, sent <- pySent, applied <- pyApplied,
        result <- pyResult

ASSUME PyAssumed == Py!PyAssumption

ClientsInit == sdk \in {"typescript", "python"} /\ Init /\ Py!Init

ClientsNext ==
  /\ UNCHANGED sdk
  /\ \/ sdk = "typescript" /\ Next /\ UNCHANGED pyVars
     \/ sdk = "python" /\ Py!Next /\ UNCHANGED vars

ClientsSpec ==
  /\ ClientsInit /\ [][ClientsNext]_allVars
  /\ \A r \in Requests : WF_vars(Proceed(r))
  /\ WF_pyVars(Py!Proceed)

-----------------------------------------------------------------------------
\* The type of every variable of both clients.
ClientsTypeOK == sdk \in {"typescript", "python"} /\ TypeOK /\ Py!PyTypeOK

\* The budgets of a call of the Python client.
PyAttemptsBounded == Py!PyAttemptsBounded

\* The Python client never replaces a JWT that has expired.
PyExpiredForGood == Py!PyExpiredForGood

\* The Python client renews its JWT itself, as its README says.
PyRenewsItself == Py!RenewsItself

\* Every call of either client ends, whatever the answers, however many
\* renewals run beside it and however deep the exchanges go.
CallsEnd ==
  /\ \A r \in Requests : pc[r] # "idle" ~> pc[r] = "idle"
  /\ phase # "idle" ~> phase = "idle"
=============================================================================
