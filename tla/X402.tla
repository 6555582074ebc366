-------------------------------- MODULE X402 --------------------------------
(***************************************************************************)
(* The spending limit of one vault that pays with x402                     *)
(* (api/middleware/x402.ts).  The middleware looks up the month's usage    *)
(* before a handler runs and adds the cost after its answer has gone out;  *)
(* the two columns of agent_vaults it keeps (migrations/019) are shared by *)
(* all requests of the vault.  Each SQL statement is one action.           *)
(***************************************************************************)
EXTENDS Naturals, FiniteSets, SequencesExt

CONSTANTS
  Requests,
  Calls,         \* what is asked for: paths
  Limit,         \* x402_spending_limit_cents; 0 also for NULL
  LastMonth,     \* bound on the clock
  MaxDelivered,  \* bound on the price of what is delivered
  Faulty,        \* TRUE: the UPDATE that adds a cost may fail
  Null

VARIABLES
  usage,      \* agent_vaults.current_month_usage_cents
  month,      \* agent_vaults.current_month_start; 0 is NULL
  now,        \* the month it is
  delivered,  \* history: price of the 2xx answers, by the month of their check
  slips,      \* history: what has gone wrong so far
  pc, call    \* the next step of each request, and what it knows

vars == <<usage, month, now, delivered, slips, pc, call>>

-----------------------------------------------------------------------------
(* Prices.  A path is the method and the segments after /objects.          *)

OneCent == {<<"POST", "store">>, <<"POST", "store", "direct">>,
            <<"GET", "attest">>, <<"POST", "archive">>}
TwoCents == {<<"POST", "share">>}
Free == {<<"POST", "confirm">>, <<"GET", "retrieve">>, <<"GET", "list">>,
         <<"DELETE", "delete">>}

OPERATION_COSTS == [p \in OneCent \cup TwoCents \cup Free |->
                      IF p \in OneCent THEN 1 ELSE IF p \in TwoCents THEN 2
                                                                     ELSE 0]
MaxCost == 2

\* getOperationCost: an exact match, else a pattern the path begins with (of
\* those that one path can begin with, all have one price), else free.
Matching(path) == {p \in DOMAIN OPERATION_COSTS : IsPrefix(p, path)}

Cost(path) ==
  IF Matching(path) = {} THEN 0
  ELSE OPERATION_COSTS[CHOOSE p \in Matching(path) : TRUE]

-----------------------------------------------------------------------------
Months == 0 .. LastMonth
Local == [cost: 0 .. MaxCost, month: Months]
\* A cost that could not be added, a cost added to another month than that of
\* its check, a reset of a month that had been reset already.
Slips == {"unpaid", "lateCharge", "lateReset"}
Labels == {"idle", "readUsage", "reset", "handler", "charge"}

ASSUME X402Assumption ==
  /\ Calls \subseteq Seq(STRING) /\ Limit \in Nat /\ LastMonth \in Nat \ {0}
  /\ MaxDelivered \in Nat /\ Faulty \in BOOLEAN /\ Null \notin Local
  /\ IsFiniteSet(Requests) /\ Requests # {}

Init ==
  /\ usage = 0 /\ month \in {0, 1} /\ now = 1 /\ slips = {}
  /\ delivered = [m \in Months |-> 0]
  /\ pc = [r \in Requests |-> "idle"] /\ call = [r \in Requests |-> Null]

Goto(r, from, to) == pc[r] = from /\ pc' = [pc EXCEPT ![r] = to]
Reply(r, from) == Goto(r, from, "idle") /\ call' = [call EXCEPT ![r] = Null]

\* The SELECT of the payment columns; a vault without a limit is not tracked.
\* In src/ the share, attest and archive routes have the middleware in front of
\* them; a store or a list, which OPERATION_COSTS prices, is not charged there.
\* Calls may hold any path, those that no such route serves as well.
StartRequest(r, c) ==
  /\ SumFunction(delivered) < MaxDelivered
  /\ Limit > 0 /\ Goto(r, "idle", "readUsage")
  /\ call' = [call EXCEPT ![r] =
                [cost |-> Cost(c), month |-> now]]
  /\ UNCHANGED <<usage, month, now, delivered, slips>>

\* Mutant of Exceeds: the cost of the call is left out.
ExceedsBefore(used, cost) == used > Limit

\* usageCents + costCents > spendingLimit
Exceeds(used, cost) == used + cost > Limit

Decide(r, from, used, m) ==
  IF Exceeds(used, call[r].cost)
  THEN Reply(r, from)
  ELSE Goto(r, from, "handler") /\ call' = [call EXCEPT ![r].month = m]

\* getCurrentMonthUsage: the SELECT, and the UPDATE when the month is over.
Stale(m) == m < now

ReadUsage(r) ==
  /\ IF Stale(month)
     THEN /\ Goto(r, "readUsage", "reset")
          /\ call' = [call EXCEPT ![r].month = now]
     ELSE Decide(r, "readUsage", usage, month)
  /\ UNCHANGED <<usage, month, now, delivered, slips>>

\* Mutant of AfterReset: the month moves on, the counter stays.
AfterResetKept == usage

AfterReset == 0

ResetMonth(r) ==
  /\ usage' = AfterReset /\ month' = call[r].month
  /\ Decide(r, "reset", 0, call[r].month)
  /\ slips' = IF month < call[r].month THEN slips ELSE slips \cup {"lateReset"}
  /\ UNCHANGED <<now, delivered>>

\* The handler answers; a 2xx answer of a price above 0 is charged once it
\* has gone out.
Respond(r) ==
  LET c == call[r] IN
  /\ \/ /\ delivered' = [delivered EXCEPT ![c.month] = @ + c.cost]
        /\ IF c.cost > 0
           THEN Goto(r, "handler", "charge") /\ UNCHANGED call
           ELSE Reply(r, "handler")
     \/ Reply(r, "handler") /\ UNCHANGED delivered
  /\ UNCHANGED <<usage, month, now, slips>>

\* Mutant of incrementSpending: the wrong sign.
incrementSpendingMinus(used, cost) == used - cost

\* incrementSpending; its failure is logged only.
incrementSpending(used, cost) == used + cost

Charge(r) ==
  /\ Reply(r, "charge")
  /\ \/ /\ usage' = incrementSpending(usage, call[r].cost)
        /\ slips' = IF month = call[r].month THEN slips
                                             ELSE slips \cup {"lateCharge"}
     \/ Faulty /\ UNCHANGED usage /\ slips' = slips \cup {"unpaid"}
  /\ UNCHANGED <<month, now, delivered>>

NextMonth ==
  /\ now < LastMonth /\ now' = now + 1
  /\ UNCHANGED <<usage, month, delivered, slips, pc, call>>

Next ==
  \/ \E r \in Requests :
       \/ \E c \in Calls : StartRequest(r, c)
       \/ pc[r] = "readUsage" /\ ReadUsage(r)
       \/ pc[r] = "reset" /\ ResetMonth(r)
       \/ pc[r] = "handler" /\ Respond(r)
       \/ pc[r] = "charge" /\ Charge(r)
  \/ NextMonth

Spec == Init /\ [][Next]_vars

-----------------------------------------------------------------------------
(* Properties. *)

\* The type of every variable.
TypeOK ==
  /\ usage \in Nat /\ month \in Months /\ now \in Months
  /\ delivered \in [Months -> Nat] /\ slips \subseteq Slips
  /\ pc \in [Requests -> Labels] /\ call \in [Requests -> Local \cup {Null}]

\* The limit is checked before a handler runs and used up after it: what is
\* charged passes it by at most the price of the other requests under way.
OvershootBounded ==
  usage <= Limit + (Cardinality(Requests) - 1) * MaxCost

\* "After successful request, increments spending counter": when no request is
\* under way, the counter holds what was delivered in its month, however the
\* requests overlapped, unless one of the three slips has happened: nothing
\* sets the counter right afterwards.
ChargesExact ==
  (\A r \in Requests : pc[r] = "idle") /\ slips = {} =>
    usage = delivered[month]
=============================================================================
