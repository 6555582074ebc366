----------------------------- MODULE X402Proofs -----------------------------
(***************************************************************************)
(* Proofs about X402, for any number of requests and of months, any limit  *)
(* and any calls.                                                          *)
(***************************************************************************)
EXTENDS X402, FiniteSetTheorems, TLAPS

\* A request that is under way knows the price and the month of its call.
TypeInv ==
  TypeOK /\ \A r \in Requests : pc[r] # "idle" => call[r] \in Local

\* The table holds no price above MaxCost.
LEMMA CostTyped == \A path : Cost(path) \in 0 .. MaxCost
<1> SUFFICES ASSUME NEW path PROVE Cost(path) \in 0 .. MaxCost
  OBVIOUS
<1>1. \A p \in DOMAIN OPERATION_COSTS : OPERATION_COSTS[p] \in 0 .. MaxCost
  BY DEF OPERATION_COSTS, MaxCost
<1>2. Matching(path) \subseteq DOMAIN OPERATION_COSTS
  BY DEF Matching
<1>3. CASE Matching(path) = {}
  BY <1>3 DEF Cost, MaxCost
<1>4. CASE Matching(path) # {}
  <2>1. (CHOOSE p \in Matching(path) : TRUE) \in Matching(path)
    BY <1>4
  <2>2. QED
    BY <1>1, <1>2, <1>4, <2>1 DEF Cost
<1>5. QED
  BY <1>3, <1>4

LEMMA TypeInit == Init => TypeInv
  BY X402Assumption
  DEF Init, TypeInv, TypeOK, Months, Labels, Slips

\* What Decide does with the price and the month of a request.
LEMMA DecideStep ==
  ASSUME TypeInv, NEW r \in Requests, NEW from, NEW used, NEW m \in Months,
         from # "idle", Decide(r, from, used, m)
  PROVE  /\ pc[r] = from /\ pc' = [pc EXCEPT ![r] = pc'[r]]
         /\ call' = [call EXCEPT ![r] = call'[r]]
         /\ \/ pc'[r] = "idle" /\ call'[r] = Null
            \/ /\ pc'[r] = "handler" /\ ~Exceeds(used, call[r].cost)
               /\ call'[r] \in Local
               /\ call'[r].cost = call[r].cost /\ call'[r].month = m
<1>0. pc[r] = from /\ call[r] \in Local
  BY DEF Decide, Reply, Goto, TypeInv
<1>1. CASE Exceeds(used, call[r].cost)
  BY <1>0, <1>1 DEF Decide, Reply, Goto, TypeInv, TypeOK
<1>2. CASE ~Exceeds(used, call[r].cost)
  <2>1. /\ pc'[r] = "handler" /\ pc' = [pc EXCEPT ![r] = "handler"]
        /\ call' = [call EXCEPT ![r].month = m]
    BY <1>2 DEF Decide, Goto, TypeInv, TypeOK
  <2>2. call'[r] = [call[r] EXCEPT !.month = m]
    BY <2>1 DEF TypeInv, TypeOK
  <2>3. call' = [call EXCEPT ![r] = call'[r]]
    BY <2>1, <2>2 DEF TypeInv, TypeOK
  <2>4. call'[r] \in Local /\ call'[r].cost = call[r].cost /\ call'[r].month = m
    BY <1>0, <2>2 DEF Local
  <2>5. QED
    BY <1>0, <1>2, <2>1, <2>2, <2>3, <2>4
<1>3. QED
  BY <1>1, <1>2

LEMMA TypeStep == TypeInv /\ [Next]_vars => TypeInv'
<1> SUFFICES ASSUME TypeInv, [Next]_vars PROVE TypeInv'
  OBVIOUS
<1> USE X402Assumption
<1>1. ASSUME NEW r \in Requests, NEW c \in Calls, StartRequest(r, c)
      PROVE  TypeInv'
  <2>1. Cost(c) \in 0 .. MaxCost
    BY CostTyped
  <2>2. [cost |-> Cost(c), month |-> now] \in Local
    BY <2>1 DEF Local, TypeInv, TypeOK
  <2>3. QED
    BY <1>1, <2>2 DEF StartRequest, Goto, TypeInv, TypeOK, Labels
<1>2. ASSUME NEW r \in Requests, pc[r] = "readUsage", ReadUsage(r)
      PROVE  TypeInv'
  <2>1. CASE Stale(month)
    <3>1. /\ pc' = [pc EXCEPT ![r] = "reset"]
          /\ call' = [call EXCEPT ![r].month = now]
          /\ UNCHANGED <<usage, month, now, delivered, slips>>
      BY <1>2, <2>1 DEF ReadUsage, Goto
    <3>2. call[r] \in Local
      BY <1>2 DEF TypeInv
    <3>3. call'[r] \in Local
      BY <3>1, <3>2 DEF Local, TypeInv, TypeOK
    <3>4. QED
      BY <3>1, <3>3 DEF TypeInv, TypeOK, Labels
  <2>2. CASE ~Stale(month)
    <3>1. /\ Decide(r, "readUsage", usage, month)
          /\ UNCHANGED <<usage, month, now, delivered, slips>>
      BY <1>2, <2>2 DEF ReadUsage
    <3>2. /\ pc' = [pc EXCEPT ![r] = pc'[r]]
          /\ call' = [call EXCEPT ![r] = call'[r]]
          /\ \/ pc'[r] = "idle" /\ call'[r] = Null
             \/ pc'[r] = "handler" /\ call'[r] \in Local
      BY <3>1, DecideStep DEF TypeInv, TypeOK
    <3>3. QED
      BY <3>1, <3>2 DEF TypeInv, TypeOK, Labels
  <2>3. QED
    BY <2>1, <2>2
<1>3. ASSUME NEW r \in Requests, pc[r] = "reset", ResetMonth(r)
      PROVE  TypeInv'
  <2>1. call[r] \in Local /\ call[r].month \in Months
    BY <1>3 DEF TypeInv, Local
  <2>2. /\ pc' = [pc EXCEPT ![r] = pc'[r]]
        /\ call' = [call EXCEPT ![r] = call'[r]]
        /\ \/ pc'[r] = "idle" /\ call'[r] = Null
           \/ pc'[r] = "handler" /\ call'[r] \in Local
    BY <1>3, <2>1, DecideStep DEF ResetMonth
  <2>3. QED
    BY <1>3, <2>1, <2>2
    DEF ResetMonth, AfterReset, TypeInv, TypeOK, Labels, Slips
<1>4. ASSUME NEW r \in Requests, pc[r] = "handler", Respond(r)
      PROVE  TypeInv'
  <2>1. /\ call[r] \in Local /\ call[r].month \in Months
        /\ call[r].cost \in Nat
    BY <1>4 DEF TypeInv, Local, MaxCost
  <2>2. delivered' \in [Months -> Nat]
    BY <1>4, <2>1 DEF Respond, TypeInv, TypeOK
  <2>3. QED
    BY <1>4, <2>1, <2>2
    DEF Respond, Reply, Goto, TypeInv, TypeOK, Labels
<1>5. ASSUME NEW r \in Requests, pc[r] = "charge", Charge(r)
      PROVE  TypeInv'
  <2>1. call[r].cost \in Nat
    BY <1>5 DEF TypeInv, Local, MaxCost
  <2>2. usage' \in Nat
    BY <1>5, <2>1 DEF Charge, incrementSpending, TypeInv, TypeOK
  <2>3. slips' \in {slips, slips \cup {"lateCharge"}, slips \cup {"unpaid"}}
    BY <1>5, Zenon DEF Charge
  <2>4. slips' \subseteq Slips
    BY <2>3 DEF TypeInv, TypeOK, Slips
  <2>5. QED
    BY <1>5, <2>2, <2>4 DEF Charge, Reply, Goto, TypeInv, TypeOK, Labels
<1>6. CASE NextMonth
  BY <1>6 DEF NextMonth, TypeInv, TypeOK, Months
<1>7. CASE UNCHANGED vars
  BY <1>7 DEF vars, TypeInv, TypeOK
<1>8. QED
  BY <1>1, <1>2, <1>3, <1>4, <1>5, <1>6, <1>7 DEF Next

\* Every variable keeps its type; a request that is under way knows its price.
THEOREM TypeSafe == Spec => []TypeOK
<1>1. TypeInv => TypeOK
  BY DEF TypeInv
<1>2. QED
  BY TypeInit, TypeStep, <1>1, PTL DEF Spec

-----------------------------------------------------------------------------
(* The limit and what is still to be charged. *)

\* The requests that may still be charged at least k cents: counted for k = 1
\* and for k = 2, they add up to what the counter may yet grow by.
Owing(k) ==
  {r \in Requests : pc[r] \in {"handler", "charge"} /\ call[r].cost >= k}

Others == (Cardinality(Requests) - 1) * MaxCost

\* What is charged and what is owed pass the limit by the others' prices only.
OwedInv ==
  usage + Cardinality(Owing(1)) + Cardinality(Owing(2)) <= Limit + Others

LEMMA Sizes ==
  /\ Cardinality(Requests) \in Nat \ {0} /\ Others \in Nat
  /\ \A S : S \subseteq Requests =>
       IsFiniteSet(S) /\ Cardinality(S) \in 0 .. Cardinality(Requests)
<1>1. Cardinality(Requests) \in Nat /\ Cardinality(Requests) # 0
  BY X402Assumption, FS_CardinalityType, FS_EmptySet
<1>2. Others \in Nat
  BY <1>1 DEF Others, MaxCost
<1>3. \A S : S \subseteq Requests =>
        IsFiniteSet(S) /\ Cardinality(S) \in 0 .. Cardinality(Requests)
  BY <1>1, X402Assumption, FS_Subset, FS_CardinalityType
<1>4. QED
  BY <1>1, <1>2, <1>3

\* A smaller set has no more members; without r, one less than all at most.
LEMMA Fewer ==
  ASSUME NEW S, NEW T, T \subseteq Requests, S \subseteq T
  PROVE  Cardinality(S) <= Cardinality(T)
BY Sizes, FS_Subset

LEMMA WithoutOne ==
  ASSUME NEW r \in Requests, NEW S, NEW T, T \subseteq Requests, r \in T,
         S \subseteq T \ {r}
  PROVE  Cardinality(S) <= Cardinality(T) - 1
<1>1. Cardinality(T \ {r}) = Cardinality(T) - 1
  BY Sizes, FS_RemoveElement
<1>2. Cardinality(S) <= Cardinality(T \ {r})
  BY Fewer
<1>3. QED
  BY <1>1, <1>2

\* As long as nothing more is owed or charged, the bound holds on.
LEMMA OwedShrinks ==
  ASSUME TypeInv, TypeInv', OwedInv, usage' <= usage,
         Owing(1)' \subseteq Owing(1), Owing(2)' \subseteq Owing(2)
  PROVE  OwedInv'
<1>1. Owing(1) \subseteq Requests /\ Owing(2) \subseteq Requests
  BY DEF Owing
<1>2. /\ Cardinality(Owing(1)') <= Cardinality(Owing(1))
      /\ Cardinality(Owing(2)') <= Cardinality(Owing(2))
  BY <1>1, Fewer
<1>3. /\ Cardinality(Owing(1)) \in Nat /\ Cardinality(Owing(2)) \in Nat
      /\ Cardinality(Owing(1)') \in Nat /\ Cardinality(Owing(2)') \in Nat
  <2>1. Owing(1)' \subseteq Requests /\ Owing(2)' \subseteq Requests
    BY DEF Owing
  <2>2. QED
    BY <1>1, <2>1, Sizes
<1>4. Limit + Others \in Nat /\ (Limit + Others)' = Limit + Others
  BY Sizes, X402Assumption DEF Others
<1>5. usage \in Nat /\ usage' \in Nat
  BY DEF TypeInv, TypeOK
<1>6. QED
  BY <1>2, <1>3, <1>4, <1>5 DEF OwedInv

\* A request that is let through finds room for its price below the limit, and
\* all it cannot see are the prices of the others.
LEMMA DecideOwed ==
  ASSUME TypeInv, TypeInv', OwedInv, NEW r \in Requests, NEW from \in Labels,
         NEW m \in Months, from \notin {"idle", "handler", "charge"},
         Decide(r, from, usage', m), usage' <= usage
  PROVE  OwedInv'
<1>0. /\ usage \in Nat /\ usage' \in Nat /\ call[r] \in Local
      /\ pc[r] = from
  BY DecideStep DEF TypeInv, TypeOK
<1>1. /\ pc[r] = from /\ pc' = [pc EXCEPT ![r] = pc'[r]]
      /\ call' = [call EXCEPT ![r] = call'[r]]
      /\ \/ pc'[r] = "idle"
         \/ /\ pc'[r] = "handler" /\ ~Exceeds(usage', call[r].cost)
            /\ call'[r].cost = call[r].cost
  BY DecideStep
<1>2. CASE pc'[r] = "idle"
  <2>1. Owing(1)' \subseteq Owing(1) /\ Owing(2)' \subseteq Owing(2)
    BY <1>1, <1>2 DEF Owing, TypeInv, TypeOK
  <2>2. QED
    BY <2>1, OwedShrinks
<1>3. CASE /\ pc'[r] = "handler" /\ ~Exceeds(usage', call[r].cost)
           /\ call'[r].cost = call[r].cost
  <2>1. call[r].cost \in 0 .. MaxCost /\ usage' + call[r].cost <= Limit
    BY <1>0, <1>3, X402Assumption DEF Exceeds, Local, MaxCost
  <2>2. /\ Owing(1)' \subseteq Requests /\ Owing(2)' \subseteq Requests
        /\ call[r].cost < 1 => Owing(1)' \subseteq Requests \ {r}
        /\ call[r].cost < 2 => Owing(2)' \subseteq Requests \ {r}
    BY <1>3, <2>1 DEF Owing, MaxCost
  <2>3. /\ Cardinality(Owing(1)') \in Nat /\ Cardinality(Owing(2)') \in Nat
        /\ Cardinality(Owing(1)') <= Cardinality(Requests)
        /\ Cardinality(Owing(2)') <= Cardinality(Requests)
    BY <2>2, Sizes
  <2>4. /\ call[r].cost < 1 => Cardinality(Owing(1)') <= Cardinality(Requests) - 1
        /\ call[r].cost < 2 => Cardinality(Owing(2)') <= Cardinality(Requests) - 1
    BY <2>2, WithoutOne
  <2>5. Others' = Others
    BY DEF Others
  <2>6. /\ Cardinality(Requests) \in Nat /\ Cardinality(Requests) >= 1
        /\ Others = Cardinality(Requests) + Cardinality(Requests) - 2
    BY Sizes DEF Others, MaxCost
  <2>7. call[r].cost \in {0, 1, 2} /\ Limit \in Nat
    BY <2>1, X402Assumption DEF MaxCost
  <2>8. Cardinality(Owing(1)') + Cardinality(Owing(2)') <=
          Others + call[r].cost
    <3>1. CASE call[r].cost = 0
      BY <2>3, <2>4, <2>6, <3>1
    <3>2. CASE call[r].cost = 1
      BY <2>3, <2>4, <2>6, <3>2
    <3>3. CASE call[r].cost = 2
      BY <2>3, <2>6, <3>3
    <3>4. QED
      BY <2>7, <3>1, <3>2, <3>3
  <2>9. QED
    BY <1>0, <2>1, <2>3, <2>5, <2>6, <2>7, <2>8 DEF OwedInv
<1>4. QED
  BY <1>1, <1>2, <1>3

LEMMA OwedInit == Init => OwedInv
<1> SUFFICES ASSUME Init PROVE OwedInv
  OBVIOUS
<1>1. Owing(1) = {} /\ Owing(2) = {}
  BY DEF Init, Owing
<1>2. QED
  BY <1>1, Sizes, FS_EmptySet, X402Assumption DEF Init, OwedInv

LEMMA OwedStep == TypeInv /\ OwedInv /\ [Next]_vars => OwedInv'
<1> SUFFICES ASSUME TypeInv, OwedInv, [Next]_vars PROVE OwedInv'
  OBVIOUS
<1>0. TypeInv' /\ usage \in Nat
  BY TypeStep DEF TypeInv, TypeOK
<1>1. ASSUME NEW r \in Requests, NEW c \in Calls, StartRequest(r, c)
      PROVE  OwedInv'
  <2>1. Owing(1)' \subseteq Owing(1) /\ Owing(2)' \subseteq Owing(2)
    BY <1>1 DEF StartRequest, Goto, Owing, TypeInv, TypeOK
  <2>2. QED
    BY <1>0, <1>1, <2>1, OwedShrinks DEF StartRequest
<1>2. ASSUME NEW r \in Requests, pc[r] = "readUsage", ReadUsage(r)
      PROVE  OwedInv'
  <2>1. CASE Stale(month)
    <3>1. Owing(1)' \subseteq Owing(1) /\ Owing(2)' \subseteq Owing(2)
      BY <1>2, <2>1 DEF ReadUsage, Goto, Owing, TypeInv, TypeOK
    <3>2. QED
      BY <1>0, <1>2, <3>1, OwedShrinks DEF ReadUsage
  <2>2. CASE ~Stale(month)
    <3>1. Decide(r, "readUsage", usage', month) /\ usage' = usage
      BY <1>2, <2>2 DEF ReadUsage
    <3>2. month \in Months /\ "readUsage" \in Labels
      BY DEF TypeInv, TypeOK, Labels
    <3>3. QED
      BY <1>0, <3>1, <3>2, DecideOwed
  <2>3. QED
    BY <2>1, <2>2
<1>3. ASSUME NEW r \in Requests, pc[r] = "reset", ResetMonth(r)
      PROVE  OwedInv'
  <2>1. Decide(r, "reset", usage', call[r].month) /\ usage' = 0
    BY <1>3 DEF ResetMonth, AfterReset
  <2>2. call[r].month \in Months /\ "reset" \in Labels
    BY <1>3 DEF TypeInv, Local, Labels
  <2>3. QED
    BY <1>0, <2>1, <2>2, DecideOwed
<1>4. ASSUME NEW r \in Requests, pc[r] = "handler", Respond(r)
      PROVE  OwedInv'
  <2>1. Owing(1)' \subseteq Owing(1) /\ Owing(2)' \subseteq Owing(2)
    BY <1>4 DEF Respond, Reply, Goto, Owing, TypeInv, TypeOK
  <2>2. QED
    BY <1>0, <1>4, <2>1, OwedShrinks DEF Respond
<1>5. ASSUME NEW r \in Requests, pc[r] = "charge", Charge(r)
      PROVE  OwedInv'
  <2>0. call[r].cost \in 0 .. MaxCost
    BY <1>5 DEF TypeInv, Local
  <2>1. \A k \in {1, 2} : Owing(k)' \subseteq Owing(k) \ {r}
    BY <1>5 DEF Charge, Reply, Goto, Owing, TypeInv, TypeOK
  <2>2. CASE usage' = usage
    BY <1>0, <2>1, <2>2, OwedShrinks
  <2>3. CASE usage' = usage + call[r].cost
    <3>1. /\ call[r].cost >= 1 => r \in Owing(1)
          /\ call[r].cost >= 2 => r \in Owing(2)
      BY <1>5 DEF Owing
    <3>2. \A k \in {1, 2} : Owing(k) \subseteq Requests
                            /\ Owing(k)' \subseteq Requests
      BY DEF Owing
    <3>3. \A k \in {1, 2} : /\ Cardinality(Owing(k)) \in Nat
                            /\ Cardinality(Owing(k)') \in Nat
                            /\ Cardinality(Owing(k)') <= Cardinality(Owing(k))
      BY <2>1, <3>2, Sizes, Fewer
    <3>4. /\ call[r].cost >= 1 => Cardinality(Owing(1)') <= Cardinality(Owing(1)) - 1
          /\ call[r].cost >= 2 => Cardinality(Owing(2)') <= Cardinality(Owing(2)) - 1
      BY <2>1, <3>1, <3>2, WithoutOne
    <3>5. Others' = Others
      BY DEF Others
    <3>6. /\ Cardinality(Owing(1)) \in Nat /\ Cardinality(Owing(2)) \in Nat
          /\ Cardinality(Owing(1)') \in Nat /\ Cardinality(Owing(2)') \in Nat
          /\ Cardinality(Owing(1)') <= Cardinality(Owing(1))
          /\ Cardinality(Owing(2)') <= Cardinality(Owing(2))
      BY <3>3
    <3>7. call[r].cost \in {0, 1, 2} /\ Others \in Nat /\ Limit \in Nat
      BY <2>0, Sizes, X402Assumption DEF MaxCost
    <3>8. QED
      BY <1>0, <2>3, <3>4, <3>5, <3>6, <3>7 DEF OwedInv
  <2>4. QED
    BY <1>5, <2>2, <2>3 DEF Charge, incrementSpending
<1>6. CASE NextMonth \/ UNCHANGED vars
  <2>1. usage' = usage /\ Owing(1)' = Owing(1) /\ Owing(2)' = Owing(2)
    BY <1>6 DEF NextMonth, vars, Owing
  <2>2. QED
    BY <1>0, <2>1, OwedShrinks
<1>7. QED
  BY <1>1, <1>2, <1>3, <1>4, <1>5, <1>6 DEF Next

\* However requests overlap, whatever month they reset or are charged to, what
\* is charged passes the limit by the price of the other requests at most.
THEOREM OvershootBoundedSafe == Spec => []OvershootBounded
<1>1. TypeInv /\ OwedInv => OvershootBounded
  <2> SUFFICES ASSUME TypeInv, OwedInv PROVE OvershootBounded
    OBVIOUS
  <2>1. Owing(1) \subseteq Requests /\ Owing(2) \subseteq Requests
    BY DEF Owing
  <2>2. Cardinality(Owing(1)) \in Nat /\ Cardinality(Owing(2)) \in Nat
    BY <2>1, Sizes
  <2>3. QED
    BY <2>2, Sizes, X402Assumption
    DEF TypeInv, TypeOK, OwedInv, OvershootBounded, Others, MaxCost
<1>2. QED
  BY TypeInit, TypeStep, OwedInit, OwedStep, <1>1, PTL DEF Spec

-----------------------------------------------------------------------------
(* What the counter holds. *)

\* The requests that are about to charge at least k cents to the month of the
\* counter.
Billing(k) ==
  {r \in Requests :
     pc[r] = "charge" /\ call[r].month = month /\ call[r].cost >= k}

\* The counter and what is being added to it are what was delivered in its
\* month; nothing was delivered, and no request is let through, in a later one.
Books ==
  /\ usage + Cardinality(Billing(1)) + Cardinality(Billing(2)) =
       delivered[month]
  /\ \A m \in Months : m > month => delivered[m] = 0
  /\ \A r \in Requests :
       pc[r] \in {"handler", "charge"} => call[r].month <= month

BooksInv == slips = {} => Books

LEMMA BilledSizes ==
  ASSUME TypeInv
  PROVE  /\ IsFiniteSet(Billing(1)) /\ IsFiniteSet(Billing(2))
         /\ Cardinality(Billing(1)) \in Nat /\ Cardinality(Billing(2)) \in Nat
<1>1. Billing(1) \subseteq Requests /\ Billing(2) \subseteq Requests
  BY DEF Billing
<1>2. QED
  BY <1>1, Sizes

LEMMA BooksInit == Init => BooksInv
<1> SUFFICES ASSUME Init PROVE Books
  BY DEF BooksInv
<1>1. Billing(1) = {} /\ Billing(2) = {}
  BY DEF Init, Billing
<1>2. month \in Months /\ delivered[month] = 0
  BY X402Assumption DEF Init, Months
<1>3. QED
  BY <1>1, <1>2, FS_EmptySet DEF Init, Books

\* A step that leaves the counter, its month and who is about to charge it.
LEMMA BooksKept ==
  ASSUME TypeInv, Books, UNCHANGED <<usage, month, delivered>>,
         Billing(1)' = Billing(1), Billing(2)' = Billing(2),
         \A q \in Requests : pc'[q] \in {"handler", "charge"} =>
           call'[q].month <= month
  PROVE  Books'
BY DEF Books, TypeInv, TypeOK, Months

\* Whom Decide lets through is checked against the month it is given.
LEMMA DecideMonth ==
  ASSUME TypeInv, NEW r \in Requests, NEW from \in {"readUsage", "reset"},
         NEW used, NEW m \in Months, Decide(r, from, used, m)
  PROVE  /\ pc' = [pc EXCEPT ![r] = pc'[r]]
         /\ call' = [call EXCEPT ![r] = call'[r]]
         /\ pc'[r] # "charge"
         /\ pc'[r] = "handler" => call'[r].month = m
BY DecideStep

LEMMA BooksStep == TypeInv /\ BooksInv /\ [Next]_vars => BooksInv'
<1> SUFFICES ASSUME TypeInv, BooksInv, [Next]_vars, slips' = {} PROVE Books'
  BY DEF BooksInv
<1> USE DEF TypeInv
<1>0. /\ usage \in Nat /\ month \in Nat /\ month \in Months
      /\ delivered[month] \in Nat
  BY DEF TypeOK, Months
<1>1. ASSUME NEW r \in Requests, NEW c \in Calls, StartRequest(r, c)
      PROVE  Books'
  <2>1. Books /\ UNCHANGED <<usage, month, delivered>>
    BY <1>1 DEF StartRequest, BooksInv
  <2>2. Billing(1)' = Billing(1) /\ Billing(2)' = Billing(2)
    BY <1>1 DEF StartRequest, Goto, Billing, TypeOK
  <2>3. \A q \in Requests : pc'[q] \in {"handler", "charge"} =>
          call'[q].month <= month
    BY <1>1, <2>1 DEF StartRequest, Goto, Books, TypeOK
  <2>4. QED
    BY <2>1, <2>2, <2>3, BooksKept
<1>2. ASSUME NEW r \in Requests, pc[r] = "readUsage", ReadUsage(r)
      PROVE  Books'
  <2>1. Books /\ UNCHANGED <<usage, month, delivered>>
    BY <1>2 DEF ReadUsage, BooksInv
  <2>2. /\ pc' = [pc EXCEPT ![r] = pc'[r]]
        /\ call' = [call EXCEPT ![r] = call'[r]]
        /\ pc'[r] # "charge"
        /\ pc'[r] = "handler" => call'[r].month = month
    <3>1. CASE Stale(month)
      BY <1>2, <3>1 DEF ReadUsage, Goto, TypeOK
    <3>2. CASE ~Stale(month)
      <4>1. Decide(r, "readUsage", usage, month)
        BY <1>2, <3>2 DEF ReadUsage
      <4>2. QED
        BY <1>0, <4>1, DecideMonth
    <3>3. QED
      BY <3>1, <3>2
  <2>3. Billing(1)' = Billing(1) /\ Billing(2)' = Billing(2)
    BY <1>2, <2>1, <2>2 DEF Billing, TypeOK
  <2>4. \A q \in Requests : pc'[q] \in {"handler", "charge"} =>
          call'[q].month <= month
    BY <1>0, <2>1, <2>2 DEF Books, TypeOK
  <2>5. QED
    BY <2>1, <2>3, <2>4, BooksKept
<1>3. ASSUME NEW r \in Requests, pc[r] = "reset", ResetMonth(r)
      PROVE  Books'
  <2>1. /\ usage' = 0 /\ month' = call[r].month /\ delivered' = delivered
        /\ Decide(r, "reset", 0, call[r].month)
    BY <1>3 DEF ResetMonth, AfterReset
  <2>2. month < month' /\ Books
    BY <1>3, <2>1 DEF ResetMonth, BooksInv
  <2>3. month' \in Months /\ month' \in Nat
    BY <1>3, <2>1 DEF Local, Months
  <2>4. /\ pc' = [pc EXCEPT ![r] = pc'[r]]
        /\ call' = [call EXCEPT ![r] = call'[r]]
        /\ pc'[r] # "charge"
        /\ pc'[r] = "handler" => call'[r].month = month'
    BY <2>1, <2>3, DecideMonth
  <2>5. \A q \in Requests \ {r} :
          /\ pc'[q] = pc[q] /\ call'[q] = call[q]
          /\ pc[q] \in {"handler", "charge"} =>
               call[q] \in Local /\ call[q].month <= month
    BY <2>2, <2>4 DEF Books, TypeOK
  <2>6. Billing(1)' = {} /\ Billing(2)' = {}
    BY <1>0, <2>2, <2>3, <2>4, <2>5 DEF Billing, Local, Months
  <2>7. \A m \in Months : m >= month' => delivered'[m] = 0
    BY <1>0, <2>1, <2>2, <2>3 DEF Books, Months
  <2>8. \A q \in Requests :
          pc'[q] \in {"handler", "charge"} => call'[q].month <= month'
    BY <1>0, <2>2, <2>3, <2>4, <2>5 DEF Local, Months
  <2>9. Cardinality({}) = 0
    BY FS_EmptySet
  <2>10. QED
    BY <2>1, <2>3, <2>6, <2>7, <2>8, <2>9 DEF Books, Months
<1>4. ASSUME NEW r \in Requests, pc[r] = "handler", Respond(r)
      PROVE  Books'
  <2>1. /\ Books /\ UNCHANGED <<usage, month>>
        /\ call[r] \in Local /\ call[r].month <= month
    BY <1>4 DEF Respond, BooksInv, Books
  <2>2. call[r].month \in Months /\ call[r].cost \in {0, 1, 2}
    BY <2>1 DEF Local, MaxCost
  <2>3. \A q \in Requests : pc'[q] \in {"handler", "charge"} =>
          call'[q].month <= month
    BY <1>4, <2>1 DEF Respond, Reply, Goto, Books, TypeOK
  <2>4. CASE Reply(r, "handler") /\ UNCHANGED delivered
    <3>1. Billing(1)' = Billing(1) /\ Billing(2)' = Billing(2)
      BY <2>1, <2>4 DEF Reply, Goto, Billing, TypeOK
    <3>2. QED
      BY <2>1, <2>3, <2>4, <3>1, BooksKept
  <2>5. CASE /\ delivered' = [delivered EXCEPT ![call[r].month] =
                                @ + call[r].cost]
             /\ IF call[r].cost > 0
                THEN Goto(r, "handler", "charge") /\ UNCHANGED call
                ELSE Reply(r, "handler")
    <3>1. \A m \in Months : m > month => delivered'[m] = 0
      BY <1>0, <2>1, <2>2, <2>5 DEF Books, TypeOK, Months
    <3>2. /\ delivered'[month] = IF call[r].month = month
                                 THEN delivered[month] + call[r].cost
                                 ELSE delivered[month]
      BY <1>0, <2>2, <2>5 DEF TypeOK
    <3>3. r \notin Billing(1) /\ r \notin Billing(2)
      BY <1>4 DEF Billing
    <3>4. CASE call[r].month # month \/ call[r].cost = 0
      <4>1. Billing(1)' = Billing(1) /\ Billing(2)' = Billing(2)
        BY <1>4, <2>1, <2>2, <2>5, <3>4 DEF Reply, Goto, Billing, TypeOK
      <4>2. delivered'[month] = delivered[month]
        BY <1>0, <2>2, <3>2, <3>4
      <4>3. QED
        BY <2>1, <2>3, <3>1, <4>1, <4>2 DEF Books
    <3>5. CASE call[r].month = month /\ call[r].cost > 0
      <4>1. /\ pc' = [pc EXCEPT ![r] = "charge"] /\ call' = call
        BY <2>5, <3>5 DEF Goto
      <4>2. Billing(1)' = Billing(1) \cup {r}
        BY <2>1, <2>2, <3>5, <4>1 DEF Billing, TypeOK
      <4>3. Billing(2)' = IF call[r].cost = 2 THEN Billing(2) \cup {r}
                                              ELSE Billing(2)
        BY <2>1, <2>2, <3>5, <4>1 DEF Billing, TypeOK
      <4>4. /\ Cardinality(Billing(1)') = Cardinality(Billing(1)) + 1
            /\ Cardinality(Billing(2)') = IF call[r].cost = 2
                                          THEN Cardinality(Billing(2)) + 1
                                          ELSE Cardinality(Billing(2))
        BY <3>3, <4>2, <4>3, BilledSizes, FS_AddElement
      <4>5. usage' + Cardinality(Billing(1)') + Cardinality(Billing(2)') =
              delivered'[month]
        BY <1>0, <2>1, <2>2, <3>2, <3>5, <4>4, BilledSizes DEF Books
      <4>6. QED
        BY <2>1, <2>3, <3>1, <4>5 DEF Books
    <3>6. QED
      BY <2>2, <3>4, <3>5
  <2>6. QED
    BY <1>4, <2>4, <2>5 DEF Respond
<1>5. ASSUME NEW r \in Requests, pc[r] = "charge", Charge(r)
      PROVE  Books'
  <2>1. /\ Books /\ call[r].month = month /\ UNCHANGED <<month, delivered>>
        /\ usage' = usage + call[r].cost
    BY <1>5 DEF Charge, incrementSpending, BooksInv
  <2>2. call[r].cost \in {0, 1, 2}
    BY <1>5 DEF Local, MaxCost
  <2>3. /\ pc' = [pc EXCEPT ![r] = "idle"]
        /\ \A q \in Requests \ {r} : call'[q] = call[q]
    BY <1>5 DEF Charge, Reply, Goto, TypeOK
  <2>4. /\ Billing(1)' = Billing(1) \ {r} /\ Billing(2)' = Billing(2) \ {r}
        /\ r \in Billing(1) <=> call[r].cost >= 1
        /\ r \in Billing(2) <=> call[r].cost >= 2
    BY <1>5, <2>1, <2>3 DEF Billing, TypeOK
  <2>5. /\ Cardinality(Billing(1)') = IF call[r].cost >= 1
                                      THEN Cardinality(Billing(1)) - 1
                                      ELSE Cardinality(Billing(1))
        /\ Cardinality(Billing(2)') = IF call[r].cost >= 2
                                      THEN Cardinality(Billing(2)) - 1
                                      ELSE Cardinality(Billing(2))
    BY <2>4, BilledSizes, FS_RemoveElement
  <2>6. usage' + Cardinality(Billing(1)') + Cardinality(Billing(2)') =
          delivered'[month]
    BY <1>0, <2>1, <2>2, <2>5, BilledSizes DEF Books
  <2>7. \A q \in Requests : pc'[q] \in {"handler", "charge"} =>
          call'[q].month <= month
    BY <2>1, <2>3 DEF Books, TypeOK
  <2>8. QED
    BY <2>1, <2>6, <2>7 DEF Books
<1>6. CASE NextMonth \/ UNCHANGED vars
  <2>1. /\ Books /\ UNCHANGED <<usage, month, delivered, pc, call>>
    BY <1>6 DEF NextMonth, vars, BooksInv
  <2>2. QED
    BY <2>1 DEF Books, Billing
<1>7. QED
  BY <1>1, <1>2, <1>3, <1>4, <1>5, <1>6 DEF Next

\* However requests, resets and months overlap: when no request is under way
\* and none of the slips has happened, the counter holds exactly what was
\* delivered in its month.
THEOREM ChargesExactSafe == Spec => []ChargesExact
<1>1. TypeInv /\ BooksInv => ChargesExact
  <2> SUFFICES ASSUME TypeInv, BooksInv, slips = {},
                      \A r \in Requests : pc[r] = "idle"
               PROVE  usage = delivered[month]
    BY DEF ChargesExact
  <2>1. Billing(1) = {} /\ Billing(2) = {}
    BY DEF Billing
  <2>2. QED
    BY <2>1, FS_EmptySet DEF BooksInv, Books, TypeInv, TypeOK
<1>2. QED
  BY TypeInit, TypeStep, BooksInit, BooksStep, <1>1, PTL DEF Spec
=============================================================================
