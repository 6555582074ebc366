--------------------------- MODULE AgentAuthProofs ---------------------------
(***************************************************************************)
(* Theorems about AgentAuth, for every set of concurrent requests, vaults  *)
(* and challenges, and every limit.                                        *)
(***************************************************************************)
EXTENDS AgentAuth, FiniteSetTheorems, TLAPS

-----------------------------------------------------------------------------
(* Typing. *)

Token == [op: {"token"}, vault: Vaults, challenge: Challenges, signer: Vaults]

TokenLabels == {"tkGet", "tkDel", "tkCheck", "tkVault", "tkVerify", "tkSign",
                "tkReset"}

AtToken(r) == pc[r] \in TokenLabels

\* A running request has its arguments; a challenge that is redeemed was issued.
Progress(r) ==
  /\ pc[r] # "idle" => call[r] \in Call
  /\ AtToken(r) => call[r] \in Token /\ issuedTo[call[r].challenge] # Null

TypeInv ==
  /\ TypeOK /\ \A r \in Requests : Progress(r)
  /\ \A c \in Challenges : stored[c] => issuedTo[c] # Null

LEMMA TypeInit == Init => TypeInv
  BY AuthAssumption DEF Init, TypeInv, TypeOK, Progress, AtToken, TokenLabels, Labels

LEMMA CallTyped ==
  ASSUME NEW c \in Call
  PROVE  c.vault \in Vaults /\ (c \in Token => c.challenge \in Challenges)
  BY DEF Call, Token

LEMMA TypeStep == TypeInv /\ [Next]_vars => TypeInv'
<1> SUFFICES ASSUME TypeInv, [Next]_vars PROVE TypeInv'
  OBVIOUS
<1> USE AuthAssumption
<1> DEFINE Tables ==
      /\ active \in [Vaults -> BOOLEAN] /\ revoked \in [Vaults -> BOOLEAN]
      /\ rate \in [Vaults -> Nat] /\ rateTtl \in [Vaults -> BOOLEAN]
      /\ stored \in [Challenges -> BOOLEAN] /\ old \in [Challenges -> BOOLEAN]
      /\ issuedTo \in [Challenges -> Vaults \cup {Null}]
      /\ session \in [Vaults -> BOOLEAN]
      /\ minted \in [Challenges -> Nat] /\ windows \in [Vaults -> Nat]
<1> DEFINE Issued == \A c \in Challenges : stored[c] => issuedTo[c] # Null
<1> DEFINE Kept == \A c \in Challenges : issuedTo[c] # Null => issuedTo'[c] # Null
<1>0. Tables /\ Issued /\ \A r \in Requests : Progress(r)
  BY DEF TypeInv, TypeOK
<1>a. ASSUME NEW r \in Requests, NEW from, Reply(r, from), Tables', Issued', Kept
      PROVE  TypeInv'
  <2>1. TypeOK'
    BY <1>a DEF TypeInv, TypeOK, Reply, Goto, Labels
  <2>2. Progress(r)'
    BY <1>a DEF TypeInv, TypeOK, Reply, Goto, Progress, AtToken, TokenLabels
  <2>3. ASSUME NEW q \in Requests, q # r PROVE Progress(q)'
    <3>1. Progress(q) /\ pc'[q] = pc[q] /\ call'[q] = call[q]
      BY <1>0, <1>a, <2>3 DEF Reply, Goto, TypeInv, TypeOK
    <3>2. QED
      BY <1>a, <3>1, CallTyped DEF Progress, AtToken, TokenLabels
  <2>4. QED
    BY <1>a, <2>1, <2>2, <2>3 DEF TypeInv
<1>b. ASSUME NEW r \in Requests, NEW from, NEW to \in Labels, Goto(r, from, to),
             NEW c \in Call, call' = [call EXCEPT ![r] = c],
             to \in TokenLabels =>
               c \in Token /\ issuedTo[c.challenge] # Null,
             Tables', Issued', Kept
      PROVE  TypeInv'
  <2>1. TypeOK'
    BY <1>b DEF TypeInv, TypeOK, Goto
  <2>2. Progress(r)'
    BY <1>b, CallTyped DEF TypeInv, TypeOK, Goto, Progress, AtToken
  <2>3. ASSUME NEW q \in Requests, q # r PROVE Progress(q)'
    <3>1. Progress(q) /\ pc'[q] = pc[q] /\ call'[q] = call[q]
      BY <1>0, <1>b, <2>3 DEF Goto, TypeInv, TypeOK
    <3>2. QED
      BY <1>b, <3>1, CallTyped DEF Progress, AtToken, TokenLabels
  <2>4. QED
    BY <1>b, <2>1, <2>2, <2>3 DEF TypeInv
<1>c. ASSUME NEW r \in Requests, NEW from \in Labels \ {"idle"},
             NEW to \in Labels, Goto(r, from, to), UNCHANGED call,
             to \in TokenLabels =>
               from \in TokenLabels,
             Tables', Issued', Kept
      PROVE  TypeInv'
  <2>1. /\ call[r] \in Call /\ call' = [call EXCEPT ![r] = call[r]]
        /\ to \in TokenLabels =>
             call[r] \in Token /\ issuedTo[call[r].challenge] # Null
    BY <1>0, <1>c DEF Goto, Progress, AtToken, TypeInv, TypeOK
  <2>2. QED
    BY <1>b, <1>c, <2>1
<1>d. ASSUME UNCHANGED <<pc, call>>, Tables', Issued', Kept PROVE TypeInv'
  <2>1. TypeOK'
    BY <1>d DEF TypeInv, TypeOK
  <2>2. \A q \in Requests : Progress(q)'
    BY <1>0, <1>d, CallTyped DEF Progress, AtToken, TokenLabels
  <2>3. QED
    BY <1>d, <2>1, <2>2 DEF TypeInv
<1>e. ASSUME UNCHANGED <<active, revoked, redis, session, minted, windows>>
      PROVE  Tables' /\ Issued' /\ Kept
  BY <1>0, <1>e DEF redis
<1>f. ASSUME NEW r \in Requests, pc[r] # "idle"
      PROVE  call[r] \in Call /\ call[r].vault \in Vaults
  BY <1>0, <1>f, CallTyped DEF Progress
<1>1. ASSUME NEW r \in Requests, Request(r) PROVE TypeInv'
  <2>1. ASSUME NEW v \in Vaults, StartChallenge(r, v) PROVE TypeInv'
    BY <2>1, <1>b, <1>e DEF StartChallenge, Start, Call, Labels, TokenLabels
  <2>2. ASSUME NEW v \in Vaults, StartExchange(r, v) PROVE TypeInv'
    BY <2>2, <1>b, <1>e DEF StartExchange, Start, Call, Labels, TokenLabels
  <2>3. ASSUME NEW v \in Vaults, StartCall(r, v) PROVE TypeInv'
    BY <2>3, <1>b, <1>e DEF StartCall, Start, Call, Labels, TokenLabels
  <2>4. ASSUME NEW v \in Vaults, NEW s \in Vaults, NEW c \in Challenges,
               StartToken(r, v, c, s)
        PROVE  TypeInv'
    <3> DEFINE t == [op |-> "token", vault |-> v, challenge |-> c, signer |-> s]
    <3>1. t \in Token /\ t \in Call /\ t.challenge = c
      BY DEF Token, Call
    <3>2. QED
      BY <2>4, <3>1, <1>b, <1>e DEF StartToken, Start, Labels, TokenLabels
  <2>5. QED
    BY <1>1, <2>1, <2>2, <2>3, <2>4 DEF Request
<1>2. ASSUME NEW r \in Requests,
             \/ pc[r] = "chVault" /\ CheckVault(r)
             \/ pc[r] = "akLookup" /\ LookupKey(r)
             \/ pc[r] = "jwt" /\ Authenticate(r)
             \/ FinishCall(r) \/ Stop(r)
      PROVE  TypeInv'
  BY <1>2, <1>a, <1>c, <1>e
  DEF CheckVault, LookupKey, Authenticate, FinishCall, Stop, Labels, TokenLabels
<1>3. ASSUME NEW r \in Requests, pc[r] = "chIncr", CountChallenge(r)
      PROVE  TypeInv'
  <2>1. Tables' /\ Issued' /\ Kept
    BY <1>0, <1>3, <1>f DEF CountChallenge
  <2>2. QED
    BY <1>3, <1>a, <1>c, <2>1 DEF CountChallenge, Labels, TokenLabels
<1>4. ASSUME NEW r \in Requests, StartWindow(r) PROVE TypeInv'
  <2>1. Tables' /\ Issued' /\ Kept
    BY <1>0, <1>4, <1>f DEF StartWindow, Goto
  <2>2. QED
    BY <1>4, <1>c, <2>1 DEF StartWindow, Labels, TokenLabels
<1>5. ASSUME NEW r \in Requests, StoreChallenge(r) PROVE TypeInv'
  <2>1. call[r].vault \in Vaults
    BY <1>5, <1>f DEF StoreChallenge, Reply, Goto
  <2>2. PICK c \in Challenges :
          /\ issuedTo[c] = Null
          /\ issuedTo' = [issuedTo EXCEPT ![c] = call[r].vault]
          /\ stored' = [stored EXCEPT ![c] = TRUE]
    BY <1>5 DEF StoreChallenge
  <2>3. Tables' /\ Issued' /\ Kept
    BY <1>0, <1>5, <2>1, <2>2 DEF StoreChallenge
  <2>4. QED
    BY <1>5, <1>a, <2>3 DEF StoreChallenge
<1>6. ASSUME NEW r \in Requests,
             \/ pc[r] = "tkGet" /\ GetChallenge(r)
             \/ CheckChallenge(r) \/ ReadVault(r) \/ VerifySignature(r)
      PROVE  TypeInv'
  BY <1>6, <1>a, <1>c, <1>e
  DEF GetChallenge, CheckChallenge, ReadVault, VerifySignature, Proceed, Labels,
      TokenLabels
<1>7. ASSUME NEW r \in Requests, DelChallenge(r) PROVE TypeInv'
  <2>1. Tables' /\ Issued' /\ Kept
    BY <1>0, <1>7 DEF DelChallenge, Remaining
  <2>2. QED
    BY <1>7, <1>c, <2>1 DEF DelChallenge, Labels, TokenLabels
<1>8. ASSUME NEW r \in Requests, MintFromChallenge(r) PROVE TypeInv'
  <2>1. call[r].vault \in Vaults /\ call[r].challenge \in Challenges
    BY <1>0, <1>8, <1>f, CallTyped
    DEF MintFromChallenge, Goto, Progress, AtToken, TokenLabels
  <2>2. session' \in [Vaults -> BOOLEAN] /\ minted' \in [Challenges -> Nat]
    BY <1>0, <1>8, <2>1 DEF MintFromChallenge
  <2>3. Tables' /\ Issued' /\ Kept
    BY <1>0, <1>8, <2>2 DEF MintFromChallenge, redis
  <2>4. QED
    BY <1>8, <1>c, <2>3 DEF MintFromChallenge, Labels, TokenLabels
<1>9. ASSUME NEW r \in Requests, ResetRate(r) \/ MintFromKey(r) PROVE TypeInv'
  <2>1. CASE ResetRate(r)
    <3>1. Tables' /\ Issued' /\ Kept
      <4>1. ASSUME rate' = [rate EXCEPT ![call[r].vault] = 0],
                   rateTtl' = [rateTtl EXCEPT ![call[r].vault] = FALSE]
            PROVE  rate' \in [Vaults -> Nat] /\ rateTtl' \in [Vaults -> BOOLEAN]
        BY <1>0, <4>1
      <4>2. ASSUME UNCHANGED <<rate, rateTtl>>
            PROVE  rate' \in [Vaults -> Nat] /\ rateTtl' \in [Vaults -> BOOLEAN]
        BY <1>0, <4>2
      <4>3. rate' \in [Vaults -> Nat] /\ rateTtl' \in [Vaults -> BOOLEAN]
        BY <2>1, <4>1, <4>2 DEF ResetRate, Cleared
      <4>4. UNCHANGED <<active, revoked, stored, old, issuedTo, session, minted,
                        windows>>
        BY <2>1 DEF ResetRate
      <4>5. QED
        BY <1>0, <4>3, <4>4
    <3>2. QED
      BY <1>a, <2>1, <3>1 DEF ResetRate
  <2>2. CASE MintFromKey(r)
    <3>1. Tables' /\ Issued' /\ Kept
      BY <1>0, <2>2 DEF MintFromKey, redis
    <3>2. QED
      BY <1>a, <2>2, <3>1 DEF MintFromKey
  <2>3. QED
    BY <1>9, <2>1, <2>2
<1>10. ASSUME Environment PROVE TypeInv'
  <2>1. ASSUME NEW v \in Vaults,
               Disable(v) \/ Revoke(v) \/ ExpireRate(v) \/ ExpireSession(v)
        PROVE  TypeInv'
    <3>1. CASE Disable(v) \/ Revoke(v)
      BY <1>0, <1>d, <3>1 DEF Disable, Revoke, redis, locals
    <3>2. CASE ExpireRate(v)
      BY <1>0, <1>d, <3>2 DEF ExpireRate, locals
    <3>3. CASE ExpireSession(v)
      BY <1>0, <1>d, <3>3 DEF ExpireSession, redis, locals
    <3>4. QED
      BY <2>1, <3>1, <3>2, <3>3
  <2>2. ASSUME NEW c \in Challenges, Age(c) \/ ExpireChallenge(c) PROVE TypeInv'
    BY <1>0, <1>d, <2>2 DEF Age, ExpireChallenge, locals
  <2>3. QED
    BY <1>10, <2>1, <2>2 DEF Environment
<1>11. ASSUME UNCHANGED vars PROVE TypeInv'
  BY <1>11, <1>d, <1>e DEF vars, redis
<1>12. QED
  BY <1>1, <1>2, <1>3, <1>4, <1>5, <1>6, <1>7, <1>8, <1>9, <1>10, <1>11
  DEF Next, Statement

\* Every variable keeps its type.
THEOREM TypeSafe == Spec => []TypeOK
<1>1. TypeInv => TypeOK
  BY DEF TypeInv
<1>2. QED
  BY TypeInit, TypeStep, <1>1, PTL DEF Spec

-----------------------------------------------------------------------------
(* Sizes of sets. *)

\* A set that loses an element and one that may gain one.
LEMMA OneGone ==
  ASSUME NEW S, IsFiniteSet(S), NEW T, NEW x \in S, T \subseteq S \ {x}
  PROVE  Cardinality(T) \in Nat /\ Cardinality(T) <= Cardinality(S) - 1
<1>1. IsFiniteSet(S \ {x}) /\ Cardinality(S \ {x}) = Cardinality(S) - 1
  BY FS_RemoveElement
<1>2. QED
  BY <1>1, FS_Subset, FS_CardinalityType

LEMMA OneMore ==
  ASSUME NEW S, IsFiniteSet(S), NEW T, NEW x, T \subseteq S \cup {x}
  PROVE  Cardinality(T) \in Nat /\ Cardinality(T) <= Cardinality(S) + 1
<1>1. /\ IsFiniteSet(S \cup {x})
      /\ \/ Cardinality(S \cup {x}) = Cardinality(S)
         \/ Cardinality(S \cup {x}) = Cardinality(S) + 1
  BY FS_AddElement
<1>2. Cardinality(T) <= Cardinality(S \cup {x}) /\ IsFiniteSet(T)
  BY <1>1, FS_Subset
<1>3. Cardinality(T) \in Nat /\ Cardinality(S) \in Nat
  BY <1>2, FS_CardinalityType
<1>4. QED
  BY <1>1, <1>2, <1>3

-----------------------------------------------------------------------------
(* Challenges are redeemed once, for their own vault. *)

\* The statements after the DEL, up to the JWT.
Deciding == {"tkCheck", "tkVault", "tkVerify", "tkSign"}

\* What has been redeemed is gone and was issued, so it is not issued again;
\* a request that decides about a challenge has deleted it.
Redeemed ==
  /\ RedeemedIsGone
  /\ \A c \in Challenges : minted[c] > 0 => issuedTo[c] # Null
  /\ \A r \in Requests : pc[r] \in Deciding => ~stored[call[r].challenge]

LEMMA RedeemedInit == Init => Redeemed
  BY DEF Init, Redeemed, RedeemedIsGone, Deciding

LEMMA RedeemedStep == TypeInv /\ Redeemed /\ [Next]_vars => Redeemed'
<1> SUFFICES ASSUME TypeInv, Redeemed, [Next]_vars PROVE Redeemed'
  OBVIOUS
<1> USE AuthAssumption DEF Redeemed, RedeemedIsGone, Deciding
<1>0. \A r \in Requests : pc[r] # "idle" /\ AtToken(r) =>
        /\ call[r].challenge \in Challenges
        /\ issuedTo[call[r].challenge] # Null
  BY CallTyped DEF TypeInv, Progress
<1>a. ASSUME UNCHANGED <<stored, issuedTo, minted>>,
             NEW r \in Requests, NEW from, NEW to, Goto(r, from, to),
             to \in Deciding => pc[r] \in Deciding /\ call'[r] = call[r],
             \A q \in Requests \ {r} : call'[q] = call[q]
      PROVE  Redeemed'
  BY <1>a DEF Goto, TypeInv, TypeOK
<1>1. ASSUME NEW r \in Requests, Request(r) PROVE Redeemed'
  BY <1>1, <1>a
  DEF Request, StartChallenge, StartExchange, StartCall, StartToken, Start,
      redis, TypeInv, TypeOK
<1>2. ASSUME NEW r \in Requests,
             \/ CheckVault(r) \/ LookupKey(r) \/ Authenticate(r)
             \/ FinishCall(r) \/ Stop(r) \/ GetChallenge(r) \/ ResetRate(r)
             \/ MintFromKey(r) \/ CountChallenge(r) \/ StartWindow(r)
             \/ CheckChallenge(r) \/ ReadVault(r) \/ VerifySignature(r)
      PROVE  Redeemed'
  <2>1. UNCHANGED <<stored, issuedTo, minted>>
    BY <1>2
    DEF CheckVault, LookupKey, Authenticate, FinishCall, Stop, GetChallenge,
        ResetRate, MintFromKey, CountChallenge, StartWindow, CheckChallenge,
        ReadVault, VerifySignature, Proceed, redis
  <2>2. \E from, to :
          /\ Goto(r, from, to)
          /\ to \in Deciding => pc[r] \in Deciding /\ call'[r] = call[r]
    BY <1>2
    DEF CheckVault, LookupKey, Authenticate, FinishCall, Stop, GetChallenge,
        ResetRate, MintFromKey, CountChallenge, StartWindow, CheckChallenge,
        ReadVault, VerifySignature, Proceed, Reply
  <2>3. \A q \in Requests \ {r} : call'[q] = call[q]
    BY <1>2
    DEF CheckVault, LookupKey, Authenticate, FinishCall, Stop, GetChallenge,
        ResetRate, MintFromKey, CountChallenge, StartWindow, CheckChallenge,
        ReadVault, VerifySignature, Proceed, Reply, TypeInv,
        TypeOK
  <2>4. QED
    BY <1>a, <2>1, <2>2, <2>3
<1>3. ASSUME NEW r \in Requests, StoreChallenge(r) PROVE Redeemed'
  <2>1. PICK c \in Challenges :
          /\ issuedTo[c] = Null
          /\ issuedTo' = [issuedTo EXCEPT ![c] = call[r].vault]
          /\ stored' = [stored EXCEPT ![c] = TRUE]
    BY <1>3 DEF StoreChallenge
  <2>2. call[r].vault \in Vaults
    BY <1>3, CallTyped DEF StoreChallenge, Reply, Goto, TypeInv, Progress
  <2>3. UNCHANGED minted /\ ~(minted[c] > 0)
    BY <1>3, <2>1 DEF StoreChallenge
  <2>4. ASSUME NEW q \in Requests, pc'[q] \in Deciding
        PROVE  ~stored'[call'[q].challenge]
    <3>1. pc[q] \in Deciding /\ call'[q] = call[q]
      BY <1>3, <2>4 DEF StoreChallenge, Reply, Goto, TypeInv, TypeOK
    <3>2. call[q].challenge \in Challenges \ {c}
      BY <1>0, <2>1, <3>1 DEF AtToken, TokenLabels
    <3>3. QED
      BY <2>1, <3>1, <3>2 DEF TypeInv, TypeOK
  <2>5. QED
    BY <2>1, <2>2, <2>3, <2>4 DEF TypeInv, TypeOK
<1>4. ASSUME NEW r \in Requests, DelChallenge(r) PROVE Redeemed'
  BY <1>0, <1>4
  DEF DelChallenge, Goto, Remaining, AtToken, TokenLabels, TypeInv, TypeOK
<1>5. ASSUME NEW r \in Requests, MintFromChallenge(r)
      PROVE  Redeemed'
  <2>1. /\ call[r].challenge \in Challenges /\ ~stored[call[r].challenge]
        /\ issuedTo[call[r].challenge] # Null /\ UNCHANGED <<stored, issuedTo>>
    BY <1>0, <1>5 DEF AtToken, TokenLabels, MintFromChallenge, Goto, redis
  <2>2. \A c \in Challenges \ {call[r].challenge} : minted'[c] = minted[c]
    BY <1>5 DEF MintFromChallenge, TypeInv, TypeOK
  <2>3. \A q \in Requests : pc'[q] \in Deciding =>
          pc[q] \in Deciding /\ call'[q] = call[q]
    BY <1>5 DEF MintFromChallenge, Goto, TypeInv, TypeOK
  <2>4. QED
    BY <2>1, <2>2, <2>3
<1>6. ASSUME Environment PROVE Redeemed'
  <2>1. /\ UNCHANGED <<issuedTo, minted, pc, call>>
        /\ \A c \in Challenges : stored'[c] => stored[c]
    BY <1>6
    DEF Environment, Disable, Revoke, ExpireRate, ExpireSession, Age,
        ExpireChallenge, redis, locals, TypeInv, TypeOK
  <2>2. QED
    BY <1>0, <2>1 DEF AtToken, TokenLabels
<1>7. ASSUME UNCHANGED vars PROVE Redeemed'
  BY <1>7 DEF vars
<1>8. QED
  BY <1>1, <1>2, <1>3, <1>4, <1>5, <1>6, <1>7 DEF Next, Statement

\* Of all requests that present a challenge, however they interleave and
\* whatever stops, none finds it again once a JWT has been given for it.
THEOREM RedeemedIsGoneSafe == Spec => []RedeemedIsGone
<1>1. Redeemed => RedeemedIsGone
  BY DEF Redeemed
<1>2. QED
  BY TypeInit, TypeStep, RedeemedInit, RedeemedStep, <1>1, PTL DEF Spec

\* The requests past the GET of a challenge.
LEMMA RedeemingFinite ==
  ASSUME NEW c
  PROVE  /\ IsFiniteSet(Redeeming(c)) /\ Cardinality(Redeeming(c)) \in Nat
         /\ Cardinality(Redeeming(c)) <= Cardinality(Requests)
         /\ Cardinality(Requests) \in Nat
<1>1. Redeeming(c) \subseteq Requests
  BY DEF Redeeming
<1>2. QED
  BY <1>1, AuthAssumption, FS_Subset, FS_CardinalityType

\* A request joins them only while the challenge is stored, and leaves them to
\* mint at most one JWT.
LEMMA RedemptionsStep ==
  TypeInv /\ Redeemed /\ RedemptionsBounded /\ [Next]_vars => RedemptionsBounded'
<1> SUFFICES ASSUME TypeInv, Redeemed, RedemptionsBounded, [Next]_vars,
                    NEW c \in Challenges
             PROVE  minted'[c] + Cardinality(Redeeming(c)') <= Cardinality(Requests)
  BY DEF RedemptionsBounded
<1> DEFINE Goal == minted'[c] + Cardinality(Redeeming(c)') <= Cardinality(Requests)
<1> USE AuthAssumption
<1>0. /\ minted[c] \in Nat /\ IsFiniteSet(Redeeming(c))
      /\ Cardinality(Redeeming(c)) \in Nat /\ Cardinality(Requests) \in Nat
      /\ minted[c] + Cardinality(Redeeming(c)) <= Cardinality(Requests)
  BY RedeemingFinite DEF TypeInv, TypeOK, RedemptionsBounded
<1>a. ASSUME UNCHANGED minted, Redeeming(c)' \subseteq Redeeming(c) PROVE Goal
  <2>1. /\ Cardinality(Redeeming(c)') <= Cardinality(Redeeming(c))
        /\ Cardinality(Redeeming(c)') \in Nat
    BY <1>0, <1>a, FS_Subset, FS_CardinalityType
  <2>2. QED
    BY <1>0, <1>a, <2>1
<1>b. ASSUME NEW r \in Requests, UNCHANGED minted,
             pc'[r] \in {"tkDel", "tkCheck", "tkVault", "tkVerify", "tkSign"} =>
               /\ pc[r] \in {"tkDel", "tkCheck", "tkVault", "tkVerify", "tkSign"}
               /\ call'[r] = call[r],
             \A q \in Requests \ {r} : pc'[q] = pc[q] /\ call'[q] = call[q]
      PROVE  Goal
  <2>1. Redeeming(c)' \subseteq Redeeming(c)
    BY <1>b DEF Redeeming
  <2>2. QED
    BY <1>a, <1>b, <2>1
<1>1. ASSUME NEW r \in Requests, Request(r) PROVE Goal
  BY <1>1, <1>b
  DEF Request, StartChallenge, StartExchange, StartCall, StartToken, Start,
      Goto, TypeInv, TypeOK
<1>2. ASSUME NEW r \in Requests,
             \/ CheckVault(r) \/ CountChallenge(r) \/ StartWindow(r)
             \/ StoreChallenge(r) \/ LookupKey(r) \/ MintFromKey(r)
             \/ Authenticate(r) \/ FinishCall(r) \/ Stop(r)
             \/ DelChallenge(r) \/ CheckChallenge(r) \/ ReadVault(r)
             \/ VerifySignature(r) \/ ResetRate(r)
      PROVE  Goal
  <2>1. UNCHANGED minted
    BY <1>2
    DEF CheckVault, CountChallenge, StartWindow, StoreChallenge, LookupKey,
        MintFromKey, Authenticate, FinishCall, Stop, DelChallenge,
        CheckChallenge, ReadVault, VerifySignature, Proceed, ResetRate
  <2>2. /\ pc'[r] \in {"tkDel", "tkCheck", "tkVault", "tkVerify", "tkSign"} =>
             /\ pc[r] \in {"tkDel", "tkCheck", "tkVault", "tkVerify", "tkSign"}
             /\ call'[r] = call[r]
        /\ \A q \in Requests \ {r} : pc'[q] = pc[q] /\ call'[q] = call[q]
    BY <1>2
    DEF CheckVault, CountChallenge, StartWindow, StoreChallenge, LookupKey,
        MintFromKey, Authenticate, FinishCall, Stop, DelChallenge,
        CheckChallenge, ReadVault, VerifySignature, Proceed, ResetRate, Reply,
        Goto, TypeInv, TypeOK
  <2>3. QED
    BY <1>b, <2>1, <2>2
<1>3. ASSUME NEW r \in Requests, pc[r] = "tkGet", GetChallenge(r) PROVE Goal
  <2>1. CASE call[r].challenge = c /\ stored[c]
    <3>1. UNCHANGED minted /\ minted[c] = 0
      BY <1>0, <1>3, <2>1 DEF GetChallenge, Redeemed, RedeemedIsGone
    <3>2. Redeeming(c)' \subseteq Requests
      BY DEF Redeeming
    <3>3. /\ Cardinality(Redeeming(c)') <= Cardinality(Requests)
          /\ Cardinality(Redeeming(c)') \in Nat
      BY <3>2, FS_Subset, FS_CardinalityType
    <3>4. QED
      BY <1>0, <3>1, <3>3
  <2>2. CASE ~(call[r].challenge = c /\ stored[c])
    <3>1. Redeeming(c)' \subseteq Redeeming(c)
      BY <1>3, <2>2 DEF GetChallenge, Reply, Goto, Redeeming, TypeInv, TypeOK
    <3>2. QED
      BY <1>3, <1>a, <3>1 DEF GetChallenge
  <2>3. QED
    BY <2>1, <2>2
<1>4. ASSUME NEW r \in Requests, MintFromChallenge(r) PROVE Goal
  <2>1. CASE call[r].challenge = c
    <3>1. minted'[c] = minted[c] + 1
      BY <1>4, <2>1 DEF MintFromChallenge, TypeInv, TypeOK
    <3>2. r \in Redeeming(c) /\ Redeeming(c)' \subseteq Redeeming(c) \ {r}
      BY <1>4, <2>1 DEF MintFromChallenge, Goto, Redeeming, TypeInv, TypeOK
    <3>3. /\ Cardinality(Redeeming(c)') \in Nat
          /\ Cardinality(Redeeming(c)') <= Cardinality(Redeeming(c)) - 1
      BY <1>0, <3>2, OneGone
    <3>4. QED
      BY <1>0, <3>1, <3>3
  <2>2. CASE call[r].challenge # c
    <3>1. minted'[c] = minted[c]
      BY <1>4, <2>2 DEF MintFromChallenge, TypeInv, TypeOK
    <3>2. Redeeming(c)' \subseteq Redeeming(c)
      BY <1>4, <2>2 DEF MintFromChallenge, Goto, Redeeming, TypeInv, TypeOK
    <3>3. /\ Cardinality(Redeeming(c)') <= Cardinality(Redeeming(c))
          /\ Cardinality(Redeeming(c)') \in Nat
      BY <1>0, <3>2, FS_Subset, FS_CardinalityType
    <3>4. QED
      BY <1>0, <3>1, <3>3
  <2>3. QED
    BY <2>1, <2>2
<1>5. ASSUME Environment PROVE Goal
  <2>1. UNCHANGED <<minted, pc, call>>
    BY <1>5
    DEF Environment, Disable, Revoke, ExpireRate, ExpireSession, Age,
        ExpireChallenge, locals
  <2>2. QED
    BY <1>a, <2>1 DEF Redeeming
<1>6. ASSUME UNCHANGED vars PROVE Goal
  BY <1>6, <1>a DEF vars, Redeeming
<1>7. QED
  BY <1>1, <1>2, <1>3, <1>4, <1>5, <1>6 DEF Next, Statement

\* However requests interleave between the GET and the DEL of a challenge and
\* wherever they stop, the JWTs it gave and the requests that may still give
\* one are no more than the requests there are.
THEOREM RedemptionsBoundedSafe == Spec => []RedemptionsBounded
<1>1. Init => RedemptionsBounded
  <2> SUFFICES ASSUME Init, NEW c \in Challenges
               PROVE  minted[c] + Cardinality(Redeeming(c)) <= Cardinality(Requests)
    BY DEF RedemptionsBounded
  <2>1. minted[c] = 0
    BY DEF Init
  <2>2. QED
    BY <2>1, RedeemingFinite
<1>2. QED
  BY TypeInit, TypeStep, RedeemedInit, RedeemedStep, RedemptionsStep, <1>1, PTL
  DEF Spec

\* A request that goes on with a redemption has passed each check before.
Checked(r) ==
  /\ pc[r] \in {"tkVault", "tkVerify", "tkSign"} => SameVault(call[r])
  /\ pc[r] = "tkSign" => call[r].signer = call[r].vault

LEMMA CheckedStep ==
  TypeInv /\ (\A r \in Requests : Checked(r)) /\ [Next]_vars =>
    \A r \in Requests : Checked(r)'
<1> SUFFICES ASSUME TypeInv, \A q \in Requests : Checked(q), [Next]_vars,
                    NEW r \in Requests
             PROVE  Checked(r)'
  OBVIOUS
<1> USE AuthAssumption
\* The vault a challenge was issued to is never changed.
<1>0. pc[r] \in {"tkVault", "tkVerify", "tkSign", "tkCheck"} =>
        /\ call[r].challenge \in Challenges
        /\ issuedTo'[call[r].challenge] = issuedTo[call[r].challenge]
  <2> SUFFICES ASSUME pc[r] \in {"tkVault", "tkVerify", "tkSign", "tkCheck"}
               PROVE  /\ call[r].challenge \in Challenges
                      /\ issuedTo'[call[r].challenge] = issuedTo[call[r].challenge]
    OBVIOUS
  <2>1. call[r].challenge \in Challenges /\ issuedTo[call[r].challenge] # Null
    BY CallTyped DEF TypeInv, Progress, AtToken, TokenLabels
  <2>2. CASE \E q \in Requests : StoreChallenge(q)
    BY <2>1, <2>2 DEF StoreChallenge, TypeInv, TypeOK
  <2>3. CASE UNCHANGED issuedTo
    BY <2>1, <2>3
  <2>4. (\E q \in Requests : StoreChallenge(q)) \/ UNCHANGED issuedTo
    BY DEF Next, Environment, Disable, Revoke, ExpireRate, ExpireSession, Age,
        ExpireChallenge, Request, StartChallenge, StartExchange, StartCall,
        StartToken, Start, Statement, CheckVault, CountChallenge, StartWindow,
        GetChallenge, DelChallenge, CheckChallenge, ReadVault, VerifySignature,
        Proceed, MintFromChallenge, ResetRate, LookupKey, MintFromKey,
        Authenticate, FinishCall, Stop, vars, redis
  <2>5. QED
    BY <2>2, <2>3, <2>4
<1>a. ASSUME pc'[r] = pc[r], call'[r] = call[r] PROVE Checked(r)'
  BY <1>a, <1>0 DEF Checked, SameVault
<1>b. ASSUME pc'[r] \notin {"tkVault", "tkVerify", "tkSign"} PROVE Checked(r)'
  BY <1>b DEF Checked
<1>1. ASSUME NEW q \in Requests, q # r, Request(q) \/ Statement(q) \/ Stop(q)
      PROVE  Checked(r)'
  <2>1. pc'[r] = pc[r] /\ call'[r] = call[r]
    BY <1>1
    DEF Request, StartChallenge, StartExchange, StartCall, StartToken, Start,
        Statement, CheckVault, CountChallenge, StartWindow, StoreChallenge,
        GetChallenge, DelChallenge, CheckChallenge, ReadVault, VerifySignature,
        Proceed, MintFromChallenge, ResetRate, LookupKey, MintFromKey,
        Authenticate, FinishCall, Stop, Reply, Goto, TypeInv, TypeOK
  <2>2. QED
    BY <1>a, <2>1
<1>2. ASSUME Request(r) PROVE Checked(r)'
  BY <1>2, <1>b
  DEF Request, StartChallenge, StartExchange, StartCall, StartToken, Start,
      Goto, TypeInv, TypeOK
<1>3. CASE CheckChallenge(r)
  BY <1>3, <1>0
  DEF CheckChallenge, Proceed, Reply, Goto, Checked, SameVault, redis, TypeInv,
      TypeOK
<1>4. CASE ReadVault(r) \/ VerifySignature(r)
  BY <1>4, <1>0
  DEF ReadVault, VerifySignature, Proceed, Reply, Goto, Checked, SameVault,
      TypeInv, TypeOK
<1>5. ASSUME \/ CheckVault(r) \/ CountChallenge(r) \/ StartWindow(r)
             \/ StoreChallenge(r) \/ LookupKey(r) \/ MintFromKey(r)
             \/ Authenticate(r) \/ FinishCall(r) \/ Stop(r) \/ GetChallenge(r)
             \/ DelChallenge(r) \/ MintFromChallenge(r) \/ ResetRate(r)
      PROVE  Checked(r)'
  <2>1. pc'[r] \notin {"tkVault", "tkVerify", "tkSign"}
    BY <1>5
    DEF CheckVault, CountChallenge, StartWindow, StoreChallenge, LookupKey,
        MintFromKey, Authenticate, FinishCall, Stop, GetChallenge,
        DelChallenge, MintFromChallenge, ResetRate, Reply, Goto, TypeInv, TypeOK
  <2>2. QED
    BY <1>b, <2>1
<1>6. ASSUME Environment PROVE Checked(r)'
  BY <1>6, <1>a
  DEF Environment, Disable, Revoke, ExpireRate, ExpireSession, Age,
      ExpireChallenge, locals
<1>7. CASE UNCHANGED vars
  BY <1>7, <1>a DEF vars
<1>8. QED
  BY <1>1, <1>2, <1>3, <1>4, <1>5, <1>6, <1>7 DEF Next, Statement

\* The three parts of MintedRight, of one step.
MintsForIssuer(c) ==
  minted'[c] > minted[c] =>
    /\ session'[issuedTo[c]]
    /\ \A v \in Vaults \ {issuedTo[c]} : session'[v] = session[v]
    /\ \E r \in CheckedAge(c) : call[r].signer = issuedTo[c]

LEMMA MintStep ==
  ASSUME TypeInv, \A r \in Requests : Checked(r), [Next]_vars,
         NEW c \in Challenges
  PROVE  MintsForIssuer(c)
<1> SUFFICES ASSUME minted'[c] > minted[c] PROVE MintsForIssuer(c)
  BY DEF MintsForIssuer
<1>1. minted[c] \in Nat /\ ~UNCHANGED minted
  BY DEF TypeInv, TypeOK
<1>2. PICK r \in Requests : MintFromChallenge(r)
  BY <1>1
  DEF Next, Environment, Disable, Revoke, ExpireRate, ExpireSession, Age,
      ExpireChallenge, Request, StartChallenge, StartExchange, StartCall,
      StartToken, Start, Statement, CheckVault, CountChallenge, StartWindow,
      StoreChallenge, GetChallenge, DelChallenge, CheckChallenge, ReadVault,
      VerifySignature, Proceed, ResetRate, LookupKey, MintFromKey, Authenticate,
      FinishCall, Stop, vars
<1>3. pc[r] = "tkSign" /\ call[r].vault \in Vaults /\ call[r].challenge \in Challenges
  BY <1>2, CallTyped
  DEF MintFromChallenge, Goto, TypeInv, Progress, AtToken, TokenLabels
<1>4. /\ session' = [session EXCEPT ![call[r].vault] = TRUE]
      /\ minted' = [minted EXCEPT ![call[r].challenge] = @ + 1]
  BY <1>2 DEF MintFromChallenge
<1>5. call[r].challenge = c
  BY <1>1, <1>3, <1>4 DEF TypeInv, TypeOK
<1>6. issuedTo[c] = call[r].vault /\ call[r].signer = call[r].vault
  BY <1>3, <1>5 DEF Checked, SameVault
<1>7. QED
  BY <1>3, <1>4, <1>5, <1>6 DEF MintsForIssuer, CheckedAge, TypeInv, TypeOK

LEMMA ChecksClose ==
  ASSUME TypeInv, [Next]_vars
  PROVE  /\ \A c \in Challenges : old[c] => CheckedAge(c)' \subseteq CheckedAge(c)
         /\ \A v \in Vaults : ~active[v] =>
              CheckedVault(v)' \subseteq CheckedVault(v)
<1> DEFINE Goal ==
      /\ \A c \in Challenges : old[c] => CheckedAge(c)' \subseteq CheckedAge(c)
      /\ \A v \in Vaults : ~active[v] => CheckedVault(v)' \subseteq CheckedVault(v)
<1>a. ASSUME NEW r \in Requests,
             \A q \in Requests \ {r} : pc'[q] = pc[q] /\ call'[q] = call[q],
             pc'[r] \in {"tkVault", "tkVerify", "tkSign"} =>
               /\ call'[r] = call[r]
               /\ \/ pc[r] \in {"tkVault", "tkVerify", "tkSign"}
                  \/ ~old[call[r].challenge],
             pc'[r] \in {"tkVerify", "tkSign", "akSign"} =>
               /\ call'[r] = call[r]
               /\ \/ pc[r] \in {"tkVerify", "tkSign", "akSign"}
                  \/ active[call[r].vault]
      PROVE  Goal
  BY <1>a DEF CheckedAge, CheckedVault
<1>1. ASSUME NEW r \in Requests, Request(r) PROVE Goal
  BY <1>1, <1>a
  DEF Request, StartChallenge, StartExchange, StartCall, StartToken, Start,
      Goto, TypeInv, TypeOK
<1>2. ASSUME NEW r \in Requests,
             \/ CheckChallenge(r) \/ ReadVault(r) \/ VerifySignature(r)
             \/ (pc[r] = "akLookup" /\ LookupKey(r))
      PROVE  Goal
  BY <1>2, <1>a
  DEF CheckChallenge, ReadVault, VerifySignature, Proceed, LookupKey, Honoured,
      Reply, Goto, TypeInv, TypeOK
<1>3. ASSUME NEW r \in Requests,
             \/ CheckVault(r) \/ CountChallenge(r) \/ StartWindow(r)
             \/ StoreChallenge(r) \/ MintFromKey(r) \/ Authenticate(r)
             \/ FinishCall(r) \/ Stop(r) \/ GetChallenge(r) \/ DelChallenge(r)
             \/ MintFromChallenge(r) \/ ResetRate(r)
      PROVE  Goal
  <2>1. /\ pc'[r] \notin {"tkVault", "tkVerify", "tkSign", "akSign"}
        /\ \A q \in Requests \ {r} : pc'[q] = pc[q] /\ call'[q] = call[q]
    BY <1>3
    DEF CheckVault, CountChallenge, StartWindow, StoreChallenge, MintFromKey,
        Authenticate, FinishCall, Stop, GetChallenge, DelChallenge,
        MintFromChallenge, ResetRate, Reply, Goto, TypeInv, TypeOK
  <2>2. QED
    BY <1>a, <2>1
<1>4. ASSUME Environment \/ UNCHANGED vars PROVE Goal
  <2>1. UNCHANGED <<pc, call>>
    BY <1>4
    DEF Environment, Disable, Revoke, ExpireRate, ExpireSession, Age,
        ExpireChallenge, locals, vars
  <2>2. QED
    BY <2>1 DEF CheckedAge, CheckedVault
<1>5. QED
  BY <1>1, <1>2, <1>3, <1>4 DEF Next, Statement

\* A JWT for a challenge begins a session of the vault that asked for it and
\* signed it and of no other, though the age, the row of the vault and the JWT
\* are read and signed in steps of their own; and once a challenge is old or a
\* vault disabled, no request joins those past that check.
THEOREM MintedRightSafe == Spec => MintedRight
<1> DEFINE AllChecked == \A r \in Requests : Checked(r)
<1>1. Init => AllChecked
  BY DEF Init, Checked
<1>2. TypeInv /\ AllChecked /\ [Next]_vars => AllChecked'
  BY CheckedStep
<1> DEFINE Right ==
      /\ \A c \in Challenges : minted'[c] > minted[c] =>
           /\ session'[issuedTo[c]]
           /\ \A v \in Vaults \ {issuedTo[c]} : session'[v] = session[v]
           /\ \E r \in CheckedAge(c) : call[r].signer = issuedTo[c]
      /\ \A c \in Challenges : old[c] => CheckedAge(c)' \subseteq CheckedAge(c)
      /\ \A v \in Vaults : ~active[v] =>
           CheckedVault(v)' \subseteq CheckedVault(v)
<1>3. TypeInv /\ AllChecked /\ [Next]_vars => [Right]_vars
  BY MintStep, ChecksClose DEF MintsForIssuer
<1> HIDE DEF AllChecked
<1>4. QED
  BY TypeInit, TypeStep, <1>1, <1>2, <1>3, PTL DEF Spec, MintedRight

-----------------------------------------------------------------------------
(* The counter of challenges. *)

LEMMA CounterStep ==
  TypeInv /\ ~Faulty /\ CounterWillExpire /\ [Next]_vars => CounterWillExpire'
<1> SUFFICES ASSUME TypeInv, ~Faulty, CounterWillExpire, [Next]_vars,
                    NEW v \in Vaults, rate'[v] > 0
             PROVE  \/ rateTtl'[v]
                    \/ \E r \in Requests : pc'[r] = "chExpire" /\ call'[r].vault = v
  BY DEF CounterWillExpire
<1> USE AuthAssumption
<1> DEFINE Done == \/ rateTtl'[v]
                   \/ \E r \in Requests : pc'[r] = "chExpire" /\ call'[r].vault = v
<1>0. rate[v] \in Nat /\ (rate[v] = 0 \/ rate[v] > 0)
  BY DEF TypeInv, TypeOK
<1>a. ASSUME rate[v] > 0, rateTtl[v] => rateTtl'[v],
             NEW q \in Requests, pc[q] # "chExpire",
             \A r \in Requests \ {q} : pc'[r] = pc[r] /\ call'[r] = call[r]
      PROVE  Done
  BY <1>a DEF CounterWillExpire
<1>b. ASSUME NEW r \in Requests, pc[r] # "idle" PROVE call[r].vault \in Vaults
  BY <1>b, CallTyped DEF TypeInv, Progress
<1>1. ASSUME NEW r \in Requests, Request(r) PROVE Done
  BY <1>1, <1>a
  DEF Request, StartChallenge, StartExchange, StartCall, StartToken, Start,
      Goto, redis, TypeInv, TypeOK
<1>2. ASSUME NEW r \in Requests,
             \/ CheckVault(r) \/ LookupKey(r) \/ Authenticate(r)
             \/ FinishCall(r) \/ GetChallenge(r) \/ MintFromKey(r)
             \/ StoreChallenge(r) \/ DelChallenge(r) \/ CheckChallenge(r)
             \/ ReadVault(r) \/ VerifySignature(r) \/ MintFromChallenge(r)
      PROVE  Done
  <2>1. UNCHANGED <<rate, rateTtl>>
    BY <1>2
    DEF CheckVault, LookupKey, Authenticate, FinishCall, GetChallenge,
        MintFromKey, StoreChallenge, DelChallenge, CheckChallenge,
        ReadVault, VerifySignature, Proceed, MintFromChallenge, redis
  <2>2. /\ pc[r] # "chExpire"
        /\ \A q \in Requests \ {r} : pc'[q] = pc[q] /\ call'[q] = call[q]
    BY <1>2
    DEF CheckVault, LookupKey, Authenticate, FinishCall, GetChallenge,
        MintFromKey, StoreChallenge, DelChallenge, CheckChallenge,
        ReadVault, VerifySignature, Proceed, MintFromChallenge, Reply,
        Goto, TypeInv, TypeOK
  <2>3. QED
    BY <1>a, <2>1, <2>2
<1>3. ASSUME NEW r \in Requests, pc[r] = "chIncr", CountChallenge(r) PROVE Done
  <2>1. CASE rate[v] > 0
    BY <1>3, <1>a, <2>1 DEF CountChallenge, Reply, Goto, TypeInv, TypeOK
  <2>2. CASE rate[v] = 0
    <3>1. call[r].vault = v
      BY <1>3, <1>b, <2>2 DEF CountChallenge, TypeInv, TypeOK
    <3>2. ~TooMany(rate[v] + 1) /\ FirstOfWindow(rate[v] + 1)
      BY <2>2 DEF TooMany, FirstOfWindow
    <3>3. Goto(r, "chIncr", "chExpire") /\ UNCHANGED call
      BY <1>3, <3>1, <3>2 DEF CountChallenge
    <3>4. QED
      BY <3>1, <3>3 DEF Goto, TypeInv, TypeOK
  <2>3. QED
    BY <1>0, <2>1, <2>2
<1>4. ASSUME NEW r \in Requests, StartWindow(r) PROVE Done
  <2>1. call[r].vault \in Vaults /\ UNCHANGED <<rate, call>>
    BY <1>4, <1>b DEF StartWindow, Goto
  <2>2. CASE call[r].vault = v
    BY <1>4, <2>1, <2>2 DEF StartWindow, TypeInv, TypeOK
  <2>3. CASE call[r].vault # v
    <3>1. rateTtl'[v] = rateTtl[v]
      BY <1>4, <2>3 DEF StartWindow, TypeInv, TypeOK
    <3>2. \A q \in Requests \ {r} : pc'[q] = pc[q]
      BY <1>4 DEF StartWindow, Goto, TypeInv, TypeOK
    <3>3. QED
      BY <2>1, <2>3, <3>1, <3>2 DEF CounterWillExpire
  <2>4. QED
    BY <2>2, <2>3
<1>5. ASSUME NEW r \in Requests, ResetRate(r) PROVE Done
  <2>1. rate'[v] = rate[v] /\ rateTtl'[v] = rateTtl[v]
    BY <1>5 DEF ResetRate, Cleared, TypeInv, TypeOK
  <2>2. QED
    BY <1>5, <1>a, <2>1 DEF ResetRate, Reply, Goto, TypeInv, TypeOK
<1>6. ASSUME Environment PROVE Done
  <2>1. /\ UNCHANGED <<pc, call>> /\ rate[v] > 0 /\ (rateTtl[v] => rateTtl'[v])
    BY <1>6
    DEF Environment, Disable, Revoke, ExpireRate, ExpireSession, Age,
        ExpireChallenge, redis, locals, TypeInv, TypeOK
  <2>2. QED
    BY <2>1 DEF CounterWillExpire
<1>7. ASSUME UNCHANGED vars PROVE Done
  BY <1>7 DEF vars, CounterWillExpire
<1>8. QED
  BY <1>1, <1>2, <1>3, <1>4, <1>5, <1>6, <1>7 DEF Next, Statement, Stop

\* As long as no request stops between its INCR and its EXPIRE, the counter of
\* a vault has an expiry or is about to have one, however the requests of the
\* vault interleave with each other and with the DEL of a redeemed challenge.
THEOREM CounterWillExpireSafe == ~Faulty /\ Spec => []CounterWillExpire
<1>1. Init => CounterWillExpire
  BY DEF Init, CounterWillExpire
<1>2. CASE ~Faulty
  BY TypeInit, TypeStep, CounterStep, <1>1, <1>2, PTL DEF Spec
<1>3. QED
  BY <1>2

-----------------------------------------------------------------------------
(* The limit on challenges. *)

\* Requests that were admitted and have not stored their challenge.
Admitting(v) ==
  {r \in Requests : pc[r] \in {"chExpire", "chSet"} /\ call[r].vault = v}

\* How many more the current window admits.
Left(v) == IF rate[v] = 0 \/ rate[v] > MaxChallenges THEN 0
           ELSE MaxChallenges - rate[v]

\* Every window that was begun has room for MaxChallenges: for challenges that
\* were issued, are being issued, or are left.
Budgeted(v) ==
  Cardinality(ChallengesOf(v)) + Cardinality(Admitting(v)) + Left(v)
    <= MaxChallenges * windows[v]

IssueInv == \A v \in Vaults : Budgeted(v)

LEMMA SetsFinite ==
  ASSUME NEW v
  PROVE  /\ IsFiniteSet(ChallengesOf(v)) /\ Cardinality(ChallengesOf(v)) \in Nat
         /\ IsFiniteSet(Admitting(v)) /\ Cardinality(Admitting(v)) \in Nat
<1>1. ChallengesOf(v) \subseteq Challenges /\ Admitting(v) \subseteq Requests
  BY DEF ChallengesOf, Admitting
<1>2. QED
  BY <1>1, AuthAssumption, FS_Subset, FS_CardinalityType

LEMMA IssueInit == Init => IssueInv
<1> SUFFICES ASSUME Init, NEW v \in Vaults PROVE Budgeted(v)
  BY DEF IssueInv
<1>1. ChallengesOf(v) = {} /\ Admitting(v) = {}
  BY AuthAssumption DEF Init, ChallengesOf, Admitting
<1>2. Cardinality(ChallengesOf(v)) = 0 /\ Cardinality(Admitting(v)) = 0
  BY <1>1, FS_EmptySet
<1>3. Left(v) = 0 /\ MaxChallenges * windows[v] = 0
  BY AuthAssumption DEF Init, Left
<1>4. QED
  BY <1>2, <1>3 DEF Budgeted

LEMMA IssueStep == TypeInv /\ IssueInv /\ [Next]_vars => IssueInv'
<1> SUFFICES ASSUME TypeInv, IssueInv, [Next]_vars, NEW v \in Vaults
             PROVE  Budgeted(v)'
  BY DEF IssueInv
<1> USE AuthAssumption
<1>0. /\ Budgeted(v) /\ rate[v] \in Nat /\ windows[v] \in Nat /\ Left(v) \in Nat
      /\ IsFiniteSet(ChallengesOf(v)) /\ Cardinality(ChallengesOf(v)) \in Nat
      /\ IsFiniteSet(Admitting(v)) /\ Cardinality(Admitting(v)) \in Nat
      /\ MaxChallenges * windows[v] \in Nat
  BY SetsFinite DEF IssueInv, TypeInv, TypeOK, Left
<1>a. ASSUME UNCHANGED issuedTo PROVE ChallengesOf(v)' = ChallengesOf(v)
  BY <1>a DEF ChallengesOf
<1>b. ASSUME ChallengesOf(v)' = ChallengesOf(v),
             Admitting(v)' \subseteq Admitting(v),
             rate'[v] = rate[v] \/ rate'[v] = 0 \/ rate'[v] > MaxChallenges,
             windows'[v] = windows[v]
      PROVE  Budgeted(v)'
  <2>1. /\ Cardinality(Admitting(v)') <= Cardinality(Admitting(v))
        /\ Cardinality(Admitting(v)') \in Nat
    BY <1>0, <1>b, FS_Subset, FS_CardinalityType
  <2>2. Left(v)' <= Left(v) /\ Left(v)' \in Nat
    BY <1>0, <1>b DEF Left
  <2>3. QED
    BY <1>0, <1>b, <2>1, <2>2 DEF Budgeted
<1>c. ASSUME NEW r \in Requests, NEW from, NEW to, Goto(r, from, to),
             \/ to \notin {"chExpire", "chSet"}
             \/ from = "chExpire" /\ UNCHANGED call,
             \A q \in Requests \ {r} : call'[q] = call[q]
      PROVE  Admitting(v)' \subseteq Admitting(v)
  BY <1>c DEF Goto, Admitting, TypeInv, TypeOK
<1>1. ASSUME NEW r \in Requests, Request(r) PROVE Budgeted(v)'
  BY <1>1, <1>a, <1>b, <1>c
  DEF Request, StartChallenge, StartExchange, StartCall, StartToken, Start,
      redis, TypeInv, TypeOK
<1>2. ASSUME NEW r \in Requests,
             \/ CheckVault(r) \/ LookupKey(r) \/ Authenticate(r)
             \/ FinishCall(r) \/ Stop(r) \/ GetChallenge(r) \/ MintFromKey(r)
             \/ DelChallenge(r) \/ CheckChallenge(r) \/ ReadVault(r)
             \/ VerifySignature(r) \/ MintFromChallenge(r)
             \/ StartWindow(r) \/ ResetRate(r)
      PROVE  Budgeted(v)'
  <2>1. /\ UNCHANGED <<issuedTo, windows>>
        /\ rate'[v] = rate[v] \/ rate'[v] = 0
    BY <1>2
    DEF CheckVault, LookupKey, Authenticate, FinishCall, Stop, GetChallenge,
        MintFromKey, DelChallenge, CheckChallenge, ReadVault, VerifySignature,
        Proceed, MintFromChallenge, StartWindow, ResetRate, Cleared, redis,
        TypeInv, TypeOK
  <2>2. /\ \E from, to : /\ Goto(r, from, to)
                         /\ \/ to \notin {"chExpire", "chSet"}
                            \/ from = "chExpire" /\ UNCHANGED call
        /\ \A q \in Requests \ {r} : call'[q] = call[q]
    <3>1. CASE CheckVault(r) \/ LookupKey(r) \/ Authenticate(r)
               \/ FinishCall(r) \/ Stop(r) \/ GetChallenge(r)
      BY <3>1
      DEF CheckVault, LookupKey, Authenticate, FinishCall, Stop, GetChallenge,
          Reply, TypeInv, TypeOK
    <3>2. CASE MintFromKey(r) \/ DelChallenge(r) \/ MintFromChallenge(r)
               \/ StartWindow(r) \/ ResetRate(r)
      BY <3>2
      DEF MintFromKey, DelChallenge, MintFromChallenge, StartWindow, ResetRate,
          Reply, TypeInv, TypeOK
    <3>3. CASE CheckChallenge(r) \/ ReadVault(r) \/ VerifySignature(r)
      BY <3>3
      DEF CheckChallenge, ReadVault, VerifySignature, Proceed, Reply, TypeInv,
          TypeOK
    <3>4. QED
      BY <1>2, <3>1, <3>2, <3>3
  <2>3. QED
    BY <1>a, <1>b, <1>c, <2>1, <2>2
<1>3. ASSUME NEW r \in Requests, pc[r] = "chIncr", CountChallenge(r)
      PROVE  Budgeted(v)'
  <2>0. /\ call[r].vault \in Vaults /\ UNCHANGED issuedTo
        /\ \A q \in Requests \ {r} : call'[q] = call[q] /\ pc'[q] = pc[q]
    BY <1>3, CallTyped
    DEF CountChallenge, Reply, Goto, TypeInv, TypeOK, Progress
  <2>1. CASE call[r].vault # v
    <3>1. rate'[v] = rate[v] /\ windows'[v] = windows[v]
      BY <1>3, <2>1 DEF CountChallenge, TypeInv, TypeOK
    <3>2. Admitting(v)' \subseteq Admitting(v)
      BY <1>3, <2>0, <2>1 DEF CountChallenge, Reply, Goto, Admitting, TypeInv, TypeOK
    <3>3. QED
      BY <1>a, <1>b, <2>0, <3>1, <3>2
  <2>2. CASE call[r].vault = v
    <3>1. /\ rate'[v] = rate[v] + 1
          /\ windows'[v] = IF rate[v] = 0 THEN windows[v] + 1 ELSE windows[v]
      BY <1>3, <2>2 DEF CountChallenge, TypeInv, TypeOK
    <3>2. CASE TooMany(rate[v] + 1)
      <4>1. Reply(r, "chIncr") /\ rate[v] # 0
        BY <1>0, <1>3, <2>2, <3>2 DEF CountChallenge, TooMany
      <4>2. Admitting(v)' \subseteq Admitting(v)
        BY <1>c, <2>0, <4>1 DEF Reply
      <4>3. QED
        BY <1>a, <1>b, <2>0, <3>1, <3>2, <4>1, <4>2 DEF TooMany
    <3>3. CASE ~TooMany(rate[v] + 1)
      <4>1. Admitting(v)' \subseteq Admitting(v) \cup {r}
        BY <2>0 DEF Admitting
      <4>2. /\ Cardinality(Admitting(v)') <= Cardinality(Admitting(v)) + 1
            /\ Cardinality(Admitting(v)') \in Nat
        BY <1>0, <4>1, OneMore
      <4>3. ChallengesOf(v)' = ChallengesOf(v)
        BY <1>a, <2>0
      <4>4. CASE rate[v] = 0
        <5>1. Left(v) = 0 /\ Left(v)' = MaxChallenges - 1
          BY <3>1, <4>4 DEF Left
        <5>2. MaxChallenges * windows'[v] = MaxChallenges * windows[v] + MaxChallenges
          BY <1>0, <3>1, <4>4
        <5>3. QED
          BY <1>0, <4>2, <4>3, <5>1, <5>2 DEF Budgeted
      <4>5. CASE rate[v] # 0
        <5>1. Left(v)' = Left(v) - 1 /\ windows'[v] = windows[v]
          BY <1>0, <3>1, <3>3, <4>5 DEF Left, TooMany
        <5>2. QED
          BY <1>0, <4>2, <4>3, <5>1 DEF Budgeted
      <4>6. QED
        BY <4>4, <4>5
    <3>4. QED
      BY <3>2, <3>3
  <2>3. QED
    BY <2>1, <2>2
<1>4. ASSUME NEW r \in Requests, StoreChallenge(r) PROVE Budgeted(v)'
  <2>1. PICK c \in Challenges :
          /\ issuedTo[c] = Null
          /\ issuedTo' = [issuedTo EXCEPT ![c] = call[r].vault]
    BY <1>4 DEF StoreChallenge
  <2>2. /\ UNCHANGED <<rate, windows>> /\ pc[r] = "chSet" /\ pc'[r] = "idle"
        /\ \A q \in Requests \ {r} : call'[q] = call[q] /\ pc'[q] = pc[q]
    BY <1>4 DEF StoreChallenge, Reply, Goto, TypeInv, TypeOK
  <2>3. CASE call[r].vault = v
    <3>1. r \in Admitting(v) /\ Admitting(v)' \subseteq Admitting(v) \ {r}
      BY <2>2, <2>3 DEF Admitting
    <3>2. ChallengesOf(v)' \subseteq ChallengesOf(v) \cup {c}
      BY <2>1 DEF ChallengesOf, TypeInv, TypeOK
    <3>3. /\ Cardinality(Admitting(v)') <= Cardinality(Admitting(v)) - 1
          /\ Cardinality(Admitting(v)') \in Nat
      BY <1>0, <3>1, OneGone
    <3>4. /\ Cardinality(ChallengesOf(v)') <= Cardinality(ChallengesOf(v)) + 1
          /\ Cardinality(ChallengesOf(v)') \in Nat
      BY <1>0, <3>2, OneMore
    <3>5. Left(v)' = Left(v)
      BY <2>2 DEF Left
    <3>6. QED
      BY <1>0, <2>2, <3>3, <3>4, <3>5 DEF Budgeted
  <2>4. CASE call[r].vault # v
    <3>1. ChallengesOf(v)' = ChallengesOf(v)
      BY <2>1, <2>4 DEF ChallengesOf, TypeInv, TypeOK
    <3>2. Admitting(v)' \subseteq Admitting(v)
      BY <2>2 DEF Admitting
    <3>3. QED
      BY <1>b, <2>2, <3>1, <3>2
  <2>5. QED
    BY <2>3, <2>4
<1>5. ASSUME Environment PROVE Budgeted(v)'
  <2>1. /\ UNCHANGED <<pc, call, issuedTo, windows>>
        /\ rate'[v] = rate[v] \/ rate'[v] = 0
    BY <1>5
    DEF Environment, Disable, Revoke, ExpireRate, ExpireSession, Age,
        ExpireChallenge, redis, locals, TypeInv, TypeOK
  <2>2. Admitting(v)' = Admitting(v)
    BY <2>1 DEF Admitting
  <2>3. QED
    BY <1>a, <1>b, <2>1, <2>2
<1>6. ASSUME UNCHANGED vars PROVE Budgeted(v)'
  <2>1. Admitting(v)' = Admitting(v)
    BY <1>6 DEF vars, Admitting
  <2>2. QED
    BY <1>6, <1>a, <1>b, <2>1 DEF vars
<1>7. ASSUME NEW r \in Requests, Statement(r) \/ Stop(r) PROVE Budgeted(v)'
  <2>1. CASE pc[r] = "chIncr" /\ CountChallenge(r)
    BY <1>3, <2>1
  <2>2. CASE StoreChallenge(r)
    BY <1>4, <2>2
  <2>3. CASE \/ CheckVault(r) \/ LookupKey(r) \/ Authenticate(r)
             \/ FinishCall(r) \/ Stop(r) \/ GetChallenge(r) \/ MintFromKey(r)
             \/ DelChallenge(r) \/ CheckChallenge(r) \/ ReadVault(r)
             \/ VerifySignature(r) \/ MintFromChallenge(r)
             \/ StartWindow(r) \/ ResetRate(r)
    BY <1>2, <2>3, Zenon
  <2>4. QED
    BY <1>7, <2>1, <2>2, <2>3 DEF Statement
<1>8. QED
  BY <1>1, <1>5, <1>6, <1>7 DEF Next

\* However many requests ask at once, stop half-way, or reset the counter of
\* the vault by redeeming a challenge, each rate window a vault begins gives it
\* MaxChallenges challenges at most.
THEOREM IssueBoundedSafe == Spec => []IssueBounded
<1>1. TypeInv /\ IssueInv => IssueBounded
  <2> SUFFICES ASSUME TypeInv, IssueInv, NEW v \in Vaults
               PROVE  Cardinality(ChallengesOf(v)) <= MaxChallenges * windows[v]
    BY DEF IssueBounded
  <2>1. Left(v) \in Nat /\ MaxChallenges * windows[v] \in Nat
    BY AuthAssumption DEF Left, TypeInv, TypeOK
  <2>2. QED
    BY <2>1, SetsFinite DEF IssueInv, Budgeted
<1>2. QED
  BY TypeInit, TypeStep, IssueInit, IssueStep, <1>1, PTL DEF Spec

-----------------------------------------------------------------------------
(* A vault that is disabled. *)

\* The requests whose handlers run for a vault.
Serving(v) == {r \in Requests : pc[r] = "handler" /\ call[r].vault = v}

\* A disabled vault is not enabled again, and gets no further handler: one for
\* which the JWT was verified before must still pass the check of is_active.
DisabledStep ==
  \A v \in Vaults : ~active[v] => ~active'[v] /\ Serving(v)' \subseteq Serving(v)

\* No step does otherwise.
LEMMA DisabledStays == TypeInv /\ [Next]_vars => DisabledStep
<1> SUFFICES ASSUME TypeInv, [Next]_vars, NEW v \in Vaults, ~active[v]
             PROVE  ~active'[v] /\ Serving(v)' \subseteq Serving(v)
  BY DEF DisabledStep
<1>1. ASSUME UNCHANGED <<active, pc, call>> PROVE ~active'[v] /\ Serving(v)' \subseteq Serving(v)
  BY <1>1 DEF Serving
\* A request that goes on, but not to a handler.
<1>2. ASSUME NEW r \in Requests, UNCHANGED active, pc'[r] # "handler",
             \A q \in Requests \ {r} : pc'[q] = pc[q] /\ call'[q] = call[q]
      PROVE  ~active'[v] /\ Serving(v)' \subseteq Serving(v)
  BY <1>2 DEF Serving
<1>3. ASSUME NEW r \in Requests, Request(r)
      PROVE  ~active'[v] /\ Serving(v)' \subseteq Serving(v)
  BY <1>3, <1>2
  DEF Request, StartChallenge, StartExchange, StartCall, StartToken, Start, Goto,
      TypeInv, TypeOK
<1>4. ASSUME NEW r \in Requests, pc[r] = "jwt", Authenticate(r)
      PROVE  ~active'[v] /\ Serving(v)' \subseteq Serving(v)
  <2>1. CASE call[r].vault = v
    BY <1>2, <1>4, <2>1
    DEF Authenticate, Admitted, Reply, Goto, TypeInv, TypeOK
  <2>2. CASE call[r].vault # v
    BY <1>4, <2>2
    DEF Authenticate, Reply, Goto, Serving, TypeInv, TypeOK
  <2>3. QED
    BY <2>1, <2>2
<1>5. ASSUME NEW r \in Requests, Statement(r), ~Authenticate(r) \/ pc[r] # "jwt"
      PROVE  ~active'[v] /\ Serving(v)' \subseteq Serving(v)
  <2>1. /\ pc'[r] # "handler" /\ UNCHANGED active
        /\ \A q \in Requests \ {r} : pc'[q] = pc[q] /\ call'[q] = call[q]
    BY <1>5
    DEF Statement, CheckVault, CountChallenge, StartWindow, StoreChallenge,
        GetChallenge, DelChallenge, CheckChallenge, ReadVault,
        VerifySignature, Proceed, MintFromChallenge, ResetRate, LookupKey,
        MintFromKey, FinishCall, Reply, Goto, TypeInv, TypeOK
  <2>2. QED
    BY <1>2, <2>1
<1>6. ASSUME NEW r \in Requests, Stop(r)
      PROVE  ~active'[v] /\ Serving(v)' \subseteq Serving(v)
  BY <1>2, <1>6 DEF Stop, Reply, Goto, TypeInv, TypeOK
<1>7. ASSUME Environment PROVE ~active'[v] /\ Serving(v)' \subseteq Serving(v)
  <2>1. UNCHANGED <<pc, call>> /\ ~active'[v]
    BY <1>7
    DEF Environment, Disable, Revoke, ExpireRate, ExpireSession, Age,
        ExpireChallenge, locals, TypeInv, TypeOK
  <2>2. QED
    BY <2>1 DEF Serving
<1>8. CASE UNCHANGED vars
  BY <1>1, <1>8 DEF vars, locals
<1>9. QED
  BY <1>3, <1>4, <1>5, <1>6, <1>7, <1>8 DEF Next

\* A vault that has been disabled stays so, and no handler begins to run for it
\* any more, whatever JWTs and API keys are still around and wherever requests
\* stop: only the handlers that run already are left to finish.
THEOREM DisabledGetsNoHandler == Spec => [][DisabledStep]_vars
  BY TypeInit, TypeStep, DisabledStays, PTL DEF Spec
=============================================================================
