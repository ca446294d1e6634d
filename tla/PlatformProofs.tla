---------------------------- MODULE PlatformProofs ----------------------------
(***************************************************************************)
(* Proofs about the components around the agents, and that what is proved  *)
(* of each holds where they are composed.                                  *)
(***************************************************************************)
EXTENDS MCPlatform, ProtocolProofs

(* Keys and requests.                                                       *)
Holders == {"valid", "allowed", "denied", "served"}
Refusal(r) == [type |-> "UNAUTHORIZED_ATTEMPT", tenant_id |-> request[r].tenant_id, of |-> r]
Use(r) == [type |-> "API_KEY_USAGE", tenant_id |-> request[r].tenant_id, of |-> r]

\* A request past validation holds the tenant, the key and the role it was validated with.
HeldOK(r) ==
    /\ request[r].phase \in Holders =>
        /\ request[r].key \in DOMAIN issued /\ request[r].role = issued[request[r].key]
        /\ request[r].tenant_id = KeyTenants[request[r].key]
    /\ request[r].phase = "denied" => Refusal(r) \in usage
    /\ request[r].phase = "served" => Use(r) \in usage \/ request[r].key \notin DOMAIN keys

KeysOK ==
    /\ DOMAIN keys \subseteq DOMAIN issued /\ DOMAIN issued \subseteq KeyIds
    /\ \A k \in DOMAIN keys : keys[k] = issued[k]

SecurityStrong == KeysOK /\ DOMAIN request = Requests /\ \A r \in Requests : HeldOK(r)

LEMMA SecurityImplies == SecurityStrong => SecurityInv
  BY DEF SecurityStrong, SecurityInv, KeysOK, HeldOK, Holders, Refusal, Use

LEMMA SecurityInitial == SecurityInit => SecurityStrong
  BY DEF SecurityInit, SecurityStrong, KeysOK, HeldOK, Holders, KeyIds

\* One request moves, and the keys stay.
LEMMA OneRequest ==
    ASSUME SecurityStrong, NEW r \in Requests, UNCHANGED <<keys, issued>>, usage \subseteq usage',
           DOMAIN request' = Requests, \A q \in Requests \ {r} : request'[q] = request[q], HeldOK(r)'
    PROVE  SecurityStrong'
<1>1. ASSUME NEW q \in Requests PROVE HeldOK(q)'
  <2>1. CASE q = r
    BY <2>1
  <2>2. CASE q # r
    <3>1. request'[q] = request[q] /\ HeldOK(q)
      BY <2>2 DEF SecurityStrong
    <3>2. Refusal(q)' = Refusal(q) /\ Use(q)' = Use(q)
      BY <3>1 DEF Refusal, Use
    <3> QED
      BY <3>1, <3>2 DEF HeldOK
  <2> QED
    BY <2>1, <2>2
<1> QED
  BY <1>1 DEF SecurityStrong, KeysOK

LEMMA SecurityNextKeeps == SecurityStrong /\ SecurityNext => SecurityStrong'
<1> SUFFICES ASSUME SecurityStrong, SecurityNext PROVE SecurityStrong'
  OBVIOUS
<1>1. ASSUME NEW k \in KeyIds, NEW role \in Roles, GenerateKey(k, role) PROVE SecurityStrong'
  <2>1. /\ k \notin DOMAIN issued /\ DOMAIN keys' = DOMAIN keys \cup {k} /\ DOMAIN issued' = DOMAIN issued \cup {k}
        /\ \A x \in DOMAIN issued : issued'[x] = issued[x]
        /\ UNCHANGED <<request, usage>>
    BY <1>1 DEF GenerateKey
  <2>2. KeysOK'
    BY <1>1, <2>1 DEF SecurityStrong, KeysOK, GenerateKey
  <2>3. ASSUME NEW q \in Requests PROVE HeldOK(q)'
    <3>1. HeldOK(q) /\ Refusal(q)' = Refusal(q) /\ Use(q)' = Use(q)
      BY <2>1 DEF SecurityStrong, Refusal, Use
    <3> QED
      BY <2>1, <3>1 DEF HeldOK, Holders
  <2> QED
    BY <2>1, <2>2, <2>3 DEF SecurityStrong
<1>2. ASSUME NEW k \in KeyIds, Revoke(k) PROVE SecurityStrong'
  <2>1. /\ DOMAIN keys' = DOMAIN keys \ {k} /\ \A x \in DOMAIN keys' : keys'[x] = keys[x]
        /\ UNCHANGED <<issued, request, usage>>
    BY <1>2 DEF Revoke, Restrict
  <2>2. KeysOK'
    BY <2>1 DEF SecurityStrong, KeysOK
  <2>3. ASSUME NEW q \in Requests PROVE HeldOK(q)'
    <3>1. HeldOK(q) /\ Refusal(q)' = Refusal(q) /\ Use(q)' = Use(q)
      BY <2>1 DEF SecurityStrong, Refusal, Use
    <3> QED
      BY <2>1, <3>1 DEF HeldOK, Holders
  <2> QED
    BY <2>1, <2>2, <2>3 DEF SecurityStrong
<1>3. ASSUME NEW r \in Requests, NEW k \in KeyIds, NEW ok \in BOOLEAN, ValidateKey(r, k, ok)
      PROVE  SecurityStrong'
  <2> DEFINE held == [phase |-> "valid", key |-> k, tenant_id |-> KeyTenants[k], role |-> keys[k]]
  <2>1. /\ DOMAIN request' = Requests /\ \A q \in Requests \ {r} : request'[q] = request[q]
        /\ request'[r] = IF k \in DOMAIN keys /\ ok THEN held ELSE [phase |-> "invalid"]
        /\ UNCHANGED <<keys, issued, usage>>
    BY <1>3 DEF ValidateKey, SecurityStrong
  <2>2. HeldOK(r)'
    <3>1. CASE k \in DOMAIN keys /\ ok
      BY <2>1, <3>1 DEF HeldOK, Holders, SecurityStrong, KeysOK
    <3>2. CASE ~(k \in DOMAIN keys /\ ok)
      BY <2>1, <3>2 DEF HeldOK, Holders
    <3> QED
      BY <3>1, <3>2
  <2> QED
    BY <2>1, <2>2, OneRequest
<1>4. ASSUME NEW r \in Requests, LogUsage(r) PROVE SecurityStrong'
  <2>1. /\ request[r].phase = "allowed" /\ request' = [request EXCEPT ![r].phase = "served"]
        /\ usage' = IF request[r].key \in DOMAIN keys
                    THEN usage \cup {[type |-> "API_KEY_USAGE", tenant_id |-> KeyTenants[request[r].key], of |-> r]}
                    ELSE usage
        /\ UNCHANGED <<keys, issued>>
    BY <1>4 DEF LogUsage
  <2>2. /\ DOMAIN request' = Requests /\ \A q \in Requests \ {r} : request'[q] = request[q]
        /\ request'[r] = [request[r] EXCEPT !.phase = "served"]
    BY <2>1 DEF SecurityStrong
  <2>3. /\ request'[r].key = request[r].key /\ request'[r].role = request[r].role
        /\ request'[r].tenant_id = request[r].tenant_id
    BY <2>2
  <2>4. request'[r].phase = "served"
    BY <2>1, <2>2 DEF SecurityStrong
  <2>5. HeldOK(r)'
    BY <2>1, <2>3, <2>4 DEF HeldOK, Holders, Use, SecurityStrong
  <2> QED
    BY <2>1, <2>2, <2>5, OneRequest
<1>5. ASSUME NEW r \in Requests, NEW permission, CheckPermission(r, permission) PROVE SecurityStrong'
  <2> DEFINE allowed == Allowed(request[r].role, permission)
  <2>1. /\ request[r].phase = "valid"
        /\ request' = [request EXCEPT ![r].phase = IF allowed THEN "allowed" ELSE "denied"]
        /\ usage' = IF allowed THEN usage ELSE usage \cup {Refusal(r)}
        /\ UNCHANGED <<keys, issued>>
    BY <1>5 DEF CheckPermission, Refusal
  <2> HIDE DEF allowed
  <2>2. /\ DOMAIN request' = Requests /\ \A q \in Requests \ {r} : request'[q] = request[q]
        /\ request'[r] = [request[r] EXCEPT !.phase = IF allowed THEN "allowed" ELSE "denied"]
    BY <2>1 DEF SecurityStrong
  <2>3. /\ request'[r].key = request[r].key /\ request'[r].role = request[r].role
        /\ request'[r].tenant_id = request[r].tenant_id
    BY <2>2
  <2>4. request'[r].phase = (IF allowed THEN "allowed" ELSE "denied")
    BY <2>1, <2>2 DEF SecurityStrong
  <2>5. HeldOK(r)'
    <3>1. HeldOK(r) /\ Refusal(r)' = [type |-> "UNAUTHORIZED_ATTEMPT", tenant_id |-> request[r].tenant_id, of |-> r]
      BY <2>3 DEF SecurityStrong, Refusal
    <3>2. /\ request[r].key \in DOMAIN issued /\ request[r].role = issued[request[r].key]
          /\ request[r].tenant_id = KeyTenants[request[r].key]
      BY <2>1, <3>1 DEF HeldOK, Holders
    <3>3. CASE allowed
      BY <2>1, <2>3, <2>4, <3>2, <3>3 DEF HeldOK, Holders
    <3>4. CASE ~allowed
      <4>1. Refusal(r)' \in usage'
        BY <2>1, <3>1, <3>4 DEF Refusal
      <4> QED
        BY <2>1, <2>3, <2>4, <3>2, <3>4, <4>1 DEF HeldOK, Holders
    <3> QED
      BY <3>3, <3>4
  <2> QED
    BY <2>1, <2>2, <2>5, OneRequest
<1> QED
  BY <1>1, <1>2, <1>3, <1>4, <1>5 DEF SecurityNext

LEMMA SecurityStep == SecurityStrong /\ [SecurityNext]_securityVars => SecurityStrong'
<1>1. SecurityStrong /\ UNCHANGED securityVars => SecurityStrong'
  BY DEF SecurityStrong, securityVars, KeysOK, HeldOK, Refusal, Use
<1> QED
  BY <1>1, SecurityNextKeeps

-----------------------------------------------------------------------------
(* The reasoning engine.                                                    *)
\* Folding Reduced over the claims: the recursion over sets of their places.
IsFold(g, conf, claims) ==
    g = [T \in SUBSET DOMAIN claims |->
            IF T = {} THEN conf ELSE Reduced(g[T \ {Max(T)}], claims[Max(T)])]

UnverifiedIn(T, claims) == {i \in T : ~claims[i]}
Left(conf, n) == IF 20 * n >= conf THEN 0 ELSE conf - 20 * n

LEMMA LeftStep ==
    ASSUME NEW conf \in Nat, NEW claims \in Seq(BOOLEAN), NEW T \in SUBSET DOMAIN claims, T # {}
    PROVE  /\ Max(T) \in T
           /\ Left(conf, Cardinality(UnverifiedIn(T, claims)))
                = Reduced(Left(conf, Cardinality(UnverifiedIn(T \ {Max(T)}, claims))), claims[Max(T)])
<1> DEFINE m == Max(T)
           R == UnverifiedIn(T \ {m}, claims)
           n == Cardinality(R)
<1>1. DOMAIN claims = 1..Len(claims) /\ Len(claims) \in Nat
  BY LenProperties
<1>2. IsFiniteSet(1..Len(claims))
  BY <1>1, FS_Interval
<1>3. IsFiniteSet(T) /\ T \subseteq Int
  <2>1. IsFiniteSet(T)
    BY <1>1, <1>2, FS_Subset
  <2> QED
    BY <1>1, <2>1
<1>4. m \in T
  BY <1>3, MaxIs
<1>5. IsFiniteSet(R)
  BY <1>3, FS_Subset DEF UnverifiedIn
<1>6. n \in Nat
  BY <1>5, FS_CardinalityType
<1>7. CASE claims[m]
  <2>1. UnverifiedIn(T, claims) = R
    BY <1>7 DEF UnverifiedIn
  <2>2. Reduced(Left(conf, n), claims[m]) = Left(conf, n)
    BY <1>7 DEF Reduced
  <2> QED
    BY <1>4, <2>1, <2>2
<1>8. CASE ~claims[m]
  <2>1. UnverifiedIn(T, claims) = R \cup {m}
    BY <1>4, <1>8 DEF UnverifiedIn
  <2>2. m \notin R
    BY DEF UnverifiedIn
  <2>3. Cardinality(UnverifiedIn(T, claims)) = n + 1
    BY <1>5, <2>1, <2>2, FS_AddElement
  <2>4. Reduced(Left(conf, n), claims[m]) = IF Left(conf, n) < 20 THEN 0 ELSE Left(conf, n) - 20
    BY <1>8 DEF Reduced
  <2> HIDE DEF n, m
  <2>5. Left(conf, n + 1) = IF Left(conf, n) < 20 THEN 0 ELSE Left(conf, n) - 20
    BY <1>6 DEF Left
  <2> QED
    BY <1>4, <2>3, <2>4, <2>5 DEF n, m
<1> QED
  BY <1>7, <1>8

LEMMA FoldExists ==
    ASSUME NEW conf \in Nat, NEW claims \in Seq(BOOLEAN)
    PROVE  \E g : IsFold(g, conf, claims)
<1> DEFINE g == [T \in SUBSET DOMAIN claims |-> Left(conf, Cardinality(UnverifiedIn(T, claims)))]
<1>1. ASSUME NEW T \in SUBSET DOMAIN claims
      PROVE  g[T] = IF T = {} THEN conf ELSE Reduced(g[T \ {Max(T)}], claims[Max(T)])
  <2>1. CASE T = {}
    <3>1. UnverifiedIn(T, claims) = {}
      BY <2>1 DEF UnverifiedIn
    <3>2. Cardinality(UnverifiedIn(T, claims)) = 0
      BY <3>1, FS_EmptySet
    <3> QED
      BY <2>1, <3>2 DEF Left
  <2>2. CASE T # {}
    BY <2>2, LeftStep
  <2> QED
    BY <2>1, <2>2
<1>2. g = [T \in SUBSET DOMAIN claims |->
            IF T = {} THEN conf ELSE Reduced(g[T \ {Max(T)}], claims[Max(T)])]
  <2> DEFINE h == [T \in SUBSET DOMAIN claims |->
            IF T = {} THEN conf ELSE Reduced(g[T \ {Max(T)}], claims[Max(T)])]
  <2>1. \A T \in SUBSET DOMAIN claims : g[T] = h[T]
    BY <1>1
  <2>2. /\ g = [T \in SUBSET DOMAIN claims |-> g[T]]
        /\ h = [T \in SUBSET DOMAIN claims |-> h[T]]
    OBVIOUS
  <2> HIDE DEF g, h
  <2>3. g = h
    BY <2>1, <2>2
  <2> QED
    BY <2>3 DEF h
<1> HIDE DEF g
<1> QED
  BY <1>2 DEF IsFold

\* validateClaims() leaves what every unverified claim has taken its 20 points of.
LEMMA FoldIsLeft ==
    ASSUME NEW conf \in Nat, NEW claims \in Seq(BOOLEAN)
    PROVE  FoldLeft(Reduced, conf, claims) = Left(conf, Unverified(claims))
<1> DEFINE D == DOMAIN claims
           g == CHOOSE h : IsFold(h, conf, claims)
           Good == {T \in SUBSET D : g[T] = Left(conf, Cardinality(UnverifiedIn(T, claims)))}
<1>1. IsFold(g, conf, claims)
  BY FoldExists
<1>2. FoldLeft(Reduced, conf, claims) = g[D]
  BY DEF FoldLeft, MapThenFoldSet, IsFold
<1> HIDE DEF g
<1>3. IsFiniteSet(D)
  <2>1. D = 1..Len(claims) /\ Len(claims) \in Nat
    BY LenProperties
  <2> QED
    BY <2>1, FS_Interval
<1>4. ASSUME NEW T \in SUBSET D, \A U \in SUBSET T : U # T => U \in Good
      PROVE  T \in Good
  <2>1. CASE T = {}
    <3>1. UnverifiedIn(T, claims) = {}
      BY <2>1 DEF UnverifiedIn
    <3>2. Cardinality(UnverifiedIn(T, claims)) = 0
      BY <3>1, FS_EmptySet
    <3>3. g[T] = conf
      BY <1>1, <2>1 DEF IsFold
    <3> QED
      BY <2>1, <3>2, <3>3 DEF Left
  <2>2. CASE T # {}
    <3>1. g[T] = Reduced(g[T \ {Max(T)}], claims[Max(T)])
      BY <1>1, <2>2 DEF IsFold
    <3>2. Max(T) \in T
      BY <2>2, LeftStep
    <3>3. T \ {Max(T)} \in Good
      BY <1>4, <3>2
    <3> QED
      BY <2>2, <3>1, <3>3, LeftStep
  <2> QED
    BY <2>1, <2>2
<1>5. D \in Good
  <2> HIDE DEF Good, D
  <2> QED
    BY <1>3, <1>4, StrictSubsets
<1>6. UnverifiedIn(D, claims) = {i \in DOMAIN claims : ~claims[i]}
  BY DEF UnverifiedIn
<1> QED
  BY <1>2, <1>5, <1>6 DEF Unverified

LEMMA UnverifiedFacts ==
    ASSUME NEW claims \in Seq(BOOLEAN)
    PROVE  Unverified(claims) \in Nat /\ Unverified(claims) <= Len(claims) /\ Len(claims) \in Nat
<1>1. DOMAIN claims = 1..Len(claims) /\ Len(claims) \in Nat
  BY LenProperties
<1>2. IsFiniteSet(1..Len(claims)) /\ Cardinality(1..Len(claims)) = Len(claims)
  BY <1>1, FS_Interval
<1> DEFINE S == {i \in DOMAIN claims : ~claims[i]}
<1>3. S \subseteq 1..Len(claims)
  BY <1>1
<1> HIDE DEF S
<1>4. IsFiniteSet(S) /\ Cardinality(S) <= Cardinality(1..Len(claims))
  BY <1>2, <1>3, FS_Subset
<1>5. Cardinality(S) \in Nat
  BY <1>4, FS_CardinalityType
<1> QED
  BY <1>1, <1>2, <1>4, <1>5 DEF Unverified, S

\* The work of calls that do not overlap has the budget that is left.
BudgetOK ==
    /\ spentByTenant \in Nat /\ sessions \subseteq BudgetRuns /\ IsFiniteSet(sessions)
    /\ overlapping \in BOOLEAN /\ excess \in Nat
    /\ DOMAIN budgetRun = BudgetRuns
    /\ \A r \in BudgetRuns :
        \/ budgetRun[r].phase = "idle" /\ r \notin sessions
        \/ /\ budgetRun[r].phase = "working" /\ r \notin sessions
           /\ budgetRun[r].remaining \in 1..MaxBudget
           /\ ~overlapping => /\ budgetRun[r].remaining = MaxBudget - spentByTenant
                              /\ \A q \in ActiveRuns : q = r
        \/ /\ budgetRun[r].phase = "done"
           /\ budgetRun[r].result \in BOOLEAN /\ (budgetRun[r].result <=> r \in sessions)
           /\ ~budgetRun[r].exhausted => budgetRun[r].result
    /\ ~overlapping => spentByTenant <= MaxBudget + excess
    /\ spentByTenant <= MaxBudget * Cardinality(sessions) + excess

DualOK ==
    /\ dual = [phase |-> dual.phase, a |-> dual.a, b |-> dual.b]
    /\ dual.phase \in {"generating", "CONFLICT", "MERGED", "rejected"}
    /\ dual.phase = "MERGED" => CompareChains(dual.a, dual.b) = "MERGED"

ClaimsOK ==
    /\ stats.total \in Nat /\ stats.unverified \in 0..stats.total
    /\ ConfidenceIsReduced

ReasoningStrong == BudgetOK /\ DualOK /\ ClaimsOK

LEMMA BudgetStays ==
    ASSUME BudgetOK, UNCHANGED <<spentByTenant, sessions, budgetRun, overlapping, excess>>
    PROVE  BudgetOK'
  BY DEF BudgetOK, ActiveRuns

LEMMA OthersStay ==
    /\ DualOK /\ UNCHANGED dual => DualOK'
    /\ ClaimsOK /\ UNCHANGED stats => ClaimsOK'
  BY DEF DualOK, ClaimsOK, ConfidenceIsReduced

LEMMA ReasoningInitial == ReasoningInit => ReasoningStrong
<1> SUFFICES ASSUME ReasoningInit PROVE ReasoningStrong
  OBVIOUS
<1>1. BudgetOK
  <2>1. Cardinality(sessions) = 0 /\ IsFiniteSet(sessions)
    BY FS_EmptySet DEF ReasoningInit
  <2>2. MaxBudget * Cardinality(sessions) = 0
    BY <2>1, ReasoningAssumption
  <2>3. \A r \in BudgetRuns : budgetRun[r].phase = "idle"
    BY DEF ReasoningInit
  <2>4. /\ DOMAIN budgetRun = BudgetRuns /\ spentByTenant = 0 /\ sessions = {} /\ overlapping = FALSE
        /\ excess = 0 /\ MaxBudget \in Nat
    BY ReasoningAssumption DEF ReasoningInit
  <2> QED
    <3>1. /\ spentByTenant <= MaxBudget * Cardinality(sessions) + excess
          /\ spentByTenant <= MaxBudget + excess
      BY <2>2, <2>4
    <3> QED
      BY <2>1, <2>3, <2>4, <3>1 DEF BudgetOK
<1>2. DualOK
  BY DEF ReasoningInit, DualOK
<1>3. ClaimsOK
  <2>1. stats = [total |-> 0, unverified |-> 0, original |-> 0, adjusted |-> 0, last |-> <<>>]
    BY DEF ReasoningInit
  <2>2. Unverified(<<>>) = 0
    <3>1. <<>> \in Seq(BOOLEAN) /\ Len(<<>>) = 0
      BY EmptySeq
    <3>2. Unverified(<<>>) \in Nat /\ Unverified(<<>>) <= Len(<<>>)
      BY <3>1, UnverifiedFacts
    <3> QED
      BY <3>1, <3>2
  <2> QED
    BY <2>1, <2>2 DEF ClaimsOK, ConfidenceIsReduced
<1> QED
  BY <1>1, <1>2, <1>3 DEF ReasoningStrong

LEMMA StartKeeps ==
    ASSUME ReasoningStrong, NEW r \in BudgetRuns, StartRun(r)
    PROVE  ReasoningStrong'
<1> DEFINE new == IF Exhausted THEN [phase |-> "done", result |-> FALSE, exhausted |-> TRUE]
                  ELSE [phase |-> "working", remaining |-> Remaining]
<1>1. /\ budgetRun[r].phase = "idle" /\ budgetRun' = [budgetRun EXCEPT ![r] = new]
      /\ overlapping' = (overlapping \/ (~Exhausted /\ ActiveRuns # {}))
      /\ UNCHANGED <<spentByTenant, sessions, excess, dual, stats>>
  BY DEF StartRun
<1>2. BudgetOK
  BY DEF ReasoningStrong
<1>3. budgetRun'[r] = new /\ DOMAIN budgetRun' = BudgetRuns /\ \A q \in BudgetRuns \ {r} : budgetRun'[q] = budgetRun[q]
  BY <1>1, <1>2 DEF BudgetOK
<1>4. r \notin sessions /\ overlapping' \in BOOLEAN /\ (overlapping => overlapping')
  BY <1>1, <1>2 DEF BudgetOK
<1>5. CASE Exhausted
  <2>1. new = [phase |-> "done", result |-> FALSE, exhausted |-> TRUE] /\ overlapping' = overlapping
    BY <1>1, <1>2, <1>5 DEF BudgetOK
  <2>2. ActiveRuns' \subseteq ActiveRuns
    BY <1>3, <2>1 DEF ActiveRuns
  <2>3. BudgetOK'
    BY <1>1, <1>2, <1>3, <1>4, <2>1, <2>2 DEF BudgetOK
  <2> QED
    BY <1>1, <2>3, OthersStay DEF ReasoningStrong
<1>6. CASE ~Exhausted
  <2>1. new = [phase |-> "working", remaining |-> MaxBudget - spentByTenant]
    BY <1>6 DEF Remaining
  <2>2. MaxBudget - spentByTenant \in 1..MaxBudget
    BY <1>2, <1>6, ReasoningAssumption DEF BudgetOK, Exhausted
  <2>3. ~overlapping' => ActiveRuns' = {r}
    <3>1. ~overlapping' => ActiveRuns = {}
      BY <1>1, <1>6
    <3>2. ActiveRuns' \subseteq ActiveRuns \cup {r} /\ r \in ActiveRuns'
      BY <1>3, <2>1 DEF ActiveRuns
    <3> QED
      BY <3>1, <3>2
  <2>4. \A q \in BudgetRuns \ {r} : ~overlapping' => budgetRun[q].phase # "working"
    BY <1>1, <1>6 DEF ActiveRuns
  <2>5. BudgetOK'
    <3>1. ASSUME NEW q \in BudgetRuns
          PROVE  \/ budgetRun'[q].phase = "idle" /\ q \notin sessions'
                 \/ /\ budgetRun'[q].phase = "working" /\ q \notin sessions'
                    /\ budgetRun'[q].remaining \in 1..MaxBudget
                    /\ ~overlapping' => /\ budgetRun'[q].remaining = MaxBudget - spentByTenant'
                                        /\ \A p \in ActiveRuns' : p = q
                 \/ /\ budgetRun'[q].phase = "done"
                    /\ budgetRun'[q].result \in BOOLEAN /\ (budgetRun'[q].result <=> q \in sessions')
                    /\ ~budgetRun'[q].exhausted => budgetRun'[q].result
      <4>1. CASE q = r
        BY <1>1, <1>3, <1>4, <2>1, <2>2, <2>3, <4>1
      <4>2. CASE q # r
        BY <1>1, <1>2, <1>3, <1>4, <2>4, <4>2 DEF BudgetOK
      <4> QED
        BY <4>1, <4>2
    <3> QED
      BY <1>1, <1>2, <1>3, <1>4, <3>1 DEF BudgetOK
  <2> QED
    BY <1>1, <2>5, OthersStay DEF ReasoningStrong
<1> QED
  BY <1>5, <1>6

LEMMA RejectKeeps ==
    ASSUME ReasoningStrong, NEW r \in BudgetRuns, WorkRejects(r)
    PROVE  ReasoningStrong'
<1> DEFINE new == [phase |-> "done", result |-> FALSE, exhausted |-> TRUE]
<1>1. /\ r \in ActiveRuns /\ budgetRun' = [budgetRun EXCEPT ![r] = new]
      /\ UNCHANGED <<spentByTenant, sessions, overlapping, excess, dual, stats>>
  BY DEF WorkRejects
<1>2. BudgetOK
  BY DEF ReasoningStrong
<1>3. budgetRun'[r] = new /\ DOMAIN budgetRun' = BudgetRuns /\ \A q \in BudgetRuns \ {r} : budgetRun'[q] = budgetRun[q]
  BY <1>1, <1>2 DEF BudgetOK
<1>4. r \notin sessions
  BY <1>1, <1>2 DEF BudgetOK, ActiveRuns
<1>5. ActiveRuns' \subseteq ActiveRuns
  BY <1>1, <1>3 DEF ActiveRuns
<1>6. BudgetOK'
  BY <1>1, <1>2, <1>3, <1>4, <1>5 DEF BudgetOK
<1> QED
  BY <1>1, <1>6, OthersStay DEF ReasoningStrong

LEMMA ResolveKeeps ==
    ASSUME ReasoningStrong, NEW r \in BudgetRuns, WorkResolves(r)
    PROVE  ReasoningStrong'
<1>1. PICK cost \in WorkCosts :
        /\ spentByTenant' = spentByTenant + cost /\ sessions' = sessions \cup {r}
        /\ excess' = IF cost <= budgetRun[r].remaining THEN excess
                     ELSE excess + (cost - budgetRun[r].remaining)
        /\ budgetRun' = [budgetRun EXCEPT ![r] =
               [phase |-> "done", result |-> TRUE, exhausted |-> spentByTenant + cost >= MaxBudget]]
  BY DEF WorkResolves
<1> DEFINE new == [phase |-> "done", result |-> TRUE, exhausted |-> spentByTenant + cost >= MaxBudget]
<1>2. BudgetOK /\ r \in ActiveRuns /\ UNCHANGED <<overlapping, dual, stats>>
  BY DEF ReasoningStrong, WorkResolves
<1>3. budgetRun'[r] = new /\ DOMAIN budgetRun' = BudgetRuns /\ \A q \in BudgetRuns \ {r} : budgetRun'[q] = budgetRun[q]
  BY <1>1, <1>2 DEF BudgetOK
<1>4. /\ r \notin sessions /\ budgetRun[r].remaining \in 1..MaxBudget
      /\ ~overlapping => /\ budgetRun[r].remaining = MaxBudget - spentByTenant
                         /\ \A q \in ActiveRuns : q = r
  BY <1>2 DEF BudgetOK, ActiveRuns
<1>5. /\ cost \in Nat /\ excess' \in Nat /\ excess \in Nat /\ cost <= MaxBudget + (excess' - excess)
      /\ ~overlapping => cost <= (MaxBudget - spentByTenant) + (excess' - excess)
  <2>1. excess \in Nat /\ cost \in Nat /\ MaxBudget \in Nat
    BY <1>2, ReasoningAssumption DEF BudgetOK
  <2> QED
    BY <1>1, <1>4, <2>1
<1>6. Cardinality(sessions') = Cardinality(sessions) + 1 /\ IsFiniteSet(sessions') /\ Cardinality(sessions) \in Nat
  BY <1>1, <1>2, <1>4, FS_AddElement, FS_CardinalityType DEF BudgetOK
<1>7. spentByTenant' <= MaxBudget * Cardinality(sessions') + excess' /\ spentByTenant' \in Nat
  <2>1. spentByTenant \in Nat /\ spentByTenant <= MaxBudget * Cardinality(sessions) + excess
    BY <1>2 DEF BudgetOK
  <2>2. MaxBudget * (Cardinality(sessions) + 1) = MaxBudget * Cardinality(sessions) + MaxBudget
    BY <1>6, ReasoningAssumption
  <2>3. MaxBudget * Cardinality(sessions) \in Nat /\ MaxBudget \in Nat
    BY <1>6, ReasoningAssumption
  <2> QED
    BY <1>1, <1>5, <1>6, <2>1, <2>2, <2>3
<1>8. ~overlapping' => spentByTenant' <= MaxBudget + excess'
  BY <1>1, <1>2, <1>5, ReasoningAssumption, SMTT(30) DEF BudgetOK
<1>9. ActiveRuns' = ActiveRuns \ {r}
  BY <1>2, <1>3 DEF ActiveRuns
<1>10. ASSUME NEW q \in BudgetRuns
       PROVE  \/ budgetRun'[q].phase = "idle" /\ q \notin sessions'
              \/ /\ budgetRun'[q].phase = "working" /\ q \notin sessions'
                 /\ budgetRun'[q].remaining \in 1..MaxBudget
                 /\ ~overlapping' => /\ budgetRun'[q].remaining = MaxBudget - spentByTenant'
                                     /\ \A p \in ActiveRuns' : p = q
              \/ /\ budgetRun'[q].phase = "done"
                 /\ budgetRun'[q].result \in BOOLEAN /\ (budgetRun'[q].result <=> q \in sessions')
                 /\ ~budgetRun'[q].exhausted => budgetRun'[q].result
  <2>1. CASE q = r
    BY <1>1, <1>3, <2>1
  <2>2. CASE q # r
    <3>1. budgetRun'[q] = budgetRun[q] /\ (q \in sessions' <=> q \in sessions)
      BY <1>1, <1>3, <2>2
    <3>2. budgetRun[q].phase = "working" => overlapping'
      BY <1>2, <1>4, <2>2 DEF ActiveRuns
    <3> QED
      BY <1>2, <3>1, <3>2 DEF BudgetOK
  <2> QED
    BY <2>1, <2>2
<1>11. BudgetOK'
  <2>1. sessions' \subseteq BudgetRuns /\ overlapping' \in BOOLEAN
    BY <1>1, <1>2 DEF BudgetOK
  <2> QED
    BY <1>3, <1>5, <1>6, <1>7, <1>8, <1>10, <2>1 DEF BudgetOK
<1> QED
  BY <1>2, <1>11, OthersStay DEF ReasoningStrong

LEMMA ChainKeeps == ReasoningStrong /\ ChainArrives => ReasoningStrong'
<1> SUFFICES ASSUME ReasoningStrong, ChainArrives PROVE ReasoningStrong'
  OBVIOUS
<1>1. BudgetOK /\ DualOK /\ ClaimsOK /\ UNCHANGED <<spentByTenant, sessions, budgetRun, overlapping, excess, stats>>
  BY DEF ReasoningStrong, ChainArrives
<1>2. CASE dual' = [dual EXCEPT !.phase = "rejected"]
  <2>1. dual' = [phase |-> "rejected", a |-> dual.a, b |-> dual.b]
    BY <1>1, <1>2 DEF DualOK
  <2>2. DualOK'
    BY <2>1 DEF DualOK
  <2> QED
    BY <1>1, <2>2, BudgetStays, OthersStay DEF ReasoningStrong
<1>3. ASSUME NEW chain \in Conclusions, NEW which \in {"a", "b"},
             LET arrived == [dual EXCEPT ![which] = chain]
             IN  dual' = IF NoChain \in {arrived.a, arrived.b} THEN arrived
                         ELSE [arrived EXCEPT !.phase = CompareChains(arrived.a, arrived.b)]
      PROVE  ReasoningStrong'
  <2>1. PICK a, b : [dual EXCEPT ![which] = chain] = [phase |-> dual.phase, a |-> a, b |-> b]
    <3>1. dual = [phase |-> dual.phase, a |-> dual.a, b |-> dual.b]
      BY <1>1 DEF DualOK
    <3>2. CASE which = "a"
      <4>1. [dual EXCEPT ![which] = chain] = [dual EXCEPT !.a = chain]
        BY <3>2
      <4>2. [dual EXCEPT !.a = chain] = [phase |-> dual.phase, a |-> chain, b |-> dual.b]
        BY <3>1
      <4> QED
        BY <4>1, <4>2
    <3>3. CASE which = "b"
      <4>1. [dual EXCEPT ![which] = chain] = [dual EXCEPT !.b = chain]
        BY <3>3
      <4>2. [dual EXCEPT !.b = chain] = [phase |-> dual.phase, a |-> dual.a, b |-> chain]
        BY <3>1
      <4> QED
        BY <4>1, <4>2
    <3> QED
      BY <3>2, <3>3
  <2>2. dual.phase = "generating"
    BY DEF ChainArrives
  <2>3. dual' = IF NoChain \in {a, b} THEN [phase |-> "generating", a |-> a, b |-> b]
                ELSE [phase |-> CompareChains(a, b), a |-> a, b |-> b]
    <3> DEFINE arrived == [dual EXCEPT ![which] = chain]
    <3>1. dual' = IF NoChain \in {arrived.a, arrived.b} THEN arrived
                  ELSE [arrived EXCEPT !.phase = CompareChains(arrived.a, arrived.b)]
      BY <1>3
    <3>2. arrived = [phase |-> "generating", a |-> a, b |-> b]
      BY <2>1, <2>2
    <3> HIDE DEF arrived
    <3> QED
      BY <3>1, <3>2
  <2>4. CompareChains(a, b) \in {"CONFLICT", "MERGED"}
    BY DEF CompareChains
  <2>5. DualOK'
    BY <2>3, <2>4 DEF DualOK
  <2> QED
    BY <1>1, <2>5, BudgetStays, OthersStay DEF ReasoningStrong
<1> QED
  BY <1>2, <1>3 DEF ChainArrives

LEMMA ClaimsKeep == ReasoningStrong /\ ValidateClaims => ReasoningStrong'
<1> SUFFICES ASSUME ReasoningStrong, ValidateClaims PROVE ReasoningStrong'
  OBVIOUS
<1>1. PICK claims \in ClaimOutcomes, confidence \in Confidences :
        stats' = [total |-> stats.total + Len(claims), unverified |-> stats.unverified + Unverified(claims),
                  original |-> confidence, adjusted |-> FoldLeft(Reduced, confidence, claims),
                  last |-> claims]
  BY DEF ValidateClaims
<1>2. BudgetOK /\ DualOK /\ ClaimsOK /\ UNCHANGED <<spentByTenant, sessions, budgetRun, overlapping, excess, dual>>
  BY DEF ReasoningStrong, ValidateClaims
<1>3. claims \in Seq(BOOLEAN) /\ confidence \in Nat
  BY ReasoningAssumption
<1>4. FoldLeft(Reduced, confidence, claims) = Left(confidence, Unverified(claims))
  BY <1>3, FoldIsLeft
<1>5. Unverified(claims) \in Nat /\ Unverified(claims) <= Len(claims) /\ Len(claims) \in Nat
  BY <1>3, UnverifiedFacts
<1>6. /\ stats'.total = stats.total + Len(claims) /\ stats'.unverified = stats.unverified + Unverified(claims)
      /\ stats'.original = confidence /\ stats'.adjusted = Left(confidence, Unverified(claims))
      /\ stats'.last = claims
  BY <1>1, <1>4
<1>7. ClaimsOK'
  <2>1. stats.total \in Nat /\ stats.unverified \in 0..stats.total
    BY <1>2 DEF ClaimsOK
  <2>2. stats'.total \in Nat /\ stats'.unverified \in 0..stats'.total
    BY <1>5, <1>6, <2>1
  <2> QED
    BY <1>6, <2>2 DEF ClaimsOK, ConfidenceIsReduced, Left
<1> QED
  BY <1>2, <1>7, BudgetStays, OthersStay DEF ReasoningStrong

LEMMA ReasoningIdle == ReasoningStrong /\ UNCHANGED reasoningVars => ReasoningStrong'
  BY BudgetStays, OthersStay DEF ReasoningStrong, reasoningVars

LEMMA ReasoningStep ==
    ReasoningStrong /\ [CostNext \/ ChainArrives \/ ValidateClaims]_reasoningVars => ReasoningStrong'
  BY ReasoningIdle, StartKeeps, ResolveKeeps, RejectKeeps, ChainKeeps, ClaimsKeep DEF CostNext

\* The formulas of routing.
LEMMA RoutingMonotone == RoutingIsMonotone
<1>1. Rank("FAST") = 1 /\ Rank("MEDIUM") = 2 /\ Rank("DEEP") = 3
  BY DEF Rank
<1>2. /\ ModelRank("fast-model-v1") = 1 /\ ModelRank("medium-model-v1") = 2
      /\ ModelRank("deep-model-v1") = 3
  BY DEF ModelRank
<1>3. ASSUME NEW s \in Tasks, NEW t \in Tasks,
             s.risk <= t.risk, s.impact <= t.impact, s.factor <= t.factor
      PROVE  Rank(Route(s)) <= Rank(Route(t))
  <2>1. /\ s.risk \in Nat /\ s.impact \in Nat /\ s.factor \in Nat
        /\ t.risk \in Nat /\ t.impact \in Nat /\ t.factor \in Nat
    <3>1. /\ s.risk \in Signals /\ s.impact \in Impacts /\ s.factor \in Signals
          /\ t.risk \in Signals /\ t.impact \in Impacts /\ t.factor \in Signals
      BY DEF Tasks
    <3>2. Impacts \subseteq Nat /\ Signals \subseteq Nat
      BY ReasoningAssumption
    <3> QED
      BY <3>1, <3>2
  <2>2. (s.impact * 100) \div 500 <= (t.impact * 100) \div 500
    BY <1>3, <2>1
  <2>3. Composite(s) <= Composite(t) /\ Composite(s) \in Int /\ Composite(t) \in Int
    BY <1>3, <2>1, <2>2 DEF Composite, Lesser
  <2> QED
    BY <1>1, <1>3, <2>1, <2>3 DEF Route
<1>4. ASSUME NEW tier \in {"FAST", "MEDIUM", "DEEP"}, NEW x \in Remainders, NEW y \in Remainders, x <= y
      PROVE  ModelRank(SelectProvider(tier, x)) <= ModelRank(SelectProvider(tier, y))
  <2>1. x \in Nat /\ y \in Nat
    BY ReasoningAssumption
  <2> QED
    BY <1>2, <1>4, <2>1 DEF SelectProvider
<1> QED
  BY <1>3, <1>4 DEF RoutingIsMonotone

LEMMA ReasoningImplies == ReasoningStrong => ReasoningInv
<1> SUFFICES ASSUME ReasoningStrong PROVE ReasoningInv
  OBVIOUS
<1>1. BudgetOK /\ DualOK /\ ClaimsOK
  BY DEF ReasoningStrong
<1>2. BudgetHolds /\ ResultIsCounted
  BY <1>1 DEF BudgetOK, BudgetHolds, ResultIsCounted, ActiveRuns
<1>3. OppositesConflict
  <2>1. ASSUME NEW a, NEW b, CompareChains(a, b) = "MERGED", NEW pair \in NegationPairs
        PROVE  ~Opposed(pair, a, b) /\ ~Opposed(pair, b, a)
    <3>1. Contradictions(a, b) = {}
      BY <2>1 DEF CompareChains
    <3>2. CASE a = b
      BY <3>2 DEF Opposed
    <3>3. CASE a # b
      BY <3>1, <3>3 DEF Contradictions, Opposed
    <3> QED
      BY <3>2, <3>3
  <2> QED
    BY <1>1, <2>1 DEF OppositesConflict, DualOK
<1>4. HallucinationRate \in 0..100
  <2> DEFINE t == stats.total
             u == stats.unverified
  <2>1. t \in Nat /\ u \in Nat /\ u <= t
    BY <1>1 DEF ClaimsOK
  <2> HIDE DEF t, u
  <2>2. ASSUME t > 0 PROVE (100 * u) \div t \in 0..100
    BY <2>1, <2>2, SMTT(30)
  <2> QED
    BY <2>2 DEF HallucinationRate, t, u
<1>5. ReasoningTypeOK
  BY <1>1, <1>4 DEF ReasoningTypeOK, BudgetOK, DualOK
<1> QED
  BY <1>1, <1>2, <1>3, <1>5, RoutingMonotone DEF ReasoningInv, ClaimsOK

-----------------------------------------------------------------------------
(***************************************************************************)
(* The Redis stores: one invariant for each store.                         *)
(***************************************************************************)
\* An over-limit window has a call that was told so, or one that is not to be told.
Told(c) ==
    \/ adder[c].phase \in {"summing", "rejected"}
    \/ adder[c].phase = "done" /\ adder[c].limitExceeded

DowStoreStrong ==
    /\ storeTick \in 0..MaxHour /\ DOMAIN bucket = 0..MaxHour /\ DOMAIN adder = Adders
    /\ \A h \in 0..MaxHour : bucket[h] \in Nat /\ (h > storeTick => bucket[h] = 0)
    /\ \A c \in Adders : adder[c].phase \in {"idle", "summing", "done", "rejected"}
    /\ RollingSum(storeTick) > LimitUsd => \E c \in Adders : Told(c)

\* What a mark has read is as recent as the record, unless it was overtaken.
HealthOK(r) == r # Absent => r.figures \in 0..beats
Latest(r) == r # Absent => r.figures \in {beats, 0}

HealthStrong ==
    /\ beats \in 0..MaxBeats /\ overtaken \in BOOLEAN /\ DOMAIN marker = Markers
    /\ HealthOK(record) /\ \A c \in Markers : marker[c].phase = "read" => HealthOK(marker[c].existing)
    /\ ~overtaken =>
        /\ Latest(record)
        /\ \A c \in Markers : marker[c].phase = "read" => Latest(marker[c].existing)

\* A plan that was there when the invalidation began is among its keys until it is deleted.
InvalidatorOK ==
    \/ invalidator = AtRest
    \/ /\ invalidator = [phase |-> invalidator.phase, resource |-> invalidator.resource, keys |-> invalidator.keys]
       /\ invalidator.phase \in {"scanned", "read", "done"}

PlanStrong ==
    /\ plans \subseteq CacheKeys /\ InvalidatorOK
    /\ invalidator.phase = "scanned" => \A k \in plans \ restored : k \in invalidator.keys
    /\ invalidator.phase = "read" =>
        \A k \in plans \ restored : CacheResource[k] = invalidator.resource => k \in invalidator.keys
    /\ InvalidatedIsGone

TwinStrong ==
    /\ twins \subseteq TwinKeys
    /\ reader = AtRest \/ reader = [phase |-> reader.phase, keys |-> reader.keys]
    /\ reader.phase = "scanned" => steady \subseteq reader.keys \cap twins
    /\ SteadyIsReturned

\* Unless closes of it overlapped, the one call that closes a module's client closes the
\* client that the module hands out.
CloserOK(c) ==
    \/ closer[c] = AtRest
    \/ /\ closer[c] = [phase |-> "closing", module |-> closer[c].module, of |-> closer[c].of]
       /\ closer[c].module \in Modules

ModuleOK(k) ==
    /\ opened[k] \in Nat /\ client[k] \in 0..opened[k] /\ open[k] \subseteq 1..opened[k]
    /\ overlapped[k] \in BOOLEAN
    /\ ~overlapped[k] =>
        /\ open[k] \subseteq {client[k]}
        /\ \A c \in Closing(k) : closer[c].of = client[k] /\ client[k] # 0
        /\ \A c, d \in Closing(k) : c = d

SingletonStrong ==
    /\ DOMAIN closer = Closers /\ \A c \in Closers : CloserOK(c)
    /\ DOMAIN opened = Modules /\ DOMAIN client = Modules /\ DOMAIN open = Modules /\ DOMAIN overlapped = Modules
    /\ \A k \in Modules : ModuleOK(k)

StoresStrong == DowStoreStrong /\ HealthStrong /\ PlanStrong /\ TwinStrong /\ SingletonStrong

-----------------------------------------------------------------------------
\* The spending of the window is the sum over its buckets, by either definition.
Windowed == [h \in 0..MaxHour |-> IF h <= storeTick /\ h > storeTick - WindowHours THEN bucket[h] ELSE 0]

LEMMA HoursAre ==
    ASSUME NEW now \in 0..MaxHour
    PROVE  SummedHours(now) \subseteq 0..MaxHour /\ IsFiniteSet(SummedHours(now)) /\ IsFiniteSet(0..MaxHour)
<1>1. SummedHours(now) \subseteq 0..MaxHour
  BY StoresAssumption DEF SummedHours
<1>2. IsFiniteSet(0..MaxHour)
  BY StoresAssumption, FS_Interval
<1> QED
  BY <1>1, <1>2, FS_Subset

LEMMA SpendIsRolling ==
    ASSUME storeTick \in 0..MaxHour, \A h \in 0..MaxHour : bucket[h] \in Nat
    PROVE  Spend = RollingSum(storeTick)
<1> DEFINE H == 0..MaxHour
           W == SummedHours(storeTick)
           Value(h) == IF h <= storeTick /\ h > storeTick - WindowHours THEN bucket[h] ELSE 0
<1>1. W \subseteq H /\ IsFiniteSet(W) /\ IsFiniteSet(H) /\ IsFiniteSet(H \ W)
  BY HoursAre, FS_Subset
<1>2. \A h \in H : Windowed[h] = Value(h) /\ Windowed[h] \in Int
  BY DEF Windowed
<1>3. (\A h \in W : Windowed[h] = bucket[h]) /\ (\A h \in H \ W : Windowed[h] = 0)
  BY StoresAssumption DEF Windowed, SummedHours
<1>4. Spend = SumOver(Windowed, H)
  <2> DEFINE SumsValue(g) == g = [T \in SUBSET H |-> IF T = {} THEN 0 ELSE Value(One(T)) + g[T \ {One(T)}]]
             m == CHOOSE g : SumsValue(g)
  <2>1. \A T \in SUBSET H : T # {} => Windowed[One(T)] = Value(One(T))
    BY <1>2 DEF One
  <2>2. ASSUME NEW g PROVE IsSum(g, Windowed, H) <=> SumsValue(g)
    <3> DEFINE F == [T \in SUBSET H |-> IF T = {} THEN 0 ELSE Windowed[One(T)] + g[T \ {One(T)}]]
               G == [T \in SUBSET H |-> IF T = {} THEN 0 ELSE Value(One(T)) + g[T \ {One(T)}]]
    <3>1. F = G
      BY <2>1
    <3> QED
      BY <3>1 DEF IsSum
  <2>3. SumsValue(m)
    BY <1>1, <2>2, SumExists
  <2>4. Spend = m[H]
    BY DEF Spend, MapThenSumSet, MapThenFoldSet, One
  <2>5. PICK g : IsSum(g, Windowed, H) /\ SumOver(Windowed, H) = g[H]
    BY <1>1, SumOverIsSum
  <2> HIDE DEF m, SumsValue
  <2>6. m[H] = g[H]
    BY <1>1, <2>2, <2>3, <2>5, SumIsUnique
  <2> QED
    BY <2>4, <2>5, <2>6
<1>5. SumOver(Windowed, H) = SumOver(Windowed, W) + SumOver(Windowed, H \ W)
  <2>1. W \cup (H \ W) = H /\ W \cap (H \ W) = {}
    BY <1>1
  <2>2. SumOver(Windowed, W \cup (H \ W)) = SumOver(Windowed, W) + SumOver(Windowed, H \ W)
    BY <1>1, <1>2, <2>1, SumUnion
  <2> QED
    BY <2>1, <2>2
<1>6. SumOver(Windowed, H \ W) = 0
  BY <1>1, <1>3, SumZero
<1>7. SumOver(Windowed, W) = SumOver(bucket, W) /\ SumOver(bucket, W) \in Int
  <2>1. \A h \in W : bucket[h] \in Int
    BY <1>1
  <2> QED
    BY <1>1, <1>3, <2>1, SumSame, SumInt
<1>8. RollingSum(storeTick) = SumOver(bucket, W)
  BY DEF RollingSum, SumOver
<1> QED
  BY <1>4, <1>5, <1>6, <1>7, <1>8

\* The rolling sum as a sum of SetSums, now and after a step.
LEMMA RollingIs ==
    /\ RollingSum(storeTick) = SumOver(bucket, SummedHours(storeTick))
    /\ RollingSum(storeTick)' = SumOver(bucket', SummedHours(storeTick'))
<1>1. RollingSum(storeTick) = SumOver(bucket, SummedHours(storeTick))
  BY DEF RollingSum, SumOver
<1>2. RollingSum(storeTick)' = SumOver(bucket', SummedHours(storeTick'))
  BY DEF RollingSum, SumOver, SummedHours, MapThenSumSet, MapThenFoldSet
<1> QED
  BY <1>1, <1>2

\* The sum of a later window, the new hours of which are empty, is no greater.
LEMMA RollsOut ==
    ASSUME DowStoreStrong, StoreTick
    PROVE  RollingSum(storeTick)' <= RollingSum(storeTick)
<1> DEFINE now == storeTick
           V == SummedHours(now)
           W == SummedHours(now + 1)
<1>1. now \in 0..MaxHour /\ now + 1 \in 0..MaxHour /\ storeTick' = now + 1 /\ bucket' = bucket
  BY StoresAssumption DEF DowStoreStrong, StoreTick, dowStoreVars
<1>2. \A h \in 0..MaxHour : bucket[h] \in Nat /\ (h > now => bucket[h] = 0)
  BY DEF DowStoreStrong
<1>3. /\ V \subseteq 0..MaxHour /\ W \subseteq 0..MaxHour
      /\ IsFiniteSet(V) /\ IsFiniteSet(W)
  BY <1>1, HoursAre
<1>4. W \ {now + 1} \subseteq V
  BY <1>1, StoresAssumption DEF SummedHours
<1>5. now + 1 \in W
  BY <1>1, StoresAssumption DEF SummedHours
<1>6. SumOver(bucket, W) = bucket[now + 1] + SumOver(bucket, W \ {now + 1})
  <2>1. \A h \in W : bucket[h] \in Int
    BY <1>2, <1>3
  <2> QED
    BY <1>3, <1>5, <2>1, SumRemove
<1>7. SumOver(bucket, W \ {now + 1}) <= SumOver(bucket, V)
  <2>1. \A h \in V : bucket[h] \in Nat
    BY <1>2, <1>3
  <2> QED
    BY <1>3, <1>4, <2>1, SumMonotone
<1>8. SumOver(bucket, W \ {now + 1}) \in Nat /\ SumOver(bucket, V) \in Nat
  <2>1. IsFiniteSet(W \ {now + 1}) /\ (\A h \in W \ {now + 1} : bucket[h] \in Nat) /\ \A h \in V : bucket[h] \in Nat
    BY <1>2, <1>3, FS_Subset
  <2> QED
    BY <1>3, <2>1, SumNat
<1>9. bucket[now + 1] = 0
  BY <1>1, <1>2
<1>10. RollingSum(storeTick) = SumOver(bucket, V)
  BY RollingIs
<1>11. RollingSum(storeTick)' = SumOver(bucket, W)
  BY <1>1, RollingIs
<1> HIDE DEF V, W
<1> QED
  BY <1>6, <1>7, <1>8, <1>9, <1>10, <1>11

\* A reset empties the window.
LEMMA ResetEmpties ==
    ASSUME DowStoreStrong, ResetSpend
    PROVE  RollingSum(storeTick)' = 0
<1> DEFINE W == SummedHours(storeTick)
<1>1. storeTick' = storeTick /\ storeTick \in 0..MaxHour
  BY DEF DowStoreStrong, ResetSpend
<1>2. W \subseteq 0..MaxHour /\ IsFiniteSet(W)
  BY <1>1, HoursAre
<1>3. \A h \in W : bucket'[h] = 0
  BY <1>2 DEF ResetSpend
<1>4. SumOver(bucket', W) = 0
  BY <1>2, <1>3, SumZero
<1>5. RollingSum(storeTick)' = SumOver(bucket', W)
  BY <1>1, RollingIs
<1> QED
  BY <1>4, <1>5

LEMMA DowStoreInitial == StoresInit => DowStoreStrong
<1> SUFFICES ASSUME StoresInit PROVE DowStoreStrong
  OBVIOUS
<1>1. /\ storeTick = 0 /\ bucket = [h \in 0..MaxHour |-> 0] /\ adder = [c \in Adders |-> AtRest]
      /\ 0 \in 0..MaxHour
  BY StoresAssumption DEF StoresInit
<1>2. RollingSum(storeTick) = 0
  <2>1. SummedHours(storeTick) \subseteq 0..MaxHour /\ IsFiniteSet(SummedHours(storeTick))
    BY <1>1, HoursAre
  <2>2. \A h \in SummedHours(storeTick) : bucket[h] = 0
    BY <1>1, <2>1
  <2>3. SumOver(bucket, SummedHours(storeTick)) = 0
    BY <2>1, <2>2, SumZero
  <2> QED
    BY <2>3 DEF RollingSum, SumOver
<1>3. ~(RollingSum(storeTick) > LimitUsd)
  BY <1>2, StoresAssumption
<1>4. \A h \in 0..MaxHour : bucket[h] \in Nat /\ (h > storeTick => bucket[h] = 0)
  BY <1>1
<1>5. \A c \in Adders : adder[c].phase \in {"idle", "summing", "done", "rejected"}
  BY <1>1 DEF AtRest
<1> QED
  BY <1>1, <1>3, <1>4, <1>5 DEF DowStoreStrong

LEMMA DowStoreStep ==
    ASSUME DowStoreStrong, DowStoreNext
    PROVE  DowStoreStrong'
<1>1. /\ storeTick \in 0..MaxHour /\ DOMAIN bucket = 0..MaxHour /\ DOMAIN adder = Adders
      /\ \A h \in 0..MaxHour : bucket[h] \in Nat /\ (h > storeTick => bucket[h] = 0)
      /\ \A c \in Adders : adder[c].phase \in {"idle", "summing", "done", "rejected"}
      /\ RollingSum(storeTick) > LimitUsd => \E c \in Adders : Told(c)
  BY DEF DowStoreStrong
<1>2. ASSUME NEW c \in Adders, AddIncrements(c) PROVE DowStoreStrong'
  <2>1. /\ adder' = [adder EXCEPT ![c] = [phase |-> "summing"]] /\ storeTick' = storeTick
        /\ \E amount \in AddAmounts : bucket' \in {bucket, [bucket EXCEPT ![storeTick] = @ + amount]}
    BY <1>2 DEF AddIncrements
  <2>2. DOMAIN adder' = Adders /\ (\A d \in Adders : adder'[d].phase \in {"idle", "summing", "done", "rejected"}) /\ Told(c)'
    BY <1>1, <2>1 DEF Told
  <2>3. DOMAIN bucket' = 0..MaxHour /\ \A h \in 0..MaxHour : bucket'[h] \in Nat /\ (h > storeTick => bucket'[h] = 0)
    <3>1. PICK amount \in AddAmounts : bucket' \in {bucket, [bucket EXCEPT ![storeTick] = @ + amount]}
      BY <2>1
    <3>2. amount \in Nat
      BY StoresAssumption
    <3>3. CASE bucket' = bucket
      BY <1>1, <3>3
    <3>4. CASE bucket' = [bucket EXCEPT ![storeTick] = @ + amount]
      <4>1. bucket[storeTick] + amount \in Nat
        BY <1>1, <3>2
      <4>2. ~(storeTick > storeTick)
        BY <1>1
      <4> QED
        BY <1>1, <3>4, <4>1, <4>2
    <3> QED
      BY <3>1, <3>3, <3>4
  <2> QED
    BY <1>1, <2>1, <2>2, <2>3 DEF DowStoreStrong
<1>3. ASSUME NEW c \in Adders, AddAnswers(c) PROVE DowStoreStrong'
  <2>1. storeTick' = storeTick /\ bucket' = bucket
    BY <1>3 DEF AddAnswers
  <2>2. RollingSum(storeTick)' = RollingSum(storeTick)
    BY <2>1, RollingIs
  <2>3. \/ adder' = [adder EXCEPT ![c] = [phase |-> "done", newTotal |-> RollingSum(storeTick), limitExceeded |-> RollingSum(storeTick) > LimitUsd]]
        \/ adder' = [adder EXCEPT ![c] = [phase |-> "rejected"]]
    BY <1>3 DEF AddAnswers
  <2>4. DOMAIN adder' = Adders /\ (\A d \in Adders : adder'[d].phase \in {"idle", "summing", "done", "rejected"})
    BY <1>1, <2>3
  <2>5. RollingSum(storeTick) > LimitUsd => Told(c)'
    <3> DEFINE R == RollingSum(storeTick)
               flag == R > LimitUsd
    <3>1. \/ adder'[c] = [phase |-> "done", newTotal |-> R, limitExceeded |-> flag]
          \/ adder'[c] = [phase |-> "rejected"]
      BY <1>1, <2>3
    <3>2. flag => \/ adder'[c].phase = "done" /\ adder'[c].limitExceeded
                  \/ adder'[c].phase = "rejected"
      <4> HIDE DEF R, flag
      <4> QED
        BY <3>1
    <3> QED
      BY <3>2 DEF Told
  <2> QED
    BY <1>1, <2>1, <2>2, <2>4, <2>5 DEF DowStoreStrong
<1>4. CASE ResetSpend
  <2>1. /\ storeTick' = storeTick /\ adder' = adder
        /\ bucket' = [h \in 0..MaxHour |-> IF h \in SummedHours(storeTick) THEN 0 ELSE bucket[h]]
    BY <1>4 DEF ResetSpend
  <2>2. ~(RollingSum(storeTick)' > LimitUsd)
    BY <1>4, ResetEmpties, StoresAssumption
  <2>3. DOMAIN bucket' = 0..MaxHour /\ \A h \in 0..MaxHour : bucket'[h] \in Nat /\ (h > storeTick => bucket'[h] = 0)
    BY <1>1, <2>1
  <2> QED
    BY <1>1, <2>1, <2>2, <2>3 DEF DowStoreStrong
<1>5. CASE StoreTick
  <2>1. storeTick' = storeTick + 1 /\ storeTick' \in 0..MaxHour /\ bucket' = bucket /\ adder' = adder
    BY <1>1, <1>5, StoresAssumption DEF StoreTick, dowStoreVars
  <2>2. \A x, y \in Int : x <= y /\ x > LimitUsd => y > LimitUsd
    BY StoresAssumption
  <2>3. RollingSum(storeTick) \in Int /\ RollingSum(storeTick)' \in Int
    <3>1. \A now \in 0..MaxHour : SummedHours(now) \subseteq 0..MaxHour /\ IsFiniteSet(SummedHours(now))
      BY HoursAre
    <3>2. \A now \in 0..MaxHour : \A h \in SummedHours(now) : bucket[h] \in Int
      BY <1>1, <3>1
    <3>3. \A now \in 0..MaxHour : SumOver(bucket, SummedHours(now)) \in Int
      BY <3>1, <3>2, SumInt
    <3>4. RollingSum(storeTick) = SumOver(bucket, SummedHours(storeTick))
      BY RollingIs
    <3>5. RollingSum(storeTick)' = SumOver(bucket, SummedHours(storeTick'))
      BY <2>1, RollingIs
    <3> QED
      BY <1>1, <2>1, <3>3, <3>4, <3>5
  <2>4. RollingSum(storeTick)' > LimitUsd => \E c \in Adders : Told(c)'
    <3>1. RollingSum(storeTick)' > LimitUsd => RollingSum(storeTick) > LimitUsd
      BY <1>5, <2>2, <2>3, RollsOut
    <3>2. \A c \in Adders : Told(c)' <=> Told(c)
      BY <2>1 DEF Told
    <3> QED
      BY <1>1, <3>1, <3>2
  <2>5. \A h \in 0..MaxHour : h > storeTick' => bucket[h] = 0
    BY <1>1, <2>1
  <2> QED
    BY <1>1, <2>1, <2>4, <2>5 DEF DowStoreStrong
<1> QED
  BY <1>2, <1>3, <1>4, <1>5 DEF DowStoreNext

LEMMA HealthInitial == StoresInit => HealthStrong
<1> SUFFICES ASSUME StoresInit PROVE HealthStrong
  OBVIOUS
<1>1. record = Absent /\ beats = 0 /\ overtaken = FALSE /\ marker = [c \in Markers |-> AtRest]
  BY DEF StoresInit
<1>2. \A c \in Markers : marker[c].phase # "read"
  BY <1>1 DEF AtRest
<1>3. HealthOK(record) /\ Latest(record)
  BY <1>1 DEF HealthOK, Latest
<1>4. beats \in 0..MaxBeats /\ overtaken \in BOOLEAN /\ DOMAIN marker = Markers
  <2>1. 0 \in 0..MaxBeats
    BY StoresAssumption
  <2> QED
    BY <1>1, <2>1
<1> QED
  BY <1>2, <1>3, <1>4 DEF HealthStrong

LEMMA HealthStep ==
    ASSUME HealthStrong, Heartbeat \/ \E c \in Markers : MarkReads(c) \/ MarkWrites(c)
    PROVE  HealthStrong'
<1>1. /\ beats \in 0..MaxBeats /\ overtaken \in BOOLEAN /\ DOMAIN marker = Markers
      /\ HealthOK(record) /\ \A c \in Markers : marker[c].phase = "read" => HealthOK(marker[c].existing)
      /\ ~overtaken =>
          /\ Latest(record)
          /\ \A c \in Markers : marker[c].phase = "read" => Latest(marker[c].existing)
  BY DEF HealthStrong
<1>2. CASE Heartbeat
  <2>1. /\ beats' = beats + 1 /\ beats < MaxBeats /\ marker' = marker
        /\ overtaken' = (overtaken \/ \E c \in Markers : marker[c].phase = "read")
    BY <1>2 DEF Heartbeat
  <2>2. record'.figures = beats'
    BY <1>2 DEF Heartbeat, SetHealth
  <2>3. beats' \in 0..MaxBeats /\ \A n \in 0..beats : n \in 0..beats'
    BY <1>1, <2>1, StoresAssumption
  <2>4. HealthOK(record)' /\ Latest(record)'
    BY <2>2, <2>3 DEF HealthOK, Latest
  <2>5. \A c \in Markers : marker[c].phase = "read" => HealthOK(marker[c].existing)'
    BY <1>1, <2>1, <2>3 DEF HealthOK
  <2>6. overtaken' \in BOOLEAN
    BY <2>1, <1>1
  <2>7. ~overtaken' => \A c \in Markers : marker[c].phase # "read"
    BY <2>1
  <2> QED
    BY <1>1, <2>1, <2>3, <2>4, <2>5, <2>6, <2>7 DEF HealthStrong
<1>3. ASSUME NEW c \in Markers, MarkReads(c) PROVE HealthStrong'
  <2>1. /\ marker' = [marker EXCEPT ![c] = [phase |-> "read", existing |-> GetHealth]]
        /\ UNCHANGED <<record, beats, overtaken>>
    BY <1>3 DEF MarkReads
  <2>2. GetHealth = Absent \/ GetHealth = record
    BY DEF GetHealth
  <2>3. marker'[c].existing = GetHealth /\ \A d \in Markers \ {c} : marker'[d] = marker[d]
    BY <1>1, <2>1
  <2>4. HealthOK(GetHealth) /\ (~overtaken => Latest(GetHealth))
    BY <1>1, <2>2 DEF HealthOK, Latest
  <2>5. DOMAIN marker' = Markers
    BY <1>1, <2>1
  <2>6. \A d \in Markers : marker'[d].phase = "read" =>
            HealthOK(marker'[d].existing) /\ (~overtaken => Latest(marker'[d].existing))
    BY <1>1, <2>3, <2>4
  <2>7. \A r : (HealthOK(r)' <=> HealthOK(r)) /\ (Latest(r)' <=> Latest(r))
    BY <2>1 DEF HealthOK, Latest
  <2> QED
    BY <1>1, <2>1, <2>5, <2>6, <2>7 DEF HealthStrong, HealthOK, Latest
<1>4. ASSUME NEW c \in Markers, MarkWrites(c) PROVE HealthStrong'
  <2> DEFINE figures == IF marker[c].existing = Absent THEN 0 ELSE marker[c].existing.figures
  <2>1. /\ marker' = [marker EXCEPT ![c] = [phase |-> "done"]] /\ UNCHANGED <<beats, overtaken>>
        /\ record'.figures = figures /\ marker[c].phase = "read"
    BY <1>4 DEF MarkWrites, SetHealth
  <2>2. figures \in 0..beats /\ (~overtaken => figures \in {beats, 0})
    <3>1. HealthOK(marker[c].existing) /\ (~overtaken => Latest(marker[c].existing))
      BY <1>1, <2>1
    <3>2. 0 \in 0..beats
      BY <1>1
    <3> QED
      BY <3>1, <3>2 DEF HealthOK, Latest
  <2>3. HealthOK(record)' /\ (~overtaken' => Latest(record)')
    BY <2>1, <2>2 DEF HealthOK, Latest
  <2>4. \A d \in Markers : marker'[d].phase = "read" => marker'[d] = marker[d]
    BY <1>1, <2>1
  <2>5. DOMAIN marker' = Markers
    BY <1>1, <2>1
  <2> QED
    BY <1>1, <2>1, <2>3, <2>4, <2>5 DEF HealthStrong, HealthOK, Latest
<1> QED
  BY <1>2, <1>3, <1>4

LEMMA PlanInitial == StoresInit => PlanStrong
  BY DEF StoresInit, PlanStrong, InvalidatorOK, InvalidatedIsGone, AtRest

LEMMA PlanStep ==
    ASSUME PlanStrong, PlanNext
    PROVE  PlanStrong'
<1>1. ASSUME NEW k \in CacheKeys, StorePlan(k) PROVE PlanStrong'
  BY <1>1 DEF StorePlan, PlanStrong, InvalidatorOK, InvalidatedIsGone
<1>2. ASSUME NEW k \in CacheKeys, InvalidateScans(CacheResource[k]) PROVE PlanStrong'
  BY <1>2 DEF InvalidateScans, PlanStrong, InvalidatorOK, InvalidatedIsGone
<1>3. CASE InvalidateReads
  <2>1. /\ invalidator = [phase |-> "scanned", resource |-> invalidator.resource, keys |-> invalidator.keys]
        /\ UNCHANGED <<plans, restored>> /\ plans \subseteq CacheKeys
        /\ \A k \in plans \ restored : k \in invalidator.keys
    BY <1>3 DEF InvalidateReads, PlanStrong, InvalidatorOK, AtRest
  <2>2. invalidator' = [phase |-> "read", resource |-> invalidator.resource,
                        keys |-> {k \in invalidator.keys : Lookup(k) /\ CacheResource[k] = invalidator.resource}]
    BY <1>3, <2>1 DEF InvalidateReads
  <2>3. \A k \in plans : Lookup(k)
    BY DEF Lookup
  <2> QED
    BY <2>1, <2>2, <2>3 DEF PlanStrong, InvalidatorOK, InvalidatedIsGone
<1>4. CASE InvalidateDeletes
  <2>1. /\ invalidator = [phase |-> "read", resource |-> invalidator.resource, keys |-> invalidator.keys]
        /\ plans' = plans \ invalidator.keys /\ restored' = restored /\ plans \subseteq CacheKeys
        /\ \A k \in plans \ restored : CacheResource[k] = invalidator.resource => k \in invalidator.keys
    BY <1>4 DEF InvalidateDeletes, PlanStrong, InvalidatorOK, AtRest
  <2>2. invalidator' = [phase |-> "done", resource |-> invalidator.resource, keys |-> invalidator.keys]
    BY <1>4, <2>1 DEF InvalidateDeletes
  <2> QED
    BY <2>1, <2>2 DEF PlanStrong, InvalidatorOK, InvalidatedIsGone
<1> QED
  BY <1>1, <1>2, <1>3, <1>4 DEF PlanNext

LEMMA TwinInitial == StoresInit => TwinStrong
  BY DEF StoresInit, TwinStrong, SteadyIsReturned, AtRest

LEMMA TwinStep ==
    ASSUME TwinStrong, TwinNext
    PROVE  TwinStrong'
<1>1. CASE SnapshotsScanned
  BY <1>1 DEF SnapshotsScanned, TwinStrong, SteadyIsReturned
<1>2. CASE SnapshotsRead
  BY <1>2 DEF SnapshotsRead, TwinStrong, SteadyIsReturned
<1>3. ASSUME NEW k \in TwinKeys, SetOrDeleteSnapshot(k) PROVE TwinStrong'
  BY <1>3 DEF SetOrDeleteSnapshot, TwinStrong, SteadyIsReturned
<1> QED
  BY <1>1, <1>2, <1>3 DEF TwinNext

LEMMA SingletonInitial == StoresInit => SingletonStrong
<1> SUFFICES ASSUME StoresInit PROVE SingletonStrong
  OBVIOUS
<1>1. /\ client = [k \in Modules |-> 0] /\ opened = client /\ open = [k \in Modules |-> {}]
      /\ closer = [c \in Closers |-> AtRest] /\ overlapped = [k \in Modules |-> FALSE]
  BY DEF StoresInit
<1>2. \A k \in Modules : Closing(k) = {}
  BY <1>1 DEF Closing, AtRest
<1>3. ASSUME NEW k \in Modules PROVE ModuleOK(k)
  BY <1>1, <1>2 DEF ModuleOK
<1> QED
  BY <1>1, <1>3 DEF SingletonStrong, CloserOK

\* A module whose client and calls did not change stays as it was.
LEMMA ModuleStays ==
    ASSUME NEW k \in Modules, ModuleOK(k), opened'[k] = opened[k], client'[k] = client[k],
           open'[k] = open[k], overlapped'[k] = overlapped[k],
           \A c \in Closers : (c \in Closing(k)' => c \in Closing(k) /\ closer'[c] = closer[c])
    PROVE  ModuleOK(k)'
<1>1. Closing(k)' \subseteq Closing(k) /\ \A c \in Closing(k)' : closer'[c] = closer[c]
  BY DEF Closing
<1> QED
  BY <1>1 DEF ModuleOK

LEMMA SingletonStep ==
    ASSUME SingletonStrong, SingletonNext
    PROVE  SingletonStrong'
<1>1. /\ DOMAIN closer = Closers /\ \A c \in Closers : CloserOK(c)
      /\ DOMAIN opened = Modules /\ DOMAIN client = Modules /\ DOMAIN open = Modules /\ DOMAIN overlapped = Modules
      /\ \A k \in Modules : ModuleOK(k)
  BY DEF SingletonStrong
<1>2. ASSUME NEW k \in Modules, Obtain(k) PROVE SingletonStrong'
  <2> DEFINE n == opened[k] + 1
  <2>1. /\ client[k] = 0 /\ opened' = [opened EXCEPT ![k] = n]
        /\ client' = [client EXCEPT ![k] = opened'[k]]
        /\ open' = [open EXCEPT ![k] = @ \cup {opened'[k]}] /\ closer' = closer /\ overlapped' = overlapped
    BY <1>2 DEF Obtain
  <2>2. opened'[k] = n /\ client'[k] = n /\ open'[k] = open[k] \cup {n}
    BY <1>1, <2>1
  <2>3. \A j \in Modules : Closing(j)' = Closing(j)
    BY <2>1 DEF Closing
  <2>4. ASSUME NEW j \in Modules, j # k PROVE ModuleOK(j)'
    <3>1. opened'[j] = opened[j] /\ client'[j] = client[j] /\ open'[j] = open[j]
      BY <1>1, <2>1, <2>4
    <3> QED
      BY <1>1, <2>1, <2>3, <3>1, ModuleStays
  <2>5. ModuleOK(k)'
    <3>1. /\ opened[k] \in Nat /\ open[k] \subseteq 1..opened[k] /\ overlapped[k] \in BOOLEAN
          /\ ~overlapped[k] => open[k] \subseteq {0} /\ Closing(k) = {}
      BY <1>1, <2>1 DEF ModuleOK
    <3>2. opened[k] + 1 \in Nat /\ (\A i \in 1..opened[k] : i \in 1..(opened[k] + 1)) /\ 0 \notin 1..opened[k]
          /\ opened[k] + 1 \in 1..(opened[k] + 1) /\ opened[k] + 1 \in 0..(opened[k] + 1)
      BY <3>1
    <3> QED
      BY <2>1, <2>2, <2>3, <3>1, <3>2 DEF ModuleOK
  <2>6. /\ DOMAIN opened' = Modules /\ DOMAIN client' = Modules /\ DOMAIN open' = Modules
        /\ \A c \in Closers : CloserOK(c)'
    BY <1>1, <2>1 DEF CloserOK
  <2> QED
    BY <1>1, <2>1, <2>4, <2>5, <2>6 DEF SingletonStrong
<1>3. ASSUME NEW k \in Modules, NEW c \in Closers, CloseBegins(c, k) PROVE SingletonStrong'
  <2>1. /\ closer[c].phase = "idle" /\ client[k] # 0
        /\ closer' = [closer EXCEPT ![c] = [phase |-> "closing", module |-> k, of |-> client[k]]]
        /\ overlapped' = [overlapped EXCEPT ![k] = overlapped[k] \/ Closing(k) # {}]
        /\ UNCHANGED <<client, opened, open>>
    BY <1>3 DEF CloseBegins
  <2>2. /\ closer'[c] = [phase |-> "closing", module |-> k, of |-> client[k]]
        /\ \A d \in Closers \ {c} : closer'[d] = closer[d]
    BY <1>1, <2>1
  <2>3. ASSUME NEW j \in Modules, j # k PROVE ModuleOK(j)'
    <3>1. \A d \in Closing(j)' : d \in Closing(j) /\ closer'[d] = closer[d]
      BY <2>2, <2>3 DEF Closing
    <3>2. overlapped'[j] = overlapped[j]
      BY <1>1, <2>1, <2>3
    <3> QED
      BY <1>1, <2>1, <3>1, <3>2, ModuleStays
  <2>4. ModuleOK(k)'
    <3>1. Closing(k)' = Closing(k) \cup {c}
      BY <2>2 DEF Closing
    <3>2. overlapped'[k] \in BOOLEAN /\ (~overlapped'[k] => ~overlapped[k] /\ Closing(k) = {})
      BY <1>1, <2>1 DEF ModuleOK
    <3> QED
      BY <1>1, <2>1, <2>2, <3>1, <3>2 DEF ModuleOK
  <2>5. DOMAIN closer' = Closers /\ DOMAIN overlapped' = Modules /\ \A d \in Closers : CloserOK(d)'
    BY <1>1, <2>1, <2>2 DEF CloserOK
  <2> QED
    BY <1>1, <2>1, <2>3, <2>4, <2>5 DEF SingletonStrong
<1>4. ASSUME NEW c \in Closers, CloseReturns(c) PROVE SingletonStrong'
  <2>0. closer[c].phase = "closing" /\ closer[c].module \in Modules
    BY <1>1, <1>4 DEF CloseReturns, CloserOK, AtRest
  <2> PICK k \in Modules : k = closer[c].module
    BY <2>0
  <2>1. /\ closer[c].phase = "closing" /\ closer' = [closer EXCEPT ![c] = AtRest]
        /\ \/ client' = [client EXCEPT ![k] = 0] /\ open' = [open EXCEPT ![k] = @ \ {closer[c].of}]
           \/ UNCHANGED <<client, open>>
        /\ UNCHANGED <<opened, overlapped>>
    BY <1>4 DEF CloseReturns
  <2>2. c \in Closing(k)
    BY <2>0 DEF Closing
  <2>3. \A j \in Modules : Closing(j)' = Closing(j) \ {c} /\ \A d \in Closing(j)' : closer'[d] = closer[d]
    BY <1>1, <2>1 DEF Closing, AtRest
  <2>4. ASSUME NEW j \in Modules, j # k PROVE ModuleOK(j)'
    <3>1. client'[j] = client[j] /\ open'[j] = open[j]
      BY <1>1, <2>1, <2>4
    <3> QED
      BY <1>1, <2>1, <2>3, <3>1, ModuleStays
  <2>5. ModuleOK(k)'
    <3>1. CASE UNCHANGED <<client, open>>
      BY <1>1, <2>1, <2>2, <2>3, <3>1, ModuleStays
    <3>2. CASE client' = [client EXCEPT ![k] = 0] /\ open' = [open EXCEPT ![k] = @ \ {closer[c].of}]
      <4>1. client'[k] = 0 /\ open'[k] = open[k] \ {closer[c].of}
        BY <1>1, <2>2, <3>2
      <4>2. ~overlapped[k] => Closing(k)' = {} /\ open[k] \subseteq {closer[c].of}
        <5> SUFFICES ASSUME ~overlapped[k] PROVE Closing(k)' = {} /\ open[k] \subseteq {closer[c].of}
          OBVIOUS
        <5>1. open[k] \subseteq {client[k]} /\ closer[c].of = client[k] /\ \A d \in Closing(k) : d = c
          BY <1>1, <2>2 DEF ModuleOK
        <5> QED
          BY <2>3, <5>1
      <4>3. /\ opened[k] \in Nat /\ open[k] \subseteq 1..opened[k] /\ overlapped[k] \in BOOLEAN
            /\ 0 \in 0..opened[k]
        BY <1>1, <2>2 DEF ModuleOK
      <4> QED
        BY <2>1, <4>1, <4>2, <4>3 DEF ModuleOK
    <3> QED
      BY <2>1, <3>1, <3>2
  <2>6. /\ DOMAIN closer' = Closers /\ DOMAIN client' = Modules /\ DOMAIN open' = Modules
        /\ \A d \in Closers : CloserOK(d)'
    BY <1>1, <2>1 DEF CloserOK
  <2> QED
    BY <1>1, <2>1, <2>4, <2>5, <2>6 DEF SingletonStrong
<1> QED
  BY <1>2, <1>3, <1>4 DEF SingletonNext

\* A step of the stores is one of a store, and leaves the others as they are.
StoresNext == DowStoreNext \/ HealthNext \/ PlanNext \/ TwinNext \/ SingletonNext

LEMMA StoresMoveAlone ==
    [StoresNext]_storesVars =>
        /\ [DowStoreNext]_<<storeTick, dowStoreVars>>
        /\ [Heartbeat \/ \E c \in Markers : MarkReads(c) \/ MarkWrites(c)]_healthVars
        /\ [PlanNext]_planVars /\ [TwinNext]_twinVars /\ [SingletonNext]_singletonVars
<1> SUFFICES ASSUME [StoresNext]_storesVars
             PROVE  /\ [DowStoreNext]_<<storeTick, dowStoreVars>>
                    /\ [Heartbeat \/ \E c \in Markers : MarkReads(c) \/ MarkWrites(c)]_healthVars
                    /\ [PlanNext]_planVars /\ [TwinNext]_twinVars /\ [SingletonNext]_singletonVars
  OBVIOUS
<1>1. CASE UNCHANGED storesVars
  BY <1>1 DEF storesVars
<1>2. CASE StoreTick
  BY <1>2 DEF StoreTick, DowStoreNext
<1>3. CASE DowStoreNext
  BY <1>2, <1>3 DEF DowStoreNext, AddIncrements, AddAnswers, ResetSpend
<1>4. CASE HealthNext
  BY <1>2, <1>4 DEF HealthNext, Heartbeat, MarkReads, MarkWrites
<1>5. CASE PlanNext
  BY <1>5 DEF PlanNext, StorePlan, InvalidateScans, InvalidateReads, InvalidateDeletes
<1>6. CASE TwinNext
  BY <1>6 DEF TwinNext, SetOrDeleteSnapshot, SnapshotsScanned, SnapshotsRead
<1>7. CASE SingletonNext
  BY <1>7 DEF SingletonNext, Obtain, CloseBegins, CloseReturns
<1> QED
  BY <1>1, <1>3, <1>4, <1>5, <1>6, <1>7 DEF StoresNext

LEMMA StoresInitial == StoresInit => StoresStrong
  BY DowStoreInitial, HealthInitial, PlanInitial, TwinInitial, SingletonInitial DEF StoresStrong

LEMMA StoresStep == StoresStrong /\ [StoresNext]_storesVars => StoresStrong'
<1> SUFFICES ASSUME StoresStrong, [StoresNext]_storesVars PROVE StoresStrong'
  OBVIOUS
<1>1. DowStoreStrong'
  <2>1. CASE UNCHANGED <<storeTick, dowStoreVars>>
    <3>1. UNCHANGED <<storeTick, bucket, adder>>
      BY <2>1 DEF dowStoreVars
    <3>2. RollingSum(storeTick)' = RollingSum(storeTick) /\ \A c : Told(c)' <=> Told(c)
      BY <3>1, RollingIs DEF Told
    <3> QED
      BY <3>1, <3>2 DEF StoresStrong, DowStoreStrong
  <2> QED
    BY <2>1, StoresMoveAlone, DowStoreStep DEF StoresStrong
<1>2. HealthStrong'
  <2>1. CASE UNCHANGED healthVars
    BY <2>1 DEF StoresStrong, HealthStrong, healthVars, HealthOK, Latest
  <2> QED
    BY <2>1, StoresMoveAlone, HealthStep DEF StoresStrong
<1>3. PlanStrong'
  <2>1. CASE UNCHANGED planVars
    BY <2>1 DEF StoresStrong, PlanStrong, planVars, InvalidatorOK, InvalidatedIsGone
  <2> QED
    BY <2>1, StoresMoveAlone, PlanStep DEF StoresStrong
<1>4. TwinStrong'
  <2>1. CASE UNCHANGED twinVars
    BY <2>1 DEF StoresStrong, TwinStrong, twinVars, SteadyIsReturned
  <2> QED
    BY <2>1, StoresMoveAlone, TwinStep DEF StoresStrong
<1>5. SingletonStrong'
  <2>1. CASE UNCHANGED singletonVars
    BY <2>1 DEF StoresStrong, SingletonStrong, singletonVars, ModuleOK, CloserOK, Closing
  <2> QED
    BY <2>1, StoresMoveAlone, SingletonStep DEF StoresStrong
<1> QED
  BY <1>1, <1>2, <1>3, <1>4, <1>5 DEF StoresStrong

LEMMA StoresImplies == StoresStrong => StoresInv
<1> SUFFICES ASSUME StoresStrong PROVE StoresInv
  OBVIOUS
<1>1. DowStoreStrong /\ HealthStrong /\ PlanStrong /\ TwinStrong /\ SingletonStrong
  BY DEF StoresStrong
<1>2. StoresTypeOK
  <2>1. GetHealth # Absent => GetHealth.figures \in 0..beats
    BY <1>1 DEF GetHealth, HealthStrong, HealthOK
  <2> QED
    BY <1>1, <2>1 DEF StoresTypeOK, DowStoreStrong, HealthStrong, PlanStrong, TwinStrong, SingletonStrong, ModuleOK
<1>3. OverLimitIsAnswered
  <2>1. Spend = RollingSum(storeTick)
    BY <1>1, SpendIsRolling DEF DowStoreStrong
  <2> QED
    BY <1>1, <2>1 DEF OverLimitIsAnswered, DowStoreStrong, Told
<1>4. FiguresAreLatest /\ InvalidatedIsGone /\ SteadyIsReturned
  BY <1>1 DEF FiguresAreLatest, HealthStrong, Latest, PlanStrong, TwinStrong
<1>5. SingleClient
  <2> SUFFICES ASSUME NEW k \in Modules, ~overlapped[k]
               PROVE  Cardinality(open[k]) <= 1 /\ (client[k] = 0 => open[k] = {})
    BY DEF SingleClient
  <2>1. open[k] \subseteq {client[k]} /\ open[k] \subseteq 1..opened[k] /\ opened[k] \in Nat
    BY <1>1 DEF SingletonStrong, ModuleOK
  <2>2. open[k] = {} \/ open[k] = {client[k]}
    BY <2>1
  <2>3. Cardinality(open[k]) <= 1
    <3>1. Cardinality({}) = 0 /\ Cardinality({client[k]}) = 1
      BY FS_EmptySet, FS_Singleton
    <3> QED
      BY <2>2, <3>1
  <2> QED
    BY <2>1, <2>3
<1> QED
  BY <1>2, <1>3, <1>4, <1>5 DEF StoresInv

-----------------------------------------------------------------------------
(***************************************************************************)
(* The database. What a call in each phase knows of the connection it has. *)
(***************************************************************************)
OwnRows(c) == {[tenant |-> c, by |-> c]}

CallHolds(c) ==
    /\ call[c].phase \in Holding \cup {"idle", "waiting", "resolved", "rejected"}
    /\ (call[c].on # NoConnection) = (call[c].phase \in Holding)
    /\ call[c].on \in Connections \cup {NoConnection}
    /\ \A d \in TenantCalls \ {c} : call[c].on = NoConnection \/ call[c].on # call[d].on
    /\ call[c].phase = "begin" => connection[call[c].on] = Clean \/ call[c].on \in unended
    /\ call[c].phase = "context" =>
           connection[call[c].on].tx = "open" /\ (connection[call[c].on].rows = {} \/ call[c].on \in unended)
    /\ call[c].phase \in {"work", "commit"} =>
           /\ c \notin Malformed /\ connection[call[c].on].tenant = c
           /\ connection[call[c].on].rows \subseteq OwnRows(c) \/ call[c].on \in unended
           /\ ~call[c].swallowed => connection[call[c].on].tx = "open"
    /\ call[c].phase = "resolved" => c \notin Malformed
    /\ (\E r \in committed : r.by = c) => c \in asked \/ unended # {}

\* Each row under the context of the call that wrote it.
OwnTenants(rows) == \A r \in rows : r.tenant = r.by /\ r.by \in TenantCalls
ConnectionTyped(s) ==
    /\ connection[s].tx \in {"none", "open", "aborted", "lost"}
    /\ connection[s] = [tx |-> connection[s].tx, tenant |-> connection[s].tenant, rows |-> connection[s].rows]
    /\ OwnTenants(connection[s].rows)

PoolStrong ==
    /\ DOMAIN call = TenantCalls /\ DOMAIN connection = Connections
    /\ \A s \in Connections : ConnectionTyped(s)
    /\ \A c \in TenantCalls : call[c] = [phase |-> call[c].phase, on |-> call[c].on, swallowed |-> call[c].swallowed]
    /\ \A c \in TenantCalls : CallHolds(c)
    /\ \A s \in Free \ unended : connection[s] = Clean
    /\ \A r \in committed : r.by \in TenantCalls
    /\ RowsAreOfTheTenant

ScriptOK ==
    /\ script = [phase |-> script.phase, at |-> script.at]
    /\ script.at \in 1..4
    /\ script.phase = "executing" => script.at \in {1, 3}
    /\ script.phase # "resolved" /\ objects \subseteq {"keyspace"}

DatabasesStrong == PoolStrong /\ ScriptOK

\* The pieces that initKeyspace() comes to.
LEMMA PiecesAre ==
    /\ Len(Pieces) = 14
    /\ Pieces[1] = Piece("keyspace", "none", TRUE, TRUE) /\ Pieces[2] = Piece("none", "keyspace", FALSE, TRUE)
    /\ Pieces[3] = Piece("none", "keyspace", TRUE, TRUE) /\ Pieces[4] = Malformation
<1> DEFINE p == Piece("keyspace", "none", TRUE, TRUE)
           q == Piece("none", "keyspace", FALSE, TRUE)
           r == Piece("none", "keyspace", TRUE, TRUE)
           m == Malformation
           d == Piece("by_agent", "entries", TRUE, TRUE)
           e == Piece("by_action", "entries", FALSE, TRUE)
           f == Piece("by_resource", "entries", FALSE, TRUE)
           g == Piece("by_ts", "entries", FALSE, TRUE)
           h == Piece("none", "none", TRUE, TRUE)
           i == Piece("cold", "keyspace", TRUE, TRUE)
           j == Piece("cold_by_agent", "cold", TRUE, TRUE)
           k == Piece("cold_by_resource", "cold", FALSE, TRUE)
           S == {p, q, r, m, d, e, f, g, h, i, j, k}
<1>1. /\ KeyspacePieces = <<p, q>> /\ SchemaPieces = <<r, m, m, d, e, f, g>>
      /\ ColdTierPieces = <<h, m, i, j, k>>
  BY Zenon DEF KeyspacePieces, SchemaPieces, ColdTierPieces
<1> HIDE DEF p, q, r, m, d, e, f, g, h, i, j, k
<1>2. SchemaPieces \in Seq(S) /\ Len(SchemaPieces) = 7 /\ SchemaPieces[1] = r /\ SchemaPieces[2] = m
  BY <1>1
<1>3. ColdTierPieces \in Seq(S) /\ Len(ColdTierPieces) = 5
  BY <1>1
<1>4. /\ KeyspacePieces \in Seq(S) /\ Len(KeyspacePieces) = 2
      /\ KeyspacePieces[1] = p /\ KeyspacePieces[2] = q
  BY <1>1
<1> HIDE DEF S
<1>5. PICK two : two = KeyspacePieces \o SchemaPieces
  OBVIOUS
<1>6. /\ KeyspacePieces \o SchemaPieces \in Seq(S)
      /\ Len(KeyspacePieces \o SchemaPieces) = Len(KeyspacePieces) + Len(SchemaPieces)
      /\ \A x \in 1..Len(KeyspacePieces) + Len(SchemaPieces) :
             (KeyspacePieces \o SchemaPieces)[x] =
                 IF x <= Len(KeyspacePieces) THEN KeyspacePieces[x]
                 ELSE SchemaPieces[x - Len(KeyspacePieces)]
  BY <1>2, <1>4, ConcatProperties, Zenon
<1>7. /\ two \in Seq(S) /\ Len(two) = Len(KeyspacePieces) + Len(SchemaPieces)
      /\ \A x \in 1..Len(KeyspacePieces) + Len(SchemaPieces) :
             two[x] = IF x <= Len(KeyspacePieces) THEN KeyspacePieces[x]
                      ELSE SchemaPieces[x - Len(KeyspacePieces)]
  BY <1>5, <1>6, Zenon
<1>8. /\ two \in Seq(S) /\ Len(two) = 9
      /\ two[1] = p /\ two[2] = q /\ two[3] = r /\ two[4] = m
  BY <1>2, <1>4, <1>7
<1>9. /\ Len(two \o ColdTierPieces) = Len(two) + Len(ColdTierPieces)
      /\ \A x \in 1..Len(two) + Len(ColdTierPieces) :
             (two \o ColdTierPieces)[x] =
                 IF x <= Len(two) THEN two[x] ELSE ColdTierPieces[x - Len(two)]
  BY <1>3, <1>8, ConcatProperties, Zenon
<1>10. /\ Len(Pieces) = Len(two) + Len(ColdTierPieces)
       /\ \A x \in 1..Len(two) + Len(ColdTierPieces) :
              Pieces[x] = IF x <= Len(two) THEN two[x] ELSE ColdTierPieces[x - Len(two)]
  BY <1>5, <1>9, Zenon DEF Pieces
<1>11. Len(Pieces) = 14 /\ Pieces[1] = p /\ Pieces[2] = q /\ Pieces[3] = r /\ Pieces[4] = m
  BY <1>3, <1>8, <1>10
<1> QED
  BY <1>11, Zenon DEF p, q, r, m

LEMMA PieceFacts ==
    /\ (Pieces[1].skipped = TRUE) /\ (Pieces[2].skipped = FALSE)
    /\ (Pieces[3].skipped = TRUE) /\ (Pieces[4].skipped = FALSE)
    /\ Pieces[2].creates = "none" /\ (Pieces[4].wellFormed = FALSE)
  BY PiecesAre DEF Piece, Malformation

\* Where it goes from the first piece on, and from the third.
LEMMA NextPieces == NextPiece(1) = 2 /\ NextPiece(3) = 4
<1>1. ~Pieces[2].skipped /\ ~Pieces[4].skipped /\ Pieces[1].skipped /\ Pieces[3].skipped
  BY PieceFacts, Zenon
<1>2. Len(Pieces) + 1 = 15
  BY PiecesAre
<1>3. ASSUME NEW i \in 1..13, Pieces[i].skipped, ~Pieces[i + 1].skipped
      PROVE  NextPiece(i) = i + 1
  <2>1. ASSUME NEW j \in i..15
        PROVE  (/\ j = 15 \/ ~Pieces[j].skipped
                /\ \A k \in i..(j - 1) : Pieces[k].skipped) <=> j = i + 1
    <3>1. CASE j = i
      BY <1>3, <3>1
    <3>2. CASE j = i + 1
      <4>1. i..(j - 1) = {i}
        BY <3>2
      <4> QED
        BY <1>3, <3>2, <4>1
    <3>3. CASE j > i + 1
      <4>1. i + 1 \in i..(j - 1) /\ j # i + 1
        BY <3>3
      <4> QED
        BY <1>3, <4>1
    <3> QED
      BY <3>1, <3>2, <3>3
  <2>2. i + 1 \in i..15
    OBVIOUS
  <2>3. NextPiece(i) = CHOOSE j \in i..15 : /\ j = 15 \/ ~Pieces[j].skipped
                                            /\ \A k \in i..(j - 1) : Pieces[k].skipped
    BY <1>2, Zenon DEF NextPiece
  <2> QED
    BY <2>1, <2>2, <2>3
<1> QED
  <2>1. Pieces[1 + 1] = Pieces[2] /\ Pieces[3 + 1] = Pieces[4]
    OBVIOUS
  <2>2. ~Pieces[1 + 1].skipped /\ ~Pieces[3 + 1].skipped
    BY <1>1, <2>1
  <2>3. NextPiece(1) = 1 + 1 /\ NextPiece(3) = 3 + 1
    BY <1>1, <1>3, <2>2
  <2> QED
    BY <2>3

LEMMA PoolImplies == DatabasesStrong => DatabaseInv
<1> SUFFICES ASSUME DatabasesStrong PROVE DatabaseInv
  OBVIOUS
<1>1. DatabasesTypeOK
  BY PiecesAre DEF DatabasesStrong, PoolStrong, ScriptOK, DatabasesTypeOK, CallHolds, ConnectionTyped
<1>2. ContextIsOfTheCall /\ RowsAreOfTheTenant
  BY DEF DatabasesStrong, PoolStrong, ContextIsOfTheCall, CallHolds
<1>3. NothingIsHalfDone
  BY DEF DatabasesStrong, PoolStrong, NothingIsHalfDone, RolledBackOnError, CallHolds
<1>4. BootstrapStopsShort
  BY DEF DatabasesStrong, ScriptOK, BootstrapStopsShort
<1> QED
  BY <1>1, <1>2, <1>3, <1>4 DEF DatabaseInv

LEMMA DatabasesInitial == DatabasesInit => DatabasesStrong
<1> SUFFICES ASSUME DatabasesInit PROVE DatabasesStrong
  OBVIOUS
<1>1. ASSUME NEW c \in TenantCalls PROVE CallHolds(c)
  <2>1. call[c].phase = "idle" /\ call[c].on = NoConnection /\ committed = {}
    BY DEF DatabasesInit
  <2> QED
    BY <2>1 DEF CallHolds, Holding
<1>2. /\ DOMAIN call = TenantCalls /\ DOMAIN connection = Connections
      /\ \A s \in Connections : connection[s] = Clean
      /\ \A c \in TenantCalls : call[c] = [phase |-> "idle", on |-> NoConnection, swallowed |-> FALSE]
      /\ committed = {}
  BY DEF DatabasesInit
<1>3. \A s \in Connections : ConnectionTyped(s)
  BY <1>2 DEF ConnectionTyped, Clean, OwnTenants
<1>4. \A c \in TenantCalls : call[c] = [phase |-> call[c].phase, on |-> call[c].on, swallowed |-> call[c].swallowed]
  BY <1>2
<1>5. PoolStrong
  BY <1>1, <1>2, <1>3, <1>4 DEF PoolStrong, Free, RowsAreOfTheTenant
<1>6. ScriptOK
  BY DEF DatabasesInit, ScriptOK
<1> QED
  BY <1>5, <1>6 DEF DatabasesStrong

\* What is kept for good, and what a call may commit.
Grows(c) ==
    /\ asked \subseteq asked' /\ unended \subseteq unended' /\ committed \subseteq committed'
    /\ \A r \in committed' \ committed :
           r.tenant = r.by /\ r.by \in TenantCalls /\ (r.by = c \/ unended # {})
    /\ committed' = committed \/ c \in asked'

\* One call moves with the connection it has; the others, and theirs, stay.
LEMMA OneCall ==
    ASSUME PoolStrong, NEW c \in TenantCalls,
           DOMAIN call' = TenantCalls, \A d \in TenantCalls \ {c} : call'[d] = call[d],
           call'[c] = [phase |-> call'[c].phase, on |-> call'[c].on, swallowed |-> call'[c].swallowed],
           DOMAIN connection' = Connections,
           \A s \in Connections : s = call[c].on \/ s = call'[c].on \/ connection'[s] = connection[s],
           \A s \in Connections : s = call[c].on \/ s = call'[c].on => ConnectionTyped(s)',
           \/ call'[c].on = call[c].on
           \/ (call[c].on = NoConnection /\ call'[c].on \in Free)
           \/ (call'[c].on = NoConnection /\ (connection'[call[c].on] = Clean \/ call[c].on \in unended')),
           CallHolds(c)', Grows(c)
    PROVE  PoolStrong'
<1>1. \A d \in TenantCalls : CallHolds(d)
  BY DEF PoolStrong
<1>2. ASSUME NEW d \in TenantCalls \ {c}
      PROVE  CallHolds(d)' /\ (call'[d].on # NoConnection => connection'[call'[d].on] = connection[call[d].on])
  <2>1. call'[d] = call[d]
    OBVIOUS
  <2>2. call[d].on # NoConnection => call[d].on # call[c].on /\ call[d].on # call'[c].on /\ call[d].on \in Connections
    BY <1>1 DEF CallHolds, Free
  <2>3. call[d].on # NoConnection => connection'[call[d].on] = connection[call[d].on]
    BY <2>2
  <2>4. (\E r \in committed' : r.by = d) => d \in asked' \/ unended' # {}
    <3>1. (\E r \in committed : r.by = d) => d \in asked \/ unended # {}
      BY <1>1 DEF CallHolds
    <3> QED
      BY <3>1 DEF Grows
  <2>7. unended \subseteq unended'
    BY DEF Grows
  <2>5. \A e \in TenantCalls \ {d} : call'[d].on = NoConnection \/ call'[d].on # call'[e].on
    BY <1>1, <2>1, <2>2 DEF CallHolds
  <2>6. call[d].phase \in Holding => call[d].on # NoConnection
    BY <1>1 DEF CallHolds
  <2> QED
    BY <1>1, <2>1, <2>3, <2>4, <2>5, <2>6, <2>7 DEF CallHolds, Holding
<1>3. ASSUME NEW s \in Free' \ unended' PROVE connection'[s] = Clean
  <2>1. CASE s \in Free
    <3>1. s # call[c].on /\ s # call'[c].on
      BY <2>1, <1>3 DEF Free
    <3>2. s \in Free \ unended /\ s \in Connections
      BY <1>3, <2>1 DEF Grows, Free
    <3> QED
      BY <3>1, <3>2 DEF PoolStrong
  <2>2. CASE s \notin Free
    <3>1. s = call[c].on /\ call'[c].on # call[c].on
      BY <2>2, <1>3 DEF Free
    <3>2. s \in Connections
      BY <1>3 DEF Free
    <3> QED
      BY <3>1, <3>2, <2>2, DatabasesAssumption
  <2> QED
    BY <2>1, <2>2
<1>4. ASSUME NEW s \in Connections PROVE ConnectionTyped(s)'
  <2>1. CASE s = call[c].on \/ s = call'[c].on
    BY <2>1
  <2>2. CASE ~(s = call[c].on \/ s = call'[c].on)
    <3>1. connection'[s] = connection[s] /\ ConnectionTyped(s)
      BY <2>2 DEF PoolStrong
    <3> QED
      BY <3>1 DEF ConnectionTyped
  <2> QED
    BY <2>1, <2>2
<1>5. RowsAreOfTheTenant' /\ \A r \in committed' : r.by \in TenantCalls
  BY DEF PoolStrong, RowsAreOfTheTenant, Grows
<1>6. \A d \in TenantCalls : /\ CallHolds(d)'
                             /\ call'[d] = [phase |-> call'[d].phase, on |-> call'[d].on, swallowed |-> call'[d].swallowed]
  BY <1>2 DEF PoolStrong
<1> QED
  BY <1>3, <1>4, <1>5, <1>6 DEF PoolStrong

(* What a call and its connection are like.                                *)
LEMMA CallFacts ==
    ASSUME PoolStrong, NEW c \in TenantCalls
    PROVE  /\ CallHolds(c) /\ DOMAIN call = TenantCalls /\ DOMAIN connection = Connections
           /\ call[c] = [phase |-> call[c].phase, on |-> call[c].on, swallowed |-> call[c].swallowed]
           /\ call[c].phase \in Holding => call[c].on \in Connections
           /\ call[c].on \in Connections =>
                LET s == call[c].on
                IN  /\ connection[s].tx \in {"none", "open", "aborted", "lost"}
                    /\ connection[s] = [tx |-> connection[s].tx, tenant |-> connection[s].tenant, rows |-> connection[s].rows]
                    /\ OwnTenants(connection[s].rows)
  BY DEF PoolStrong, CallHolds, ConnectionTyped

LEMMA Moves ==
    ASSUME PoolStrong, NEW c \in TenantCalls, NEW phase, MovesTo(c, phase)
    PROVE  /\ DOMAIN call' = TenantCalls /\ \A d \in TenantCalls \ {c} : call'[d] = call[d]
           /\ call'[c] = [phase |-> phase, on |-> call[c].on, swallowed |-> call[c].swallowed]
<1>1. DOMAIN call = TenantCalls /\ call' = [call EXCEPT ![c].phase = phase]
  BY CallFacts DEF MovesTo
<1>2. call[c] = [phase |-> call[c].phase, on |-> call[c].on, swallowed |-> call[c].swallowed]
  BY CallFacts
<1>3. call'[c] = [call[c] EXCEPT !.phase = phase]
  BY <1>1
<1>4. [call[c] EXCEPT !.phase = phase] = [phase |-> phase, on |-> call[c].on, swallowed |-> call[c].swallowed]
  BY <1>2
<1> QED
  BY <1>1, <1>3, <1>4

\* A connection that changes under the call that has it.
Touches(c, tx, tenant, rows) ==
    /\ DOMAIN connection' = Connections
    /\ connection'[call[c].on] = [tx |-> tx, tenant |-> tenant, rows |-> rows]
    /\ \A t \in Connections : t = call[c].on \/ connection'[t] = connection[t]

LEMMA Touched ==
    ASSUME PoolStrong, NEW c \in TenantCalls, call[c].on \in Connections
    PROVE  LET s == call[c].on
           IN  /\ connection' = connection => Touches(c, connection[s].tx, connection[s].tenant, connection[s].rows)
               /\ connection' = Aborted(s) => Touches(c, "aborted", connection[s].tenant, {})
               /\ connection' = Lost(s) => Touches(c, "lost", "unset", {})
               /\ connection' = Ended(s) => Touches(c, "none", "unset", {})
               /\ connection' = [connection EXCEPT ![s].tx = "open"] =>
                      Touches(c, "open", connection[s].tenant, connection[s].rows)
               /\ \A t : connection' = [connection EXCEPT ![s].tenant = t] =>
                      Touches(c, connection[s].tx, t, connection[s].rows)
               /\ \A r : connection' = [connection EXCEPT ![s].rows = r] =>
                      Touches(c, connection[s].tx, connection[s].tenant, r)
<1> DEFINE s == call[c].on
           v == connection[s]
<1>1. DOMAIN connection = Connections /\ v = [tx |-> v.tx, tenant |-> v.tenant, rows |-> v.rows] /\ s \in Connections
  BY CallFacts
<1>2. connection' = connection => Touches(c, v.tx, v.tenant, v.rows)
  BY <1>1 DEF Touches
<1>3. connection' = Lost(s) => Touches(c, "lost", "unset", {})
  <2>1. [Clean EXCEPT !.tx = "lost"] = [tx |-> "lost", tenant |-> "unset", rows |-> {}]
    BY DEF Clean
  <2> QED
    BY <1>1, <2>1 DEF Touches, Lost
<1>4. connection' = Ended(s) => Touches(c, "none", "unset", {})
  BY <1>1 DEF Touches, Ended, Clean
<1>5. ASSUME connection' = Aborted(s) PROVE Touches(c, "aborted", v.tenant, {})
  <2>1. connection'[s] = [v EXCEPT !.tx = "aborted", !.rows = {}]
    BY <1>1, <1>5 DEF Aborted
  <2>2. connection'[s] = [tx |-> "aborted", tenant |-> v.tenant, rows |-> {}]
    <3> HIDE DEF v
    <3> QED
      BY <1>1, <2>1
  <2> QED
    BY <1>1, <1>5, <2>2 DEF Touches, Aborted
<1>6. ASSUME connection' = [connection EXCEPT ![s].tx = "open"] PROVE Touches(c, "open", v.tenant, v.rows)
  <2>1. connection'[s] = [v EXCEPT !.tx = "open"]
    BY <1>1, <1>6
  <2>2. connection'[s] = [tx |-> "open", tenant |-> v.tenant, rows |-> v.rows]
    <3> HIDE DEF v
    <3> QED
      BY <1>1, <2>1
  <2> QED
    BY <1>1, <1>6, <2>2 DEF Touches
<1>7. ASSUME NEW t, connection' = [connection EXCEPT ![s].tenant = t] PROVE Touches(c, v.tx, t, v.rows)
  <2>1. connection'[s] = [v EXCEPT !.tenant = t]
    BY <1>1, <1>7
  <2>2. connection'[s] = [tx |-> v.tx, tenant |-> t, rows |-> v.rows]
    <3> HIDE DEF v
    <3> QED
      BY <1>1, <2>1
  <2> QED
    BY <1>1, <1>7, <2>2 DEF Touches
<1>8. ASSUME NEW r, connection' = [connection EXCEPT ![s].rows = r] PROVE Touches(c, v.tx, v.tenant, r)
  <2>1. connection'[s] = [v EXCEPT !.rows = r]
    BY <1>1, <1>8
  <2>2. connection'[s] = [tx |-> v.tx, tenant |-> v.tenant, rows |-> r]
    <3> HIDE DEF v
    <3> QED
      BY <1>1, <2>1
  <2> QED
    BY <1>1, <1>8, <2>2 DEF Touches
<1> QED
  BY <1>2, <1>3, <1>4, <1>5, <1>6, <1>7, <1>8

\* A call that keeps its connection.
LEMMA Continues ==
    ASSUME PoolStrong, NEW c \in TenantCalls, call[c].phase \in Holding,
           NEW phase \in Holding \ {"begin"}, NEW swallowed,
           DOMAIN call' = TenantCalls, \A d \in TenantCalls \ {c} : call'[d] = call[d],
           call'[c] = [phase |-> phase, on |-> call[c].on, swallowed |-> swallowed],
           NEW tx \in {"none", "open", "aborted", "lost"}, NEW tenant, NEW rows,
           Touches(c, tx, tenant, rows), OwnTenants(rows),
           phase = "context" => tx = "open" /\ (rows = {} \/ call[c].on \in unended),
           phase \in {"work", "commit"} =>
               /\ c \notin Malformed /\ tenant = c
               /\ rows \subseteq OwnRows(c) \/ call[c].on \in unended
               /\ ~swallowed => tx = "open",
           Grows(c)
    PROVE  PoolStrong'
<1> DEFINE s == call[c].on
<1>1. CallHolds(c) /\ s \in Connections /\ DOMAIN connection = Connections
  BY CallFacts
<1>2. /\ DOMAIN connection' = Connections
      /\ connection'[s] = [tx |-> tx, tenant |-> tenant, rows |-> rows]
      /\ \A t \in Connections : t = s \/ connection'[t] = connection[t]
  BY <1>1 DEF Touches
<1>3. call'[c].on = s /\ call'[c].phase = phase /\ call'[c].swallowed = swallowed
  OBVIOUS
<1>4. \A d \in TenantCalls \ {c} : s = NoConnection \/ s # call'[d].on
  BY <1>1 DEF CallHolds
<1>5. s # NoConnection
  BY <1>1, DatabasesAssumption
<1> HIDE DEF s
<1>9. s \in unended => s \in unended'
  BY DEF Grows
<1>10. (\E r \in committed' : r.by = c) => c \in asked' \/ unended' # {}
  BY <1>1 DEF CallHolds, Grows
<1>11. /\ phase = "context" => tx = "open" /\ (rows = {} \/ s \in unended)
       /\ phase \in {"work", "commit"} =>
              /\ c \notin Malformed /\ tenant = c
              /\ rows \subseteq OwnRows(c) \/ s \in unended
              /\ ~swallowed => tx = "open"
  BY DEF s
<1>6. CallHolds(c)'
  BY <1>1, <1>2, <1>3, <1>4, <1>5, <1>9, <1>10, <1>11 DEF CallHolds, Holding, OwnRows
<1>7. call'[c] = [phase |-> call'[c].phase, on |-> call'[c].on, swallowed |-> call'[c].swallowed]
  BY <1>3
<1>8. \A t \in Connections : t = s => ConnectionTyped(t)'
  <2>1. connection'[s].tx = tx /\ connection'[s].tenant = tenant /\ connection'[s].rows = rows
    BY <1>2
  <2> QED
    BY <1>2, <2>1 DEF ConnectionTyped, OwnTenants
<1> QED
  BY <1>2, <1>3, <1>6, <1>7, <1>8, OneCall DEF s

\* A call whose statement failed.
LEMMA RollsBack ==
    ASSUME PoolStrong, NEW c \in TenantCalls, call[c].phase \in Holding,
           MovesTo(c, "rollback"),
           connection' \in {connection, Aborted(call[c].on), Lost(call[c].on)},
           Grows(c)
    PROVE  PoolStrong'
<1> DEFINE s == call[c].on
<1>1. /\ DOMAIN call' = TenantCalls /\ \A d \in TenantCalls \ {c} : call'[d] = call[d]
      /\ call'[c] = [phase |-> "rollback", on |-> s, swallowed |-> call[c].swallowed]
  BY Moves
<1>2. s \in Connections /\ connection[s].tx \in {"none", "open", "aborted", "lost"}
  BY CallFacts
<1>7. OwnTenants(connection[s].rows) /\ OwnTenants({})
  BY <1>2, CallFacts DEF OwnTenants
<1>3. \E tx \in {"none", "open", "aborted", "lost"} : \E tenant, rows :
          Touches(c, tx, tenant, rows) /\ OwnTenants(rows)
  <2>1. CASE connection' = connection
    BY <1>2, <1>7, <2>1, Touched
  <2>2. CASE connection' = Aborted(s)
    BY <1>2, <1>7, <2>2, Touched
  <2>3. CASE connection' = Lost(s)
    BY <1>2, <1>7, <2>3, Touched
  <2> QED
    BY <2>1, <2>2, <2>3
<1>4. PICK tx \in {"none", "open", "aborted", "lost"} : \E tenant, rows :
          Touches(c, tx, tenant, rows) /\ OwnTenants(rows)
  BY <1>3
<1>5. PICK tenant, rows : Touches(c, tx, tenant, rows) /\ OwnTenants(rows)
  BY <1>4
<1>6. "rollback" \in Holding \ {"begin"}
  BY DEF Holding
<1> QED
  BY <1>1, <1>5, <1>6, Continues

\* A call that has no connection after its step.
LEMMA Releases ==
    ASSUME PoolStrong, NEW c \in TenantCalls, NEW phase \in {"waiting", "resolved", "rejected"},
           DOMAIN call' = TenantCalls, \A d \in TenantCalls \ {c} : call'[d] = call[d],
           call'[c] = [phase |-> phase, on |-> NoConnection, swallowed |-> call[c].swallowed],
           \/ connection' = connection /\ (call[c].on # NoConnection => call[c].on \in unended')
           \/ call[c].on # NoConnection /\ connection' = Ended(call[c].on),
           phase = "resolved" => c \notin Malformed,
           Grows(c)
    PROVE  PoolStrong'
<1>1. CallHolds(c) /\ DOMAIN connection = Connections /\ call[c].on \in Connections \cup {NoConnection}
  BY CallFacts DEF CallHolds
<1>2. call'[c].on = NoConnection /\ call'[c].phase = phase
  OBVIOUS
<1>6. (\E r \in committed' : r.by = c) => c \in asked' \/ unended' # {}
  BY <1>1 DEF CallHolds, Grows
<1>3. CallHolds(c)'
  BY <1>2, <1>6 DEF CallHolds, Holding
<1>4. /\ DOMAIN connection' = Connections
      /\ \A t \in Connections : t = call[c].on \/ connection'[t] = connection[t]
      /\ call[c].on # NoConnection => connection'[call[c].on] = Clean \/ call[c].on \in unended'
  BY <1>1 DEF Ended
<1>7. \A t \in Connections : ConnectionTyped(t)'
  <2> SUFFICES ASSUME NEW t \in Connections PROVE ConnectionTyped(t)'
    OBVIOUS
  <2>1. ConnectionTyped(t)
    BY DEF PoolStrong
  <2>2. connection'[t] = connection[t] \/ connection'[t] = Clean
    BY <1>1 DEF Ended
  <2> QED
    BY <2>1, <2>2 DEF ConnectionTyped, Clean, OwnTenants
<1>5. call'[c] = [phase |-> call'[c].phase, on |-> call'[c].on, swallowed |-> call'[c].swallowed]
  BY <1>2
<1> QED
  BY <1>2, <1>3, <1>4, <1>5, <1>7, OneCall, DatabasesAssumption

LEMMA CallStep ==
    ASSUME PoolStrong, NEW c \in TenantCalls,
           \/ PoolRequest(c) \/ PoolAnswers(c) \/ Begin(c) \/ SetTenantContext(c)
           \/ Work(c) \/ Commit(c) \/ Rollback(c)
    PROVE  PoolStrong'
<1> DEFINE s == call[c].on
<1>0. /\ CallHolds(c) /\ DOMAIN call = TenantCalls /\ DOMAIN connection = Connections
      /\ call[c] = [phase |-> call[c].phase, on |-> s, swallowed |-> call[c].swallowed]
      /\ call[c].phase \in Holding => s \in Connections
      /\ s \in Connections => connection[s].tx \in {"none", "open", "aborted", "lost"}
      /\ s \in Connections => OwnTenants(connection[s].rows)
  BY CallFacts
<1>g. UNCHANGED <<committed, historyVars>> => Grows(c)
  BY DEF Grows, historyVars
<1>1. CASE PoolRequest(c)
  <2>1. s = NoConnection
    BY <1>0, <1>1 DEF PoolRequest, CallHolds, Holding
  <2>2. MovesTo(c, "waiting") /\ connection' = connection /\ Grows(c)
    BY <1>1, <1>g DEF PoolRequest
  <2> QED
    BY <2>1, <2>2, Moves, Releases
<1>2. CASE PoolAnswers(c)
  <2>1. s = NoConnection /\ connection' = connection /\ Grows(c) /\ UNCHANGED <<committed, asked, unended>>
    BY <1>0, <1>2, <1>g DEF PoolAnswers, CallHolds, Holding, historyVars
  <2>2. CASE MovesTo(c, "rejected")
    BY <2>1, <2>2, Moves, Releases
  <2>3. CASE \E t \in Free : call' = [call EXCEPT ![c].phase = "begin", ![c].on = t]
    <3>1. PICK t \in Free : call' = [call EXCEPT ![c].phase = "begin", ![c].on = t]
      BY <2>3, Zenon
    <3>2. /\ DOMAIN call' = TenantCalls /\ \A d \in TenantCalls \ {c} : call'[d] = call[d]
          /\ call'[c] = [phase |-> "begin", on |-> t, swallowed |-> call[c].swallowed]
      BY <1>0, <3>1
    <3>3. /\ t \in Connections /\ (connection[t] = Clean \/ t \in unended)
          /\ \A d \in TenantCalls : call[d].on # t
      BY DEF PoolStrong, Free
    <3>8. t \in Connections
      BY DEF Free
    <3>4. CallHolds(c)'
      <4>1. (\E r \in committed' : r.by = c) => c \in asked' \/ unended' # {}
        BY <1>0, <2>1 DEF CallHolds
      <4> QED
        BY <2>1, <3>2, <3>3, <3>8, <4>1, DatabasesAssumption DEF CallHolds, Holding
    <3>5. call'[c] = [phase |-> call'[c].phase, on |-> call'[c].on, swallowed |-> call'[c].swallowed]
      BY <3>2
    <3>6. call'[c].on = t
      BY <3>2
    <3>7. ConnectionTyped(t)'
      BY <2>1, <3>8 DEF PoolStrong, ConnectionTyped
    <3>9. s \notin Connections
      BY <2>1, DatabasesAssumption
    <3> QED
      BY <1>0, <2>1, <3>2, <3>4, <3>5, <3>6, <3>7, <3>9, OneCall
  <2> QED
    BY <1>2, <2>2, <2>3 DEF PoolAnswers
<1>3. CASE Begin(c)
  <2>1. /\ call[c].phase = "begin" /\ s \in Connections
        /\ connection[s] = Clean \/ s \in unended
        /\ Grows(c)
    BY <1>0, <1>3, <1>g DEF Begin, CallHolds, Holding
  <2>2. CASE MovesTo(c, "context") /\ connection' = [connection EXCEPT ![s].tx = "open"]
    <3>1. /\ DOMAIN call' = TenantCalls /\ \A d \in TenantCalls \ {c} : call'[d] = call[d]
          /\ call'[c] = [phase |-> "context", on |-> s, swallowed |-> call[c].swallowed]
      BY <2>2, Moves
    <3>2. Touches(c, "open", connection[s].tenant, connection[s].rows)
      BY <2>1, <2>2, Touched
    <3>3. connection[s].rows = {} \/ s \in unended
      BY <2>1 DEF Clean
    <3> QED
      BY <1>0, <2>1, <3>1, <3>2, <3>3, Continues DEF Holding
  <2>3. CASE MovesTo(c, "rollback") /\ connection' \in {connection, Lost(s)}
    BY <2>1, <2>3, RollsBack DEF Holding
  <2> QED
    BY <1>3, <2>2, <2>3 DEF Begin
<1>4. CASE SetTenantContext(c)
  <2>1. /\ call[c].phase = "context" /\ s \in Connections /\ connection[s].tx = "open"
        /\ connection[s].rows = {} \/ s \in unended
        /\ Grows(c)
    BY <1>0, <1>4, <1>g DEF SetTenantContext, CallHolds, Holding
  <2>2. CASE c \notin Malformed /\ MovesTo(c, "work") /\ connection' = [connection EXCEPT ![s].tenant = c]
    <3>1. /\ DOMAIN call' = TenantCalls /\ \A d \in TenantCalls \ {c} : call'[d] = call[d]
          /\ call'[c] = [phase |-> "work", on |-> s, swallowed |-> call[c].swallowed]
      BY <2>2, Moves
    <3>2. Touches(c, connection[s].tx, c, connection[s].rows)
      BY <2>1, <2>2, Touched
    <3> QED
      BY <1>0, <2>1, <2>2, <3>1, <3>2, Continues DEF Holding
  <2>3. CASE MovesTo(c, "rollback") /\ connection' \in {connection, Aborted(s), Lost(s)}
    BY <2>1, <2>3, RollsBack DEF Holding
  <2> QED
    BY <1>4, <2>2, <2>3 DEF SetTenantContext
<1>5. CASE Work(c)
  <2>1. /\ call[c].phase = "work" /\ s \in Connections /\ connection[s].tenant = c /\ c \notin Malformed
        /\ connection[s].rows \subseteq OwnRows(c) \/ s \in unended
        /\ ~call[c].swallowed => connection[s].tx = "open"
        /\ Grows(c)
    BY <1>0, <1>5, <1>g DEF Work, CallHolds, Holding
  <2>2. CASE connection[s].tx = "open" /\ UNCHANGED call
             /\ connection' = [connection EXCEPT ![s].rows = @ \cup {[tenant |-> connection[s].tenant, by |-> c]}]
    <3> DEFINE more == connection[s].rows \cup {[tenant |-> connection[s].tenant, by |-> c]}
    <3>0. connection' = [connection EXCEPT ![s].rows = more]
      BY <2>2
    <3>2. (more \subseteq OwnRows(c) \/ s \in unended) /\ OwnTenants(more)
      BY <1>0, <2>1 DEF OwnRows, OwnTenants
    <3> HIDE DEF more
    <3>1. Touches(c, connection[s].tx, connection[s].tenant, more)
      BY <2>1, <3>0, Touched
    <3> QED
      BY <1>0, <2>1, <2>2, <3>1, <3>2, Continues DEF Holding
  <2>3. CASE MovesTo(c, "rollback") /\ connection' \in {connection, Aborted(s), Lost(s)}
    BY <2>1, <2>3, RollsBack DEF Holding
  <2>4. CASE connection' = Aborted(s) /\ call' = [call EXCEPT ![c].swallowed = TRUE]
    <3>1. /\ DOMAIN call' = TenantCalls /\ \A d \in TenantCalls \ {c} : call'[d] = call[d]
          /\ call'[c] = [phase |-> "work", on |-> s, swallowed |-> TRUE]
      BY <1>0, <2>1, <2>4
    <3>2. Touches(c, "aborted", connection[s].tenant, {})
      BY <2>1, <2>4, Touched
    <3>3. {} \subseteq OwnRows(c) /\ OwnTenants({})
      BY DEF OwnTenants
    <3> QED
      BY <2>1, <3>1, <3>2, <3>3, Continues DEF Holding
  <2>5. CASE MovesTo(c, "commit") /\ UNCHANGED connection
    <3>1. /\ DOMAIN call' = TenantCalls /\ \A d \in TenantCalls \ {c} : call'[d] = call[d]
          /\ call'[c] = [phase |-> "commit", on |-> s, swallowed |-> call[c].swallowed]
      BY <2>5, Moves
    <3>2. Touches(c, connection[s].tx, connection[s].tenant, connection[s].rows)
      BY <2>1, <2>5, Touched
    <3> QED
      BY <1>0, <2>1, <3>1, <3>2, Continues DEF Holding
  <2> QED
    BY <1>5, <2>1, <2>2, <2>3, <2>4, <2>5 DEF Work
<1>6. CASE Commit(c)
  <2>1. /\ call[c].phase = "commit" /\ s \in Connections /\ c \notin Malformed
        /\ connection[s].rows \subseteq OwnRows(c) \/ s \in unended
        /\ asked' = asked \cup {c} /\ unended' = unended
    BY <1>0, <1>6 DEF Commit, CallHolds, Holding
  <2>6. Grows(c)
    <3>1. committed' \in {committed, committed \cup connection[s].rows}
      BY <1>6 DEF Commit
    <3>2. \A r \in connection[s].rows : r.by = c \/ unended # {}
      BY <2>1 DEF OwnRows
    <3>3. OwnTenants(connection[s].rows)
      BY <1>0, <2>1 DEF PoolStrong, ConnectionTyped
    <3> QED
      BY <2>1, <3>1, <3>2, <3>3 DEF Grows, OwnTenants
  <2>3. CASE Release(c, "resolved") /\ connection' = Ended(s)
    <3>1. /\ DOMAIN call' = TenantCalls /\ \A d \in TenantCalls \ {c} : call'[d] = call[d]
          /\ call'[c] = [phase |-> "resolved", on |-> NoConnection, swallowed |-> call[c].swallowed]
      BY <1>0, <2>3 DEF Release
    <3>2. s # NoConnection
      BY <2>1, DatabasesAssumption
    <3> QED
      BY <2>1, <2>6, <2>3, <3>1, <3>2, Releases
  <2>4. CASE MovesTo(c, "rollback") /\ connection' = Lost(s)
    BY <2>1, <2>6, <2>4, RollsBack DEF Holding
  <2> QED
    BY <1>6, <2>3, <2>4 DEF Commit
<1>7. CASE Rollback(c)
  <2>1. call[c].phase = "rollback" /\ s \in Connections
    BY <1>0, <1>7 DEF Rollback, Holding
  <2>4. (connection' = connection /\ s \in unended') \/ connection' = Ended(s)
    BY <1>7 DEF Rollback
  <2>5. Grows(c)
    BY <1>7 DEF Rollback, Grows
  <2>2. /\ DOMAIN call' = TenantCalls /\ \A d \in TenantCalls \ {c} : call'[d] = call[d]
        /\ call'[c] = [phase |-> "rejected", on |-> NoConnection, swallowed |-> call[c].swallowed]
    BY <1>0, <1>7 DEF Rollback, Release
  <2>3. s # NoConnection
    BY <2>1, DatabasesAssumption
  <2> QED
    BY <2>1, <2>2, <2>3, <2>4, <2>5, Releases
<1> QED
  BY <1>1, <1>2, <1>3, <1>4, <1>5, <1>6, <1>7

(* The bootstrap skips the first piece, comes through the second if the keyspace is     *)
(* there, skips the third and fails at the fourth.                                     *)
LEMMA ScriptStep == ScriptOK /\ (InitKeyspace \/ ExecuteStatement) => ScriptOK'
<1> SUFFICES ASSUME ScriptOK, InitKeyspace \/ ExecuteStatement PROVE ScriptOK'
  OBVIOUS
<1>1. CASE InitKeyspace
  BY <1>1 DEF InitKeyspace, ScriptOK
<1>2. CASE ExecuteStatement
  <2> DEFINE at == NextPiece(script.at)
  <2>1. at \in {2, 4} /\ Len(Pieces) = 14
    BY <1>2, NextPieces, PiecesAre DEF ExecuteStatement, ScriptOK
  <2>2. Pieces[2].creates = "none" /\ ~Pieces[4].wellFormed
    BY PieceFacts, Zenon
  <2>3. \/ /\ at = 2 /\ objects' = objects
           /\ script' = [phase |-> "executing", at |-> 3]
        \/ /\ objects' = objects
           /\ script' = [phase |-> "rejected", at |-> at]
    BY <1>2, <2>1, <2>2 DEF ExecuteStatement
  <2> HIDE DEF at
  <2> QED
    BY <2>1, <2>3 DEF ScriptOK
<1> QED
  BY <1>1, <1>2

LEMMA DatabasesStep == DatabasesStrong /\ [PoolNext \/ BootstrapNext]_databasesVars => DatabasesStrong'
<1> SUFFICES ASSUME DatabasesStrong, [PoolNext \/ BootstrapNext]_databasesVars PROVE DatabasesStrong'
  OBVIOUS
<1>1. UNCHANGED poolVars => PoolStrong'
  BY DEF DatabasesStrong, poolVars, PoolStrong, CallHolds, ConnectionTyped, Free, RowsAreOfTheTenant
<1>2. UNCHANGED bootstrapVars => ScriptOK'
  BY DEF DatabasesStrong, bootstrapVars, ScriptOK
<1>3. CASE PoolNext
  BY <1>2, <1>3, CallStep DEF DatabasesStrong, PoolNext
<1>4. CASE BootstrapNext
  BY <1>1, <1>4, ScriptStep DEF DatabasesStrong, BootstrapNext
<1>5. CASE UNCHANGED databasesVars
  BY <1>1, <1>2, <1>5 DEF DatabasesStrong, databasesVars
<1> QED
  BY <1>3, <1>4, <1>5

-----------------------------------------------------------------------------
(***************************************************************************)
(* The provisioner.                                                        *)
(***************************************************************************)
\* The names in order: what step s creates at the place k.
Sizes == <<3, 1, 5, 1, 1>>
LEMMA ObjectsAre ==
    /\ Len(StepObjects) = 5
    /\ \A s \in 1..5 : Len(StepObjects[s]) = Sizes[s] /\ Sizes[s] \in Nat \ {0}
    /\ \A s \in 1..5 : ToSet(StepObjects[s]) = {StepObjects[s][k] : k \in 1..Sizes[s]}
    /\ ToSet(StepObjects[1]) = {"namespace", "network-policy", "service-account"}
    /\ ToSet(StepObjects[2]) = {"kafka-topics"}
    /\ ToSet(StepObjects[3]) = {"auditor", "governor", "green-architect", "finance", "execution-engine"}
    /\ ToSet(StepObjects[4]) = {"ledger-init"}
    /\ ToSet(StepObjects[5]) = {"tenant-provisioned"}
    /\ StepObjects[1][1] = "namespace" /\ StepObjects[5][1] = "tenant-provisioned"
    /\ StepObjects[3] = Deployments
<1>1. /\ StepObjects[1] = Step1Objects /\ StepObjects[2] = Step2Objects /\ StepObjects[3] = Deployments
      /\ StepObjects[4] = Step4Objects /\ StepObjects[5] = Step5Objects /\ Len(StepObjects) = 5
  BY DEF StepObjects
<1>2. /\ Len(Step1Objects) = 3 /\ Len(Step2Objects) = 1 /\ Len(Deployments) = 5
      /\ Len(Step4Objects) = 1 /\ Len(Step5Objects) = 1
  BY DEF Step1Objects, Step2Objects, Deployments, Step4Objects, Step5Objects
<1>3. /\ Sizes[1] = 3 /\ Sizes[2] = 1 /\ Sizes[3] = 5 /\ Sizes[4] = 1 /\ Sizes[5] = 1
  BY DEF Sizes
<1>4. \A s \in 1..5 : s = 1 \/ s = 2 \/ s = 3 \/ s = 4 \/ s = 5
  OBVIOUS
<1>5. \A s \in 1..5 : Len(StepObjects[s]) = Sizes[s] /\ Sizes[s] \in Nat \ {0}
  <2>1. /\ Len(StepObjects[1]) = Sizes[1] /\ Len(StepObjects[2]) = Sizes[2] /\ Len(StepObjects[3]) = Sizes[3]
        /\ Len(StepObjects[4]) = Sizes[4] /\ Len(StepObjects[5]) = Sizes[5]
    BY <1>1, <1>2, <1>3
  <2>2. \A n \in {1, 3, 5} : n \in Nat \ {0}
    OBVIOUS
  <2>3. /\ Sizes[1] \in Nat \ {0} /\ Sizes[2] \in Nat \ {0} /\ Sizes[3] \in Nat \ {0}
        /\ Sizes[4] \in Nat \ {0} /\ Sizes[5] \in Nat \ {0}
    BY <1>3, <2>2, Zenon
  <2> QED
    BY <1>4, <2>1, <2>3, Zenon
<1>6. /\ DOMAIN Step1Objects = 1..3 /\ DOMAIN Step2Objects = 1..1 /\ DOMAIN Deployments = 1..5
      /\ DOMAIN Step4Objects = 1..1 /\ DOMAIN Step5Objects = 1..1
  BY DEF Step1Objects, Step2Objects, Deployments, Step4Objects, Step5Objects
<1>7. \A s \in 1..5 : ToSet(StepObjects[s]) = {StepObjects[s][k] : k \in 1..Sizes[s]}
  BY <1>1, <1>3, <1>4, <1>6 DEF ToSet
<1>8. ToSet(StepObjects[1]) = {"namespace", "network-policy", "service-account"}
  BY <1>1, <1>6 DEF ToSet, Step1Objects
<1>9. ToSet(StepObjects[2]) = {"kafka-topics"}
  BY <1>1, <1>6 DEF ToSet, Step2Objects
<1>10. ToSet(StepObjects[3]) = {"auditor", "governor", "green-architect", "finance", "execution-engine"}
  BY <1>1, <1>6 DEF ToSet, Deployments
<1>11. ToSet(StepObjects[4]) = {"ledger-init"}
  BY <1>1, <1>6 DEF ToSet, Step4Objects
<1>12. ToSet(StepObjects[5]) = {"tenant-provisioned"}
  BY <1>1, <1>6 DEF ToSet, Step5Objects
<1>13. StepObjects[1][1] = "namespace" /\ StepObjects[5][1] = "tenant-provisioned"
  BY <1>1 DEF Step1Objects, Step5Objects
<1> QED
  BY <1>1, <1>5, <1>7, <1>8, <1>9, <1>10, <1>11, <1>12, <1>13

\* A call past its first object, the only call that may be.
Past(a) == attempt[a].step > 1 \/ attempt[a].at > 1
AtWork == {"creating", "listing"}

\* What a call that works has created.
Made(a) == ObjectsBefore(attempt[a].step)
                \cup {StepObjects[attempt[a].step][k] : k \in 1..(attempt[a].at - 1)}

AllTrue(s, n) == s \in Seq(BOOLEAN) /\ Len(s) = n /\ \A k \in 1..n : s[k] = TRUE

AttemptOK(a) ==
    /\ attempt[a] = [phase |-> attempt[a].phase, step |-> attempt[a].step, at |-> attempt[a].at, steps |-> attempt[a].steps]
    /\ attempt[a].step \in 1..5 /\ attempt[a].at \in Nat \ {0} /\ attempt[a].steps \in Seq(BOOLEAN)
    /\ Past(a) => "namespace" \in cluster
    /\ attempt[a].phase = "idle" => ~Past(a) /\ attempt[a].steps = <<>>
    /\ attempt[a].phase \in AtWork =>
        /\ attempt[a].at <= Sizes[attempt[a].step]
        /\ AllTrue(attempt[a].steps, attempt[a].step - 1)
        /\ Made(a) \subseteq cluster
    /\ attempt[a].phase = "listing" => attempt[a].step = 5
    /\ attempt[a].phase = "creating" /\ attempt[a].step = 5 => pods # {}
    /\ attempt[a].phase = "resolved" => cluster = AllObjects /\ AllTrue(attempt[a].steps, 5) /\ pods # {}

ClusterOK ==
    /\ cluster \subseteq AllObjects /\ pods \subseteq ToSet(Deployments) \cap cluster
    /\ cluster \cap ToSet(Deployments) # {} => ToSet(StepObjects[1]) \subseteq cluster
    /\ "tenant-provisioned" \in cluster => cluster = AllObjects /\ pods # {}

ProvisionStrong ==
    /\ DOMAIN attempt = Attempts /\ ClusterOK
    /\ \A a \in Attempts : AttemptOK(a)
    /\ \A a, b \in Attempts : a # b => ~(Past(a) /\ Past(b))

LEMMA BeforeAre ==
    /\ AllObjects = UNION {ToSet(StepObjects[s]) : s \in 1..5}
    /\ ObjectsBefore(1) = {}
    /\ \A s \in 1..4 : ObjectsBefore(s + 1) = ObjectsBefore(s) \cup ToSet(StepObjects[s])
    /\ \A s \in 1..5 : ToSet(StepObjects[s]) \subseteq AllObjects
    /\ AllObjects = ObjectsBefore(5) \cup ToSet(StepObjects[5])
    /\ \A s \in 2..5 : ToSet(StepObjects[1]) \subseteq ObjectsBefore(s)
<1>1. AllObjects = UNION {ToSet(StepObjects[s]) : s \in 1..5}
  BY ObjectsAre DEF AllObjects
<1>2. ObjectsBefore(1) = {}
  BY DEF ObjectsBefore
<1>3. ASSUME NEW s \in 1..4 PROVE ObjectsBefore(s + 1) = ObjectsBefore(s) \cup ToSet(StepObjects[s])
  <2>1. 1..((s + 1) - 1) = (1..(s - 1)) \cup {s}
    OBVIOUS
  <2> QED
    BY <2>1 DEF ObjectsBefore
<1>4. 1..5 = (1..(5 - 1)) \cup {5}
  OBVIOUS
<1>5. AllObjects = ObjectsBefore(5) \cup ToSet(StepObjects[5])
  BY <1>1, <1>4 DEF ObjectsBefore
<1>6. \A s \in 2..5 : ToSet(StepObjects[1]) \subseteq ObjectsBefore(s)
  <2>1. \A s \in 2..5 : 1 \in 1..(s - 1)
    OBVIOUS
  <2> QED
    BY <2>1 DEF ObjectsBefore
<1> QED
  BY <1>1, <1>2, <1>3, <1>5, <1>6

\* The object at a place tells the step where it matters.
LEMMA ObjectFacts ==
    ASSUME NEW s \in 1..5, NEW k \in 1..Sizes[s]
    PROVE  LET object == StepObjects[s][k]
           IN  /\ object \in ToSet(StepObjects[s]) /\ object \in AllObjects
               /\ object \in ToSet(Deployments) => s = 3
               /\ object = "tenant-provisioned" => s = 5
               /\ s = 1 /\ k = 1 => object = "namespace"
<1> DEFINE object == StepObjects[s][k]
<1>1. object \in ToSet(StepObjects[s])
  BY ObjectsAre
<1>2. object \in AllObjects
  BY <1>1, BeforeAre
<1>3. s = 1 \/ s = 2 \/ s = 3 \/ s = 4 \/ s = 5
  OBVIOUS
<1>4. s = 1 /\ k = 1 => object = "namespace"
  BY ObjectsAre
<1> HIDE DEF object
<1>5. object \in ToSet(Deployments) => s = 3
  BY <1>1, <1>3, ObjectsAre
<1>6. object = "tenant-provisioned" => s = 5
  BY <1>1, <1>3, ObjectsAre
<1> QED
  BY <1>1, <1>2, <1>4, <1>5, <1>6 DEF object

LEMMA ProvisionInitial == ProvisionInit => ProvisionStrong
<1> SUFFICES ASSUME ProvisionInit PROVE ProvisionStrong
  OBVIOUS
<1>1. cluster = {} /\ pods = {}
  BY DEF ProvisionInit
<1>2. \A a \in Attempts : attempt[a] = [phase |-> "idle", step |-> 1, at |-> 1, steps |-> <<>>]
  BY DEF ProvisionInit
<1>3. \A a \in Attempts : AttemptOK(a) /\ ~Past(a)
  <2> SUFFICES ASSUME NEW a \in Attempts PROVE AttemptOK(a) /\ ~Past(a)
    OBVIOUS
  <2>1. attempt[a].phase = "idle" /\ attempt[a].step = 1 /\ attempt[a].at = 1 /\ attempt[a].steps = <<>>
    BY <1>2
  <2>2. attempt[a] = [phase |-> attempt[a].phase, step |-> attempt[a].step, at |-> attempt[a].at, steps |-> attempt[a].steps]
    BY <1>2
  <2> QED
    BY <2>1, <2>2 DEF AttemptOK, Past, AtWork
<1>4. DOMAIN attempt = Attempts
  BY DEF ProvisionInit
<1>5. ClusterOK
  BY <1>1 DEF ClusterOK
<1> QED
  BY <1>3, <1>4, <1>5 DEF ProvisionStrong

\* The objects grow; what holds of a call that does not move stays.
LEMMA ObjectsGrow ==
    ASSUME ProvisionStrong, NEW a \in Attempts, attempt'[a] = attempt[a],
           cluster \subseteq cluster', cluster' \subseteq AllObjects, pods \subseteq pods'
    PROVE  AttemptOK(a)' /\ (Past(a)' <=> Past(a))
<1>1. AttemptOK(a)
  BY DEF ProvisionStrong
<1>2. Past(a)' <=> Past(a)
  BY DEF Past
<1>3. Made(a)' = Made(a)
  BY DEF Made, ObjectsBefore
<1>4. cluster = AllObjects => cluster' = AllObjects
  OBVIOUS
<1>5. AllObjects' = AllObjects
  BY DEF AllObjects
<1>6. pods # {} => pods' # {}
  OBVIOUS
<1> DEFINE at == attempt[a]
<1>7. attempt'[a] = at /\ \A n : AllTrue(at.steps, n)' <=> AllTrue(at.steps, n)
  BY DEF AllTrue
<1> QED
  BY <1>1, <1>2, <1>3, <1>4, <1>5, <1>6, <1>7 DEF AttemptOK

\* When one call moves, it is enough to look at that call and at the objects.
LEMMA OneMoves ==
    ASSUME ProvisionStrong, NEW a \in Attempts,
           DOMAIN attempt' = Attempts, \A b \in Attempts \ {a} : attempt'[b] = attempt[b],
           cluster \subseteq cluster', pods \subseteq pods', ClusterOK', AttemptOK(a)',
           Past(a)' => Past(a) \/ \A b \in Attempts \ {a} : ~Past(b)
    PROVE  ProvisionStrong'
<1>1. cluster' \subseteq AllObjects
  <2>1. AllObjects' = AllObjects
    BY DEF AllObjects
  <2> QED
    BY <2>1 DEF ClusterOK
<1>2. \A b \in Attempts \ {a} : AttemptOK(b)' /\ (Past(b)' <=> Past(b))
  BY <1>1, ObjectsGrow
<1>3. \A b, c \in Attempts : b # c => ~(Past(b)' /\ Past(c)')
  BY <1>2 DEF ProvisionStrong
<1> QED
  BY <1>2, <1>3 DEF ProvisionStrong

LEMMA StrongFacts ==
    ASSUME ProvisionStrong, NEW a \in Attempts
    PROVE  /\ ClusterOK /\ AttemptOK(a) /\ DOMAIN attempt = Attempts
           /\ attempt[a] = [phase |-> attempt[a].phase, step |-> attempt[a].step, at |-> attempt[a].at, steps |-> attempt[a].steps]
           /\ attempt[a].step \in 1..5 /\ attempt[a].at \in Nat \ {0} /\ attempt[a].steps \in Seq(BOOLEAN)
           /\ Past(a) => "namespace" \in cluster
           /\ attempt[a].phase \in AtWork =>
               /\ attempt[a].at \in 1..Sizes[attempt[a].step] /\ Sizes[attempt[a].step] \in Nat
               /\ AllTrue(attempt[a].steps, attempt[a].step - 1)
               /\ Made(a) \subseteq cluster
           /\ attempt[a].phase = "listing" => attempt[a].step = 5
           /\ attempt[a].phase = "creating" /\ attempt[a].step = 5 => pods # {}
<1>1. ClusterOK /\ AttemptOK(a) /\ DOMAIN attempt = Attempts
  BY DEF ProvisionStrong
<1>2. attempt[a].step \in 1..5 /\ attempt[a].at \in Nat \ {0} /\ Sizes[attempt[a].step] \in Nat
  BY <1>1, ObjectsAre DEF AttemptOK
<1>3. attempt[a].at <= Sizes[attempt[a].step] => attempt[a].at \in 1..Sizes[attempt[a].step]
  BY <1>2
<1> QED
  BY <1>1, <1>2, <1>3 DEF AttemptOK

LEMMA RecordIs ==
    ASSUME ProvisionStrong, NEW a \in Attempts
    PROVE  /\ DOMAIN attempt = Attempts
           /\ attempt[a] = [phase |-> attempt[a].phase, step |-> attempt[a].step, at |-> attempt[a].at, steps |-> attempt[a].steps]
  BY DEF ProvisionStrong, AttemptOK

\* The records of a call.
LEMMA CallUpdate ==
    ASSUME NEW r, r = [phase |-> r.phase, step |-> r.step, at |-> r.at, steps |-> r.steps], NEW q
    PROVE  /\ [r EXCEPT !.phase = q] = [phase |-> q, step |-> r.step, at |-> r.at, steps |-> r.steps]
           /\ [r EXCEPT !.steps = q] = [phase |-> r.phase, step |-> r.step, at |-> r.at, steps |-> q]
  OBVIOUS

\* A call that only gets another phase.
LEMMA PhaseChanges ==
    ASSUME ProvisionStrong, NEW a \in Attempts, NEW phase, attempt' = [attempt EXCEPT ![a].phase = phase]
    PROVE  /\ attempt'[a] = [phase |-> phase, step |-> attempt[a].step, at |-> attempt[a].at, steps |-> attempt[a].steps]
           /\ DOMAIN attempt' = Attempts /\ \A b \in Attempts \ {a} : attempt'[b] = attempt[b]
<1>1. /\ attempt'[a] = [attempt[a] EXCEPT !.phase = phase]
      /\ DOMAIN attempt' = Attempts /\ \A b \in Attempts \ {a} : attempt'[b] = attempt[b]
  BY RecordIs
<1>2. [attempt[a] EXCEPT !.phase = phase] =
          [phase |-> phase, step |-> attempt[a].step, at |-> attempt[a].at, steps |-> attempt[a].steps]
  BY RecordIs, CallUpdate
<1> QED
  BY <1>1, <1>2

LEMMA MoreTrue ==
    ASSUME NEW s, NEW n \in Nat, AllTrue(s, n)
    PROVE  AllTrue(Append(s, TRUE), n + 1)
<1>1. s \in Seq(BOOLEAN) /\ Len(s) = n /\ \A k \in 1..n : s[k] = TRUE
  BY DEF AllTrue
<1>2. Append(s, TRUE) \in Seq(BOOLEAN) /\ Len(Append(s, TRUE)) = n + 1
  BY <1>1
<1>3. \A k \in 1..(n + 1) : Append(s, TRUE)[k] = TRUE
  BY <1>1
<1> QED
  BY <1>2, <1>3 DEF AllTrue

LEMMA ProvisionBegins ==
    ASSUME ProvisionStrong, NEW a \in Attempts, Provision(a)
    PROVE  ProvisionStrong'
<1>1. /\ attempt[a].phase = "idle" /\ attempt' = [attempt EXCEPT ![a].phase = "creating"]
      /\ cluster' = cluster /\ pods' = pods
  BY DEF Provision
<1>2. attempt[a].step = 1 /\ attempt[a].at = 1 /\ attempt[a].steps = <<>> /\ ~Past(a)
  <2>1. attempt[a].step \in 1..5 /\ attempt[a].at \in Nat \ {0}
    BY StrongFacts
  <2>2. ~Past(a) /\ attempt[a].steps = <<>>
    BY <1>1, StrongFacts DEF AttemptOK
  <2> QED
    BY <2>1, <2>2 DEF Past
<1>3. /\ attempt'[a] = [phase |-> "creating", step |-> 1, at |-> 1, steps |-> <<>>]
      /\ DOMAIN attempt' = Attempts /\ \A b \in Attempts \ {a} : attempt'[b] = attempt[b]
  BY <1>1, <1>2, PhaseChanges
<1>4. ClusterOK'
  BY <1>1, StrongFacts DEF ClusterOK, AllObjects
<1>5. ~Past(a)'
  BY <1>3 DEF Past
<1>6. Made(a)' = {}
  <2>1. ObjectsBefore(1) = {} /\ 1..(1 - 1) = {}
    BY BeforeAre
  <2> QED
    BY <1>3, <2>1 DEF Made, ObjectsBefore
<1>7. AllTrue(<<>>, 1 - 1)
  BY DEF AllTrue
<1>8. 1 <= Sizes[1]
  BY DEF Sizes
<1>9. AttemptOK(a)'
  <2>1. attempt'[a].phase = "creating" /\ attempt'[a].step = 1 /\ attempt'[a].at = 1 /\ attempt'[a].steps = <<>>
    BY <1>3
  <2>2. AllTrue(attempt'[a].steps, attempt'[a].step - 1)
    BY <1>7, <2>1, Zenon
  <2> QED
    BY <1>3, <1>5, <1>6, <1>8, <2>1, <2>2 DEF AttemptOK, AtWork, AllTrue
<1> QED
  BY <1>1, <1>3, <1>4, <1>5, <1>9, OneMoves

\* The objects after a create call, whatever came of it.
LEMMA ObjectsAfterCreate ==
    ASSUME ProvisionStrong, NEW a \in Attempts, attempt[a].phase = "creating", pods' = pods,
           cluster' \in {cluster, cluster \cup {StepObjects[attempt[a].step][attempt[a].at]}}
    PROVE  ClusterOK'
<1> DEFINE s == attempt[a].step
           k == attempt[a].at
           object == StepObjects[s][k]
<1>1. /\ s \in 1..5 /\ k \in 1..Sizes[s] /\ Made(a) \subseteq cluster
      /\ (s = 5 => pods # {}) /\ ClusterOK
  BY StrongFacts DEF AtWork
<1>2. /\ object \in ToSet(StepObjects[s]) /\ object \in AllObjects
      /\ object \in ToSet(Deployments) => s = 3
      /\ object = "tenant-provisioned" => s = 5
  BY <1>1, ObjectFacts
<1>3. ObjectsBefore(s) \subseteq cluster
  BY <1>1 DEF Made
<1>4. s = 3 => ToSet(StepObjects[1]) \subseteq cluster
  <2>1. ToSet(StepObjects[1]) \subseteq ObjectsBefore(3)
    BY BeforeAre
  <2> QED
    BY <1>3, <2>1
<1>5. s = 5 => AllObjects \subseteq cluster \cup {object}
  <2>1. ToSet(StepObjects[5]) = {"tenant-provisioned"} /\ StepObjects[5][1] = "tenant-provisioned"
    BY ObjectsAre
  <2>2. s = 5 => object = "tenant-provisioned"
    BY <1>2, <2>1
  <2> HIDE DEF object
  <2> QED
    BY <1>3, <2>1, <2>2, BeforeAre
<1>6. cluster' = cluster \/ cluster' = cluster \cup {object}
  OBVIOUS
<1> HIDE DEF object, s, k
<1>7. /\ cluster' \subseteq AllObjects /\ pods' \subseteq ToSet(Deployments) \cap cluster'
      /\ cluster' \cap ToSet(Deployments) # {} => ToSet(StepObjects[1]) \subseteq cluster'
  BY <1>1, <1>2, <1>4, <1>6 DEF ClusterOK
<1>8. "tenant-provisioned" \in cluster' => cluster' = AllObjects /\ pods' # {}
  <2>1. CASE cluster' = cluster
    BY <1>1, <2>1 DEF ClusterOK
  <2>2. CASE cluster' = cluster \cup {object}
    <3>1. CASE object = "tenant-provisioned"
      BY <1>1, <1>2, <1>5, <1>7, <2>2, <3>1
    <3>2. CASE object # "tenant-provisioned"
      BY <1>1, <1>7, <2>2, <3>2 DEF ClusterOK
    <3> QED
      BY <3>1, <3>2
  <2> QED
    BY <1>6, <2>1, <2>2
<1>9. AllObjects' = AllObjects /\ ToSet(StepObjects[1])' = ToSet(StepObjects[1]) /\ ToSet(Deployments)' = ToSet(Deployments)
  BY DEF AllObjects
<1> QED
  BY <1>7, <1>8, <1>9 DEF ClusterOK

\* A call that fails keeps its place; nothing more is asked of it.
LEMMA CallFails ==
    ASSUME ProvisionStrong, NEW a \in Attempts, StepFails(a), cluster \subseteq cluster', pods' = pods, ClusterOK'
    PROVE  ProvisionStrong'
<1>0. PICK longer : longer = Append(attempt[a].steps, FALSE)
  OBVIOUS
<1>1. /\ attempt'[a] = [phase |-> "rejected", step |-> attempt[a].step, at |-> attempt[a].at, steps |-> longer]
      /\ DOMAIN attempt' = Attempts /\ \A b \in Attempts \ {a} : attempt'[b] = attempt[b]
  <2>1. PICK failed : failed = [attempt[a] EXCEPT !.phase = "rejected"]
    OBVIOUS
  <2>2. /\ attempt'[a] = [failed EXCEPT !.steps = longer]
        /\ DOMAIN attempt' = Attempts /\ \A b \in Attempts \ {a} : attempt'[b] = attempt[b]
    BY <1>0, <2>1, RecordIs DEF StepFails
  <2>3. failed = [phase |-> "rejected", step |-> attempt[a].step, at |-> attempt[a].at, steps |-> attempt[a].steps]
    BY <2>1, RecordIs, CallUpdate
  <2>4. /\ failed = [phase |-> failed.phase, step |-> failed.step, at |-> failed.at, steps |-> failed.steps]
        /\ failed.phase = "rejected" /\ failed.step = attempt[a].step /\ failed.at = attempt[a].at
    BY <2>3
  <2>5. [failed EXCEPT !.steps = longer] = [phase |-> failed.phase, step |-> failed.step, at |-> failed.at, steps |-> longer]
    BY <2>4, CallUpdate
  <2> QED
    BY <2>2, <2>4, <2>5
<1>2. /\ attempt'[a].phase = "rejected" /\ attempt'[a].step = attempt[a].step /\ attempt'[a].at = attempt[a].at
      /\ attempt'[a].steps = longer
  BY <1>1
<1>3. Past(a)' <=> Past(a)
  BY <1>2 DEF Past
<1>4. longer \in Seq(BOOLEAN)
  <2>1. attempt[a].steps \in Seq(BOOLEAN)
    BY StrongFacts
  <2> QED
    BY <1>0, <2>1
<1>5. AttemptOK(a)'
  <2>1. attempt[a].step \in 1..5 /\ attempt[a].at \in Nat \ {0} /\ (Past(a) => "namespace" \in cluster)
    BY StrongFacts
  <2> QED
    BY <1>1, <1>2, <1>3, <1>4, <2>1 DEF AttemptOK, AtWork
<1> QED
  BY <1>1, <1>3, <1>5, OneMoves

\* A call whose object was created moves to the next object, or resolves.
LEMMA CallAdvances ==
    ASSUME ProvisionStrong, NEW a \in Attempts, attempt[a].phase = "creating", StepAdvances(a), pods' = pods,
           StepObjects[attempt[a].step][attempt[a].at] \notin cluster,
           cluster' = cluster \cup {StepObjects[attempt[a].step][attempt[a].at]}
    PROVE  ProvisionStrong'
<1> DEFINE was == attempt[a]
           now == attempt'[a]
           object == StepObjects[was.step][was.at]
           last == was.at = Sizes[was.step]
<1>1. /\ was.step \in 1..5 /\ was.at \in 1..Sizes[was.step] /\ Sizes[was.step] \in Nat
      /\ Made(a) \subseteq cluster /\ AllTrue(was.steps, was.step - 1) /\ was.steps \in Seq(BOOLEAN)
      /\ (was.step = 5 => pods # {}) /\ DOMAIN attempt = Attempts /\ (Past(a) => "namespace" \in cluster)
  BY StrongFacts DEF AtWork
<1>2. Len(StepObjects[was.step]) = Sizes[was.step] /\ Len(StepObjects) = 5
  BY <1>1, ObjectsAre
<1>0. PICK longer : longer = Append(was.steps, TRUE)
  OBVIOUS
<1>3. now = [phase |-> IF ~last THEN "creating" ELSE IF was.step = 5 THEN "resolved"
                       ELSE IF was.step + 1 = 5 THEN "listing" ELSE "creating",
             step |-> IF last /\ was.step < 5 THEN was.step + 1 ELSE was.step,
             at |-> IF last THEN 1 ELSE was.at + 1,
             steps |-> IF last THEN longer ELSE was.steps]
  BY <1>0, <1>1, <1>2 DEF StepAdvances
<1>4. DOMAIN attempt' = Attempts /\ \A b \in Attempts \ {a} : attempt'[b] = attempt[b]
  BY <1>1 DEF StepAdvances
<1>5. ClusterOK'
  BY ObjectsAfterCreate
<1>6. "namespace" \in cluster' /\ (~Past(a) => "namespace" \notin cluster)
  <2>1. ~Past(a) => was.step = 1 /\ was.at = 1
    BY <1>1 DEF Past
  <2>2. ~Past(a) => object = "namespace"
    BY <1>1, <2>1, ObjectFacts
  <2> HIDE DEF object
  <2> QED
    BY <1>1, <2>2 DEF object
<1>7. ~Past(a) => \A b \in Attempts \ {a} : ~Past(b)
  <2>1. \A b \in Attempts : Past(b) => "namespace" \in cluster
    BY StrongFacts
  <2> QED
    BY <1>6, <2>1
<1>8. AllTrue(longer, was.step)
  <2>1. was.step - 1 \in Nat /\ (was.step - 1) + 1 = was.step
    BY <1>1
  <2>2. AllTrue(Append(was.steps, TRUE), (was.step - 1) + 1)
    BY <1>1, <2>1, MoreTrue
  <2> QED
    BY <1>0, <2>1, <2>2
<1>9. ObjectsBefore(was.step) \cup {StepObjects[was.step][k] : k \in 1..was.at} \subseteq cluster'
  <2>1. 1..was.at = (1..(was.at - 1)) \cup {was.at}
    BY <1>1
  <2> QED
    BY <1>1, <2>1 DEF Made
<1>10. last => ObjectsBefore(was.step) \cup ToSet(StepObjects[was.step]) \subseteq cluster'
  <2>1. ToSet(StepObjects[was.step]) = {StepObjects[was.step][k] : k \in 1..Sizes[was.step]}
    BY <1>1, ObjectsAre
  <2> QED
    BY <1>9, <2>1
<1>11. CASE ~last
  <2>1. now = [phase |-> "creating", step |-> was.step, at |-> was.at + 1, steps |-> was.steps]
    BY <1>3, <1>11
  <2>2. now.phase = "creating" /\ now.step = was.step /\ now.at = was.at + 1 /\ now.steps = was.steps
    BY <2>1
  <2>3. was.at + 1 \in Nat \ {0} /\ was.at + 1 <= Sizes[was.step] /\ (was.at + 1) - 1 = was.at
    BY <1>1, <1>11
  <2>4. Made(a)' \subseteq cluster'
    BY <1>9, <2>2, <2>3 DEF Made, ObjectsBefore
  <2>5. AllTrue(now.steps, now.step - 1)
    BY <1>1, <2>2
  <2>6. AttemptOK(a)'
    BY <1>1, <1>6, <2>1, <2>2, <2>3, <2>4, <2>5 DEF AttemptOK, AtWork, AllTrue
  <2> QED
    BY <1>4, <1>5, <1>7, <2>6, OneMoves
<1>12. CASE last /\ was.step = 5
  <2>1. now = [phase |-> "resolved", step |-> 5, at |-> 1, steps |-> longer]
    BY <1>3, <1>12
  <2>2. now.phase = "resolved" /\ now.step = 5 /\ now.at = 1 /\ now.steps = longer
    BY <2>1
  <2>3. cluster' = AllObjects
    <3>1. cluster' \subseteq AllObjects
      BY <1>5 DEF ClusterOK, AllObjects
    <3> QED
      BY <1>10, <1>12, <3>1, BeforeAre
  <2>4. AllTrue(now.steps, 5)
    BY <1>8, <1>12, <2>2
  <2>5. AllObjects' = AllObjects
    BY DEF AllObjects
  <2>6. AttemptOK(a)'
    BY <1>1, <1>6, <1>12, <2>1, <2>2, <2>3, <2>4, <2>5 DEF AttemptOK, AtWork, AllTrue
  <2> QED
    BY <1>4, <1>5, <1>7, <2>6, OneMoves
<1>13. CASE last /\ was.step # 5
  <2>1. was.step \in 1..4 /\ was.step + 1 \in 1..5 /\ (was.step + 1) - 1 = was.step /\ was.step < 5
    BY <1>1, <1>13
  <2>10. PICK phase : phase = IF was.step + 1 = 5 THEN "listing" ELSE "creating"
    OBVIOUS
  <2>0. now = [phase |-> phase, step |-> was.step + 1, at |-> 1, steps |-> longer]
    BY <1>3, <1>13, <2>1, <2>10
  <2>2. now.phase = phase /\ now.step = was.step + 1 /\ now.at = 1 /\ now.steps = longer
    BY <2>0
  <2>7. phase \in {"creating", "listing"} /\ (phase = "listing" <=> was.step + 1 = 5)
    BY <2>10
  <2>3. Made(a)' \subseteq cluster'
    <3>1. ObjectsBefore(was.step + 1) = ObjectsBefore(was.step) \cup ToSet(StepObjects[was.step])
      BY <2>1, BeforeAre
    <3>2. 1..(1 - 1) = {}
      OBVIOUS
    <3>3. Made(a)' = ObjectsBefore(was.step + 1)
      BY <2>2, <3>2 DEF Made, ObjectsBefore
    <3> QED
      BY <1>10, <1>13, <3>1, <3>3
  <2>4. AllTrue(now.steps, now.step - 1)
    BY <1>8, <2>1, <2>2
  <2>5. Sizes[was.step + 1] \in Nat \ {0}
    BY <2>1, ObjectsAre
  <2>8. longer \in Seq(BOOLEAN) /\ 1 \in Nat \ {0} /\ 1 <= Sizes[was.step + 1]
    BY <1>8, <2>5 DEF AllTrue
  <2> HIDE DEF now
  <2>9. /\ now = [phase |-> now.phase, step |-> now.step, at |-> now.at, steps |-> now.steps]
        /\ now.step \in 1..5 /\ now.at \in Nat \ {0} /\ now.steps \in Seq(BOOLEAN) /\ now.at <= Sizes[now.step]
        /\ now.phase \in {"creating", "listing"} /\ (now.phase = "listing" <=> now.step = 5)
    BY <2>0, <2>1, <2>2, <2>7, <2>8
  <2>6. AttemptOK(a)'
    BY <1>6, <2>3, <2>4, <2>9 DEF AttemptOK, AtWork, AllTrue, now
  <2> QED
    BY <1>4, <1>5, <1>7, <2>6, OneMoves
<1> QED
  BY <1>11, <1>12, <1>13

LEMMA PodsListed ==
    ASSUME ProvisionStrong, NEW a \in Attempts, ListPods(a)
    PROVE  ProvisionStrong'
<1>1. attempt[a].phase = "listing" /\ cluster' = cluster /\ pods' = pods
  BY DEF ListPods
<1>2. ClusterOK'
  BY <1>1, StrongFacts DEF ClusterOK, AllObjects
<1>3. CASE StepFails(a)
  BY <1>1, <1>2, <1>3, CallFails
<1>4. CASE pods # {} /\ attempt' = [attempt EXCEPT ![a].phase = "creating"]
  <2>1. /\ attempt'[a] = [phase |-> "creating", step |-> attempt[a].step, at |-> attempt[a].at, steps |-> attempt[a].steps]
        /\ DOMAIN attempt' = Attempts /\ \A b \in Attempts \ {a} : attempt'[b] = attempt[b]
    BY <1>4, PhaseChanges
  <2>2. /\ attempt'[a].phase = "creating" /\ attempt'[a].step = attempt[a].step /\ attempt'[a].at = attempt[a].at
        /\ attempt'[a].steps = attempt[a].steps
    BY <2>1
  <2>3. (Past(a)' <=> Past(a)) /\ Made(a)' = Made(a)
    BY <2>2 DEF Past, Made, ObjectsBefore
  <2>4. AttemptOK(a)'
    <3>1. /\ attempt[a].step \in 1..5 /\ attempt[a].at \in Nat \ {0} /\ attempt[a].steps \in Seq(BOOLEAN)
          /\ (Past(a) => "namespace" \in cluster) /\ attempt[a].at <= Sizes[attempt[a].step]
          /\ AllTrue(attempt[a].steps, attempt[a].step - 1) /\ Made(a) \subseteq cluster
      BY <1>1 DEF ProvisionStrong, AttemptOK, AtWork
    <3> QED
      BY <1>1, <1>4, <2>1, <2>2, <2>3, <3>1 DEF AttemptOK, AtWork, AllTrue
  <2> QED
    BY <1>1, <1>2, <2>1, <2>3, <2>4, OneMoves
<1> QED
  BY <1>3, <1>4 DEF ListPods

LEMMA PodStarts ==
    ASSUME ProvisionStrong, PodScheduled
    PROVE  ProvisionStrong'
<1>1. /\ \E d \in ToSet(Deployments) \cap cluster : pods' = pods \cup {d}
      /\ cluster' = cluster /\ attempt' = attempt
  BY DEF PodScheduled
<1>2. ClusterOK'
  <2>1. ClusterOK
    BY DEF ProvisionStrong
  <2> QED
    BY <1>1, <2>1 DEF ClusterOK, AllObjects
<1>3. \A a \in Attempts : AttemptOK(a)' /\ (Past(a)' <=> Past(a))
  <2>1. cluster' \subseteq AllObjects
    BY <1>1 DEF ProvisionStrong, ClusterOK
  <2> QED
    BY <1>1, <2>1, ObjectsGrow
<1> QED
  BY <1>1, <1>2, <1>3 DEF ProvisionStrong

LEMMA ProvisionStep == ProvisionStrong /\ [ProvisionNext]_provisionVars => ProvisionStrong'
<1> SUFFICES ASSUME ProvisionStrong, [ProvisionNext]_provisionVars PROVE ProvisionStrong'
  OBVIOUS
<1>1. CASE UNCHANGED provisionVars
  BY <1>1 DEF provisionVars, ProvisionStrong, ClusterOK, AttemptOK, Past, Made, AllObjects, ObjectsBefore, AllTrue
<1>2. ASSUME NEW a \in Attempts, Provision(a) \/ CreateObject(a) \/ ListPods(a) PROVE ProvisionStrong'
  <2>1. CASE CreateObject(a)
    <3> DEFINE object == StepObjects[attempt[a].step][attempt[a].at]
    <3>1. attempt[a].phase = "creating" /\ pods' = pods
      BY <2>1 DEF CreateObject
    <3>2. CASE object \notin cluster /\ cluster' = cluster \cup {object} /\ StepAdvances(a)
      BY <3>1, <3>2, CallAdvances
    <3>3. CASE cluster' \in {cluster, cluster \cup {object}} /\ StepFails(a)
      <4>1. ClusterOK'
        BY <3>1, <3>3, ObjectsAfterCreate
      <4> QED
        BY <3>1, <3>3, <4>1, CallFails
    <3> QED
      BY <2>1, <3>2, <3>3 DEF CreateObject
  <2> QED
    BY <1>2, <2>1, ProvisionBegins, PodsListed
<1>3. CASE PodScheduled
  BY <1>3, PodStarts
<1> QED
  BY <1>1, <1>2, <1>3 DEF ProvisionNext

LEMMA ProvisionImplies == ProvisionStrong => ProvisionInv
<1> SUFFICES ASSUME ProvisionStrong PROVE ProvisionInv
  OBVIOUS
<1>1. ClusterOK /\ \A a \in Attempts : AttemptOK(a)
  BY DEF ProvisionStrong
<1>2. ProvisionTypeOK
  BY <1>1, ObjectsAre DEF ProvisionTypeOK, ClusterOK, AttemptOK
<1>3. PodsAreIsolated
  BY <1>1, ObjectsAre DEF PodsAreIsolated, ClusterOK
<1>4. ASSUME NEW a \in Attempts, attempt[a].phase = "resolved"
      PROVE  cluster = AllObjects /\ attempt[a].steps = <<TRUE, TRUE, TRUE, TRUE, TRUE>>
  <2>1. cluster = AllObjects /\ AllTrue(attempt[a].steps, 5)
    BY <1>1, <1>4 DEF AttemptOK
  <2>2. \A s \in Seq(BOOLEAN) : Len(s) = 5 /\ (\A k \in 1..5 : s[k] = TRUE) => s = <<TRUE, TRUE, TRUE, TRUE, TRUE>>
    <3> SUFFICES ASSUME NEW s \in Seq(BOOLEAN), Len(s) = 5, \A k \in 1..5 : s[k] = TRUE
                 PROVE  s = <<TRUE, TRUE, TRUE, TRUE, TRUE>>
      OBVIOUS
    <3> DEFINE five == <<TRUE, TRUE, TRUE, TRUE, TRUE>>
    <3>1. s = [k \in 1..5 |-> s[k]]
      BY LenProperties
    <3>2. s = [k \in 1..5 |-> TRUE]
      BY <3>1
    <3>3. five \in Seq(BOOLEAN) /\ Len(five) = 5
      OBVIOUS
    <3>4. \A k \in 1..5 : five[k] = TRUE
      <4>1. five[1] = TRUE /\ five[2] = TRUE /\ five[3] = TRUE /\ five[4] = TRUE /\ five[5] = TRUE
        OBVIOUS
      <4>2. \A k \in 1..5 : k = 1 \/ k = 2 \/ k = 3 \/ k = 4 \/ k = 5
        OBVIOUS
      <4> HIDE DEF five
      <4> QED
        BY <4>1, <4>2, Zenon
    <3> HIDE DEF five
    <3>5. five = [k \in 1..5 |-> five[k]]
      BY <3>3, LenProperties
    <3>6. five = [k \in 1..5 |-> TRUE]
      BY <3>4, <3>5
    <3> QED
      BY <3>2, <3>6 DEF five
  <2> QED
    BY <2>1, <2>2 DEF AllTrue
<1>5. \A a \in Attempts : attempt[a].phase \in {"creating", "listing"} => ObjectsBefore(attempt[a].step) \subseteq cluster
  BY <1>1 DEF AttemptOK, AtWork, Made
<1>6. OneAttemptProvisions
  BY DEF ProvisionStrong, OneAttemptProvisions, Past
<1> QED
  BY <1>1, <1>2, <1>3, <1>4, <1>5, <1>6 DEF ProvisionInv, ProvisionedIsComplete, ClusterOK

-----------------------------------------------------------------------------
(***************************************************************************)
(* The composition: one component moves and the others stay, so each does  *)
(* a step of its own or none.                                              *)
(***************************************************************************)
LEMMA ProtocolsMoveAlone ==
    [PlatformNext]_platformVars => [Next]_vars /\ [A2ANext]_a2aVars /\ [MCPNext]_mcpVars
  BY DEF PlatformNext, platformVars, protocolVars, Exchange, Submit, A2ANext, MCPNext

LEMMA DecisionsMoveAlone ==
    [PlatformNext]_platformVars =>
        /\ [CostNext \/ ChainArrives \/ ValidateClaims]_reasoningVars
        /\ [SecurityNext]_securityVars
  BY DEF PlatformNext, platformVars, decisionVars, Reason

(* Whatever is sent, changed, repeated or delivered in another order, the  *)
(* mandates of AP2 keep their types, a handler of A2A accepts what was     *)
(* signed for its tenant and trusts who may be trusted, and chunks of MCP  *)
(* that all arrived are the payload, put in order.                         *)
THEOREM ProtocolsInvHolds == PlatformSpec => []ProtocolsInv
<1> DEFINE Strong == MandateInv /\ A2AStrong /\ MCPStrong
<1>1. PlatformInit => Strong
  BY MandateInit, A2AInitial, MCPInitial DEF PlatformInit
<1>2. Strong /\ [PlatformNext]_platformVars => Strong'
  BY ProtocolsMoveAlone, MandateStep, A2AStep, MCPStep
<1>3. Strong => ProtocolsInv
  BY A2AImplies, MCPImplies DEF ProtocolsInv, MandateInv
<1> QED
  BY <1>1, <1>2, <1>3, PTL DEF PlatformSpec

(* Calls that do not overlap keep the budget, but for what works cost      *)
(* beyond what they were given, and every success is counted;              *)
(* worse signals never route to a lesser model; opposite conclusions are    *)
(* never merged; every unverified claim costs its points; and a request is *)
(* served only by the tenant and the role its key was issued for.          *)
THEOREM DecisionInvHolds == PlatformSpec => []DecisionInv
<1> DEFINE Strong == ReasoningStrong /\ SecurityStrong
<1>1. PlatformInit => Strong
  BY ReasoningInitial, SecurityInitial DEF PlatformInit
<1>2. Strong /\ [PlatformNext]_platformVars => Strong'
  BY DecisionsMoveAlone, ReasoningStep, SecurityStep
<1>3. Strong => DecisionInv
  BY ReasoningImplies, SecurityImplies DEF DecisionInv
<1> QED
  BY <1>1, <1>2, <1>3, PTL DEF PlatformSpec

LEMMA StorageMovesAlone ==
    [PlatformNext]_platformVars =>
        /\ [StoresNext]_storesVars
        /\ [PoolNext \/ BootstrapNext]_databasesVars
        /\ [ProvisionNext]_provisionVars
  BY DEF PlatformNext, platformVars, storageVars, Store, Query, StoresNext

(* Overlapping adds tell one caller of a window that is over its limit; a  *)
(* mark loses figures only to a heartbeat it overtook; what an invalidation *)
(* or a scan found is deleted or returned; a module has one open client    *)
(* unless closes overlapped; a connection is back in the pool without a    *)
(* transaction if ROLLBACK was answered on it, and until one is not nothing *)
(* is committed unasked; and a tenant that counts as provisioned is, by one *)
(* call.                                                                   *)
THEOREM StorageInvHolds == PlatformSpec => []StorageInv
<1> DEFINE Strong == StoresStrong /\ DatabasesStrong /\ ProvisionStrong
<1>1. PlatformInit => Strong
  BY StoresInitial, DatabasesInitial, ProvisionInitial DEF PlatformInit
<1>2. Strong /\ [PlatformNext]_platformVars => Strong'
  BY StorageMovesAlone, StoresStep, DatabasesStep, ProvisionStep
<1>3. Strong => StorageInv
  BY StoresImplies, PoolImplies, ProvisionImplies DEF StorageInv
<1> QED
  BY <1>1, <1>2, <1>3, PTL DEF PlatformSpec

LEMMA DeliveryMovesAlone ==
    [PlatformNext]_platformVars => [IngestNext]_ingestVars /\ [MessagingNext]_messagingVars
  BY DEF PlatformNext, platformVars, deliveryVars, Ingest, Deliver, IngestNext, MessagingNext

(* Every record a run has passed is in the topic or is a dead letter because *)
(* it does not normalize; a provider is reported unreachable only after ten *)
(* minutes without an answer; an activation is on the kill-switch topic only *)
(* if it is on the governance topic; a consumer that says it runs consumes, *)
(* until calls overlap or fail; it passes over no event since it last began *)
(* without an offset to resume from; and system topics, once created, stay  *)
(* and are nobody's, but those under a first part that is a tenant's name.  *)
THEOREM PipelineInvHolds == PlatformSpec => []PipelineInv
<1> DEFINE Strong == IngestStrong /\ MessagingStrong
<1>1. PlatformInit => Strong
  BY IngestInitial, MessagingInitial DEF PlatformInit
<1>2. Strong /\ [PlatformNext]_platformVars => Strong'
  BY DeliveryMovesAlone, IngestStep, MessagingStep
<1>3. Strong => PipelineInv
  BY IngestImplies, MessagingImplies DEF PipelineInv
<1> QED
  BY <1>1, <1>2, <1>3, PTL DEF PlatformSpec
=============================================================================
