-------------------------- MODULE Epistemic_proofs ---------------------------
(***************************************************************************)
(* Proofs about the epistemic layer.                                       *)
(*                                                                         *)
(* First ReputationLedger, for any set of origins, any scale and any gains *)
(* and losses: what halving loses (HalfCost), what an event leaves         *)
(* (AfterInRange) and the books of an origin whose score is replaced       *)
(* (Replaced).                                                             *)
(*                                                                         *)
(* Then EpistemicMesh, for any number of nodes, any claims, any graph and  *)
(* any parameters of the belief engine.  Sums, discounts, rounds of trust  *)
(* and the synchronisation are recursive functions: each has a solution    *)
(* (ChainExists, SetFoldExists), and what holds along it is shown by a     *)
(* least counterexample (CountingInduction, SubsetInduction).  Two sums    *)
(* are compared term by term (SumsCompare).  The search for cycles has an  *)
(* invariant of its own (SearchInv): whatever it has left is ranked so     *)
(* that every edge which stays goes down.                                  *)
(*                                                                         *)
(* Last, that the order of arrival does not matter.  Hashes are strictly   *)
(* and totally ordered (BelowTotal), so that a sorted list has one claim   *)
(* at every place (PlacesAreTaken); two lists of the same claims are       *)
(* permutations of each other, and sort to the same list (ByHashAgrees).   *)
(* The generated edges are therefore the same and go up in the order of    *)
(* the hashes, so that none is cut (NothingIsCut), and the graphs, groups, *)
(* trust and penalties of one node are those of the other, carried over by *)
(* the permutation (Permuted, Mirrored, Mirrors).                          *)
(***************************************************************************)
EXTENDS ReputationLedger, EpistemicMesh, FiniteSetTheorems, WellFoundedInduction, TLAPS

-----------------------------------------------------------------------------
(* Arithmetic.                                                             *)

LEMMA HalfCost ==
  ASSUME NEW g \in Nat
  PROVE  /\ Cost(g) \in Nat
         /\ 2 * Cost(g) <= g
         /\ g <= 2 * Cost(g) + 1
BY DEF Cost

LEMMA AfterInRange ==
  ASSUME NEW event \in Events, NEW current \in 0..Full
  PROVE  After(event, current) \in 0..Full
<1>1. Full \in Nat /\ Confirmed \in Nat /\ Active \in Nat /\ ContradictionLoss \in Nat
  BY LedgerAssumption
<1>2. CASE event = "EquivocationDetected"
  BY <1>1, <1>2 DEF After
<1>3. CASE event = "ClaimContradicted"
  BY <1>1, <1>3 DEF After, Less, Greater
<1>4. CASE event = "ClaimConfirmed"
  BY <1>1, <1>4 DEF After, Lesser
<1>5. CASE event = "ActiveParticipation"
  BY <1>1, <1>5 DEF After, Lesser
<1> QED
  BY <1>2, <1>3, <1>4, <1>5 DEF Events

(* Replacing a score never shrinks what credit has in excess of it.        *)
LEMMA Replaced ==
  ASSUME NEW old \in Nat, NEW new \in Nat, NEW c \in Nat
  PROVE  /\ Less(new, old) \in Nat
         /\ (c + Less(new, old)) - new >= c - old
BY DEF Less, Greater

(* What a delegator grants, and what it keeps.                             *)
LEMMA GrantInRange ==
  ASSUME LedgerTypeOK, NEW from \in Peers, NEW rep \in 0..Full
  PROVE  LET grant == CappedGrant(from, rep) IN
         /\ grant \in 0..Full /\ grant \in Nat
         /\ grant <= scores[from]
         /\ Cost(grant) \in Nat
         /\ 2 * Cost(grant) <= grant
         /\ grant <= 2 * Cost(grant) + 1
         /\ Less(scores[from], Cost(grant)) \in 0..Full
         /\ Less(scores[from], Cost(grant)) = scores[from] - Cost(grant)
<1> DEFINE grant == CappedGrant(from, rep)
<1>1. Full \in Nat /\ scores[from] \in 0..Full
  BY LedgerAssumption DEF LedgerTypeOK
<1>2. grant \in 0..Full /\ grant <= scores[from]
  BY <1>1 DEF CappedGrant, Lesser
<1>3. /\ grant \in Nat /\ Cost(grant) \in Nat
      /\ 2 * Cost(grant) <= grant /\ grant <= 2 * Cost(grant) + 1
  BY <1>1, <1>2, HalfCost
<1> HIDE DEF grant
<1>4. Cost(grant) <= scores[from]
  BY <1>1, <1>2, <1>3
<1> QED
  BY <1>1, <1>2, <1>3, <1>4 DEF Less, Greater, grant

-----------------------------------------------------------------------------
(* The steps.  Every step replaces the score of one origin (Assigns) or    *)
(* delegates.                                                              *)

LEMMA NextCases ==
  ASSUME LedgerTypeOK, LedgerNext
  PROVE  \/ \E o \in Peers, rep \in 0..Full : Assign(o, rep)
         \/ \E from, to \in Peers, rep \in 0..Full : Delegate(from, to, rep)
<1>1. PICK o \in Peers :
        \/ \E rep \in 0..Full : SetReputation(o, rep)
        \/ \E event \in Events : Update(o, event)
        \/ \E to \in Peers, rep \in 0..Full : Delegate(o, to, rep)
  BY DEF LedgerNext
<1>2. CASE \E rep \in 0..Full : SetReputation(o, rep)
  BY <1>2 DEF SetReputation
<1>3. CASE \E event \in Events : Update(o, event)
  <2>1. PICK event \in Events : Update(o, event)
    BY <1>3
  <2>2. scores[o] \in 0..Full
    BY DEF LedgerTypeOK
  <2>3. After(event, scores[o]) \in 0..Full
    BY <2>2, AfterInRange
  <2> QED
    BY <2>1, <2>3 DEF Update
<1> QED
  BY <1>1, <1>2, <1>3

LEMMA TypeStep ==
  ASSUME LedgerTypeOK, [LedgerNext]_vars
  PROVE  LedgerTypeOK'
<1>1. CASE UNCHANGED vars
  BY <1>1 DEF LedgerTypeOK, vars, history
<1>2. ASSUME NEW o \in Peers, NEW rep \in 0..Full, Assign(o, rep)
      PROVE  LedgerTypeOK'
  <2>1. Less(rep, scores[o]) \in Nat
    <3>1. rep \in Nat /\ scores[o] \in Nat /\ credit[o] \in Nat
      BY LedgerAssumption DEF LedgerTypeOK
    <3> QED
      BY <3>1, Replaced
  <2>2. Greater(summit, rep) \in 0..Full
    BY LedgerAssumption DEF LedgerTypeOK, Greater
  <2> QED
    BY <1>2, <2>1, <2>2 DEF LedgerTypeOK, Assign
<1>3. ASSUME NEW from \in Peers, NEW to \in Peers, NEW rep \in 0..Full,
             Delegate(from, to, rep)
      PROVE  LedgerTypeOK'
  <2> DEFINE grant == CappedGrant(from, rep)
             rest  == Less(scores[from], Cost(grant))
  <2>1. grant \in 0..Full /\ rest \in 0..Full
    BY GrantInRange
  <2>2. Less(grant, scores[to]) \in Nat
    <3>1. grant \in Nat /\ scores[to] \in Nat /\ credit[to] \in Nat
      BY <2>1, LedgerAssumption DEF LedgerTypeOK
    <3> HIDE DEF grant
    <3> QED
      BY <3>1, Replaced
  <2>3. scores' = [scores EXCEPT ![to] = grant, ![from] = rest] /\ summit' = summit
    BY <1>3 DEF Delegate
  <2>4. \/ credit' = credit /\ granted' = granted /\ grants' = grants
        \/ /\ credit' = [credit EXCEPT ![to] = @ + Less(grant, scores[to])]
           /\ granted' = [granted EXCEPT ![from] = @ + grant]
           /\ grants' = [grants EXCEPT ![from] = @ + 1]
    BY <1>3 DEF Delegate
  <2> HIDE DEF grant, rest
  <2> QED
    BY <2>1, <2>2, <2>3, <2>4 DEF LedgerTypeOK
<1> QED
  BY <1>1, <1>2, <1>3, NextCases

(* Reputations stay basis points, in every run and whatever the gains: no  *)
(* event, assignment or delegation leaves 0..Full (epistemic.rs, update    *)
(* and delegate).                                                          *)
THEOREM LedgerTypeCorrect == LedgerSpec => []LedgerTypeOK
<1>1. LedgerInit => LedgerTypeOK
  BY LedgerAssumption DEF LedgerInit, LedgerTypeOK
<1> QED
  BY <1>1, TypeStep, PTL DEF LedgerSpec

-----------------------------------------------------------------------------
(* The books of one origin, after a step of each kind.                     *)

LEMMA SpendingStep ==
  ASSUME LedgerTypeOK, SpendingBound, [LedgerNext]_vars
  PROVE  SpendingBound'
<1>1. CASE UNCHANGED vars
  BY <1>1 DEF SpendingBound, vars, history
<1>2. ASSUME NEW o \in Peers, NEW rep \in 0..Full, Assign(o, rep), NEW x \in Peers
      PROVE  granted'[x] <= 2 * (credit'[x] - scores'[x]) + grants'[x]
  <2>1. granted[x] <= 2 * (credit[x] - scores[x]) + grants[x]
    BY DEF SpendingBound
  <2>2. granted' = granted /\ grants' = grants
    BY <1>2 DEF Assign
  <2>3. CASE x # o
    BY <1>2, <2>1, <2>2, <2>3 DEF LedgerTypeOK, Assign
  <2>4. CASE x = o
    <3>1. scores'[o] = rep /\ credit'[o] = credit[o] + Less(rep, scores[o])
      BY <1>2 DEF LedgerTypeOK, Assign
    <3>2. scores[o] \in Nat /\ rep \in Nat /\ credit[o] \in Nat
          /\ granted[o] \in Nat /\ grants[o] \in Nat
      BY LedgerAssumption DEF LedgerTypeOK
    <3>3. credit'[o] - scores'[o] >= credit[o] - scores[o]
          /\ Less(rep, scores[o]) \in Nat
      BY <3>1, <3>2, Replaced
    <3> QED
      BY <2>1, <2>2, <2>4, <3>1, <3>2, <3>3
  <2> QED
    BY <2>3, <2>4
<1>3. ASSUME NEW from \in Peers, NEW to \in Peers, NEW rep \in 0..Full,
             Delegate(from, to, rep), NEW x \in Peers
      PROVE  granted'[x] <= 2 * (credit'[x] - scores'[x]) + grants'[x]
  <2> DEFINE grant == CappedGrant(from, rep)
             rest  == Less(scores[from], Cost(grant))
  <2>1. /\ grant \in Nat /\ grant <= scores[from] /\ rest = scores[from] - Cost(grant)
        /\ Cost(grant) \in Nat /\ grant <= 2 * Cost(grant) + 1
    BY GrantInRange
  <2>2. scores' = [scores EXCEPT ![to] = grant, ![from] = rest]
    BY <1>3 DEF Delegate
  <2>3. /\ scores[x] \in Nat /\ credit[x] \in Nat
        /\ granted[x] \in Nat /\ grants[x] \in Nat
    BY LedgerAssumption DEF LedgerTypeOK
  <2>4. granted[x] <= 2 * (credit[x] - scores[x]) + grants[x]
    BY DEF SpendingBound
  <2> HIDE DEF grant, rest
  <2>5. CASE to = from
    <3>1. credit' = credit /\ granted' = granted /\ grants' = grants
      BY <1>3, <2>5 DEF Delegate
    <3>2. scores'[x] = IF x = from THEN scores[from] - Cost(grant) ELSE scores[x]
      BY <2>1, <2>2, <2>5 DEF LedgerTypeOK
    <3> QED
      BY <2>1, <2>3, <2>4, <3>1, <3>2
  <2>6. CASE to # from
    <3>1. /\ credit' = [credit EXCEPT ![to] = @ + Less(grant, scores[to])]
          /\ granted' = [granted EXCEPT ![from] = @ + grant]
          /\ grants' = [grants EXCEPT ![from] = @ + 1]
      BY <1>3, <2>6 DEF Delegate, grant
    <3>2. CASE x = from
      <4>1. /\ scores'[x] = scores[x] - Cost(grant) /\ credit'[x] = credit[x]
            /\ granted'[x] = granted[x] + grant /\ grants'[x] = grants[x] + 1
        BY <2>1, <2>2, <2>6, <3>1, <3>2 DEF LedgerTypeOK
      <4> QED
        BY <2>1, <2>3, <2>4, <4>1
    <3>3. CASE x = to
      <4>1. /\ scores'[x] = grant /\ credit'[x] = credit[x] + Less(grant, scores[x])
            /\ granted'[x] = granted[x] /\ grants'[x] = grants[x]
        BY <2>2, <2>6, <3>1, <3>3 DEF LedgerTypeOK
      <4>2. credit'[x] - scores'[x] >= credit[x] - scores[x]
            /\ Less(grant, scores[x]) \in Nat
        BY <2>1, <2>3, <4>1, Replaced
      <4> QED
        BY <2>1, <2>3, <2>4, <4>1, <4>2
    <3>4. CASE x # from /\ x # to
      BY <2>2, <2>4, <3>1, <3>4 DEF LedgerTypeOK
    <3> QED
      BY <3>2, <3>3, <3>4
  <2> QED
    BY <2>5, <2>6
<1>4. CASE LedgerNext
  BY <1>2, <1>3, <1>4, NextCases DEF SpendingBound
<1> QED
  BY <1>1, <1>4

(* "delegation costs half of what was granted", in the long run and for    *)
(* any number of origins and delegations between them: what an origin has  *)
(* handed out is at most twice what it received and no longer has, plus    *)
(* one point for each delegation, which is what the integer division gives *)
(* away (epistemic.rs, delegate).                                          *)
THEOREM SpendingIsBounded == LedgerSpec => []SpendingBound
<1>1. ASSUME LedgerInit, NEW x \in Peers
      PROVE  granted[x] <= 2 * (credit[x] - scores[x]) + grants[x]
  BY <1>1 DEF LedgerInit
<1>2. LedgerInit => SpendingBound
  BY <1>1 DEF SpendingBound
<1> QED
  BY <1>2, LedgerTypeCorrect, SpendingStep, PTL DEF LedgerSpec

-----------------------------------------------------------------------------
LEMMA CeilingStep ==
  ASSUME LedgerTypeOK, DelegationCeiling, [LedgerNext]_vars
  PROVE  DelegationCeiling'
<1>1. CASE UNCHANGED vars
  BY <1>1 DEF DelegationCeiling, vars, history
<1>2. ASSUME NEW o \in Peers, NEW rep \in 0..Full, Assign(o, rep)
      PROVE  DelegationCeiling'
  BY <1>2, LedgerAssumption DEF LedgerTypeOK, DelegationCeiling, Assign, Greater
<1>3. ASSUME NEW from \in Peers, NEW to \in Peers, NEW rep \in 0..Full,
             Delegate(from, to, rep), NEW x \in Peers
      PROVE  scores'[x] <= summit'
  <2> DEFINE grant == CappedGrant(from, rep)
             rest  == Less(scores[from], Cost(grant))
  <2>1. /\ grant \in Nat /\ grant <= scores[from] /\ rest = scores[from] - Cost(grant)
        /\ Cost(grant) \in Nat
    BY GrantInRange
  <2>2. scores' = [scores EXCEPT ![to] = grant, ![from] = rest] /\ summit' = summit
    BY <1>3 DEF Delegate
  <2>3. scores[x] \in Nat /\ scores[from] \in Nat /\ summit \in Nat
        /\ scores[x] <= summit /\ scores[from] <= summit
    BY LedgerAssumption DEF LedgerTypeOK, DelegationCeiling
  <2> HIDE DEF grant, rest
  <2>4. scores'[x] \in {grant, rest, scores[x]}
    BY <2>2 DEF LedgerTypeOK
  <2> QED
    BY <2>1, <2>2, <2>3, <2>4
<1>4. CASE LedgerNext
  BY <1>2, <1>3, <1>4, NextCases DEF DelegationCeiling
<1> QED
  BY <1>1, <1>4

(* "Delegated reputation capped by delegator's own": along any chain of    *)
(* delegations nobody rises above the highest score that an anchor or an   *)
(* event ever gave (epistemic.rs, delegate).                               *)
THEOREM CeilingHolds == LedgerSpec => []DelegationCeiling
<1>1. ASSUME LedgerInit, NEW x \in Peers
      PROVE  scores[x] <= summit
  BY <1>1 DEF LedgerInit
<1>2. LedgerInit => DelegationCeiling
  BY <1>1 DEF DelegationCeiling
<1> QED
  BY <1>2, LedgerTypeCorrect, CeilingStep, PTL DEF LedgerSpec

-----------------------------------------------------------------------------
LEMMA RestStep ==
  ASSUME LedgerTypeOK, [LedgerNext]_vars, NEW x \in Peers, grants'[x] # grants[x]
  PROVE  2 * scores'[x] >= scores[x] /\ scores'[x] # 0
<1>1. ~ UNCHANGED vars
  BY DEF vars, history
<1>2. ~ \E o \in Peers, rep \in 0..Full : Assign(o, rep)
  BY DEF Assign
<1>3. PICK from \in Peers, to \in Peers, rep \in 0..Full : Delegate(from, to, rep)
  BY <1>1, <1>2, NextCases
<1> DEFINE grant == CappedGrant(from, rep)
           rest  == Less(scores[from], Cost(grant))
<1>4. to # from /\ grants' = [grants EXCEPT ![from] = @ + 1] /\ scores[from] # 0
  BY <1>3 DEF Delegate
<1>5. x = from
  BY <1>4 DEF LedgerTypeOK
<1>6. /\ grant \in Nat /\ grant <= scores[from] /\ rest = scores[from] - Cost(grant)
      /\ Cost(grant) \in Nat /\ 2 * Cost(grant) <= grant
  BY GrantInRange
<1>7. scores' = [scores EXCEPT ![to] = grant, ![from] = rest]
  BY <1>3 DEF Delegate
<1> HIDE DEF grant, rest
<1>8. scores'[x] = scores[x] - Cost(grant) /\ scores[x] \in Nat /\ scores[x] # 0
  BY <1>4, <1>5, <1>6, <1>7, LedgerAssumption DEF LedgerTypeOK
<1> QED
  BY <1>5, <1>6, <1>8

(* "Reputation spending": a delegation takes at most half of what the      *)
(* delegator has, and never all of it (epistemic.rs, delegate).            *)
THEOREM RestIsLeft == LedgerSpec => DelegationLeavesRest
<1> DEFINE LeavesRest == \A o \in Peers :
             grants'[o] # grants[o] => 2 * scores'[o] >= scores[o] /\ scores'[o] # 0
<1>1. LedgerTypeOK /\ [LedgerNext]_vars => LeavesRest
  BY RestStep
<1>2. LedgerSpec => [][LeavesRest]_vars
  <2> HIDE DEF LeavesRest
  <2> QED
    BY <1>1, LedgerTypeCorrect, PTL DEF LedgerSpec
<1> QED
  BY <1>2 DEF DelegationLeavesRest

-----------------------------------------------------------------------------
(* Induction over numbers and over finite sets, for a set P of those that  *)
(* have the property at hand.                                              *)
LEMMA SmallestOf ==
  ASSUME NEW N \in SUBSET Nat, N # {}
  PROVE  \E m \in N : \A k \in N : m <= k
<1> DEFINE R == OpToRel(<, Nat)
<1>1. IsWellFoundedOn(R, Nat)
  BY NatLessThanWellFounded
<1>2. \A x, y \in Nat : x < y => <<x, y>> \in R
  BY DEF OpToRel
<1> HIDE DEF R
<1>3. PICK m \in N : \A k \in N : ~(<<k, m>> \in R)
  BY <1>1, WFMin
<1>4. ASSUME NEW k \in N PROVE m <= k
  <2>1. m \in Nat /\ k \in Nat /\ ~(k < m)
    BY <1>2, <1>3
  <2> QED
    BY <2>1
<1> QED
  BY <1>4

LEMMA CountingInduction ==
  ASSUME NEW n \in Nat, NEW P, 0 \in P, \A k \in 1..n : k - 1 \in P => k \in P
  PROVE  \A k \in 0..n : k \in P
<1> DEFINE N == {k \in 0..n : k \notin P}
<1>1. SUFFICES ASSUME N # {} PROVE FALSE
  OBVIOUS
<1>2. N \in SUBSET Nat
  OBVIOUS
<1>3. PICK m \in N : \A k \in N : m <= k
  BY <1>1, <1>2, SmallestOf
<1>4. m \in 1..n
  OBVIOUS
<1>5. m - 1 \in 0..n /\ ~(m <= m - 1)
  BY <1>4
<1> QED
  BY <1>3, <1>4, <1>5

Picks(pick, S) == \A T \in SUBSET S : T # {} => pick[T] \in T

LEMMA SubsetInduction ==
  ASSUME NEW S, IsFiniteSet(S), NEW pick, Picks(pick, S), NEW P, {} \in P,
         \A T \in SUBSET S : T # {} /\ T \ {pick[T]} \in P => T \in P
  PROVE  \A T \in SUBSET S : T \in P
<1> DEFINE bad == {T \in SUBSET S : T \notin P}
           N == {Cardinality(T) : T \in bad}
<1>1. SUFFICES ASSUME bad # {} PROVE FALSE
  OBVIOUS
<1>2. \A T \in SUBSET S : IsFiniteSet(T) /\ Cardinality(T) \in Nat
  BY FS_Subset, FS_CardinalityType
<1>3. N \in SUBSET Nat /\ N # {}
  BY <1>1, <1>2
<1>4. PICK m \in N : \A k \in N : m <= k
  BY <1>3, SmallestOf
<1>5. PICK T \in bad : m = Cardinality(T)
  BY <1>4
<1>6. T # {} /\ pick[T] \in T
  BY <1>5 DEF Picks
<1>7. Cardinality(T \ {pick[T]}) = m - 1 /\ T \ {pick[T]} \in bad
  BY <1>2, <1>5, <1>6, FS_RemoveElement
<1>8. m - 1 \in N /\ m \in Nat
  BY <1>3, <1>7
<1> QED
  BY <1>4, <1>8

-----------------------------------------------------------------------------
(* A recursive function is a CHOOSE of a solution of its equation.  Along  *)
(* a chain, and over the subsets of a finite set, there is one.            *)
Chains(n, V, base, F) ==
  {f \in [0..n -> V] : f = [k \in 0..n |-> IF k = 0 THEN base ELSE F[f[k - 1]]]}

LEMMA ChainExists ==
  ASSUME NEW V, NEW base \in V, NEW n \in Nat, NEW F \in [V -> V]
  PROVE  Chains(n, V, base, F) # {}
<1> DEFINE Solves(f, m) == \A k \in 0..m : f[k] = IF k = 0 THEN base ELSE F[f[k - 1]]
           P == {m \in 0..n : \E f \in [0..n -> V] : Solves(f, m)}
<1>1. 0 \in P
  <2> DEFINE g == [k \in 0..n |-> base]
  <2>1. g \in [0..n -> V] /\ Solves(g, 0)
    OBVIOUS
  <2> HIDE DEF g, Solves
  <2> QED
    BY <2>1
<1>2. ASSUME NEW m \in 1..n, m - 1 \in P
      PROVE  m \in P
  <2>1. PICK f \in [0..n -> V] : Solves(f, m - 1)
    BY <1>2
  <2> DEFINE g == [f EXCEPT ![m] = F[f[m - 1]]]
  <2>2. f[m - 1] \in V
    OBVIOUS
  <2>3. g \in [0..n -> V]
    BY <2>2
  <2>4. \A k \in 0..n : k # m => g[k] = f[k]
    OBVIOUS
  <2>5. g[m] = F[g[m - 1]]
    BY <2>4
  <2>6. ASSUME NEW k \in 0..m
        PROVE  g[k] = IF k = 0 THEN base ELSE F[g[k - 1]]
    <3>1. CASE k = m
      BY <2>5, <3>1
    <3>2. CASE k # m
      <4>1. k \in 0..(m - 1) /\ k \in 0..n /\ (k # 0 => k - 1 \in 0..n /\ k - 1 # m)
        BY <3>2
      <4> QED
        BY <2>1, <2>4, <3>2, <4>1
    <3> QED
      BY <3>1, <3>2
  <2>7. Solves(g, m)
    BY <2>6
  <2> HIDE DEF g, Solves
  <2> QED
    BY <2>3, <2>7
<1>3. n \in P
  <2> HIDE DEF P
  <2> QED
    BY <1>1, <1>2, CountingInduction
<1>4. PICK f \in [0..n -> V] : Solves(f, n)
  BY <1>3
<1>5. f = [k \in 0..n |-> IF k = 0 THEN base ELSE F[f[k - 1]]]
  BY <1>4
<1> QED
  BY <1>5 DEF Chains

SetFolds(S, pick, V, base, F) ==
  {f \in [SUBSET S -> V] :
     f = [T \in SUBSET S |-> IF T = {} THEN base ELSE F[pick[T]][f[T \ {pick[T]}]]]}

LEMMA SetFoldExists ==
  ASSUME NEW S, IsFiniteSet(S), NEW pick, Picks(pick, S),
         NEW V, NEW base \in V, NEW F \in [S -> [V -> V]]
  PROVE  SetFolds(S, pick, V, base, F) # {}
<1> DEFINE Step(f, T) == IF T = {} THEN base ELSE F[pick[T]][f[T \ {pick[T]}]]
           Solves(f, m) == \A T \in SUBSET S : Cardinality(T) <= m => f[T] = Step(f, T)
           n == Cardinality(S)
           P == {m \in 0..n : \E f \in [SUBSET S -> V] : Solves(f, m)}
<1>1. \A T \in SUBSET S : IsFiniteSet(T) /\ Cardinality(T) \in Nat /\ Cardinality(T) <= n
  BY FS_Subset, FS_CardinalityType
<1>2. n \in Nat
  BY <1>1
<1>3. \A T \in SUBSET S : T # {} =>
        T \ {pick[T]} \in SUBSET S /\ Cardinality(T \ {pick[T]}) = Cardinality(T) - 1
  BY <1>1, FS_RemoveElement DEF Picks
<1>4. \A f \in [SUBSET S -> V] : \A T \in SUBSET S : Step(f, T) \in V
  BY DEF Picks
<1>5. 0 \in P
  <2>1. \A T \in SUBSET S : Cardinality(T) <= 0 => T = {}
    BY <1>1, FS_EmptySet
  <2> DEFINE f == [T \in SUBSET S |-> base]
  <2>2. f \in [SUBSET S -> V] /\ Solves(f, 0)
    BY <2>1
  <2> HIDE DEF f, Solves
  <2> QED
    BY <1>2, <2>2
<1>6. ASSUME NEW m \in 1..n, m - 1 \in P
      PROVE  m \in P
  <2>1. PICK f \in [SUBSET S -> V] : Solves(f, m - 1)
    BY <1>6
  <2> DEFINE g == [T \in SUBSET S |-> Step(f, T)]
  <2>2. g \in [SUBSET S -> V]
    BY <1>4
  <2>3. ASSUME NEW T \in SUBSET S, Cardinality(T) <= m
        PROVE  g[T] = Step(g, T)
    <3>1. CASE T = {}
      BY <3>1
    <3>2. CASE T # {}
      <4> DEFINE U == T \ {pick[T]}
      <4>1. U \in SUBSET S /\ Cardinality(U) <= m - 1
        BY <1>1, <1>3, <2>3, <3>2
      <4>2. f[U] = Step(f, U) /\ g[U] = Step(f, U)
        BY <2>1, <4>1
      <4>3. g[T] = F[pick[T]][f[U]]
        BY <3>2
      <4> QED
        BY <3>2, <4>2, <4>3
    <3> QED
      BY <3>1, <3>2
  <2>4. Solves(g, m)
    BY <2>3
  <2> HIDE DEF g, Solves
  <2> QED
    BY <2>2, <2>4
<1>7. n \in P
  <2> HIDE DEF P, n
  <2> QED
    BY <1>2, <1>5, <1>6, CountingInduction
<1>8. PICK f \in [SUBSET S -> V] : Solves(f, n)
  BY <1>7
<1>9. \A T \in SUBSET S : f[T] = Step(f, T)
  BY <1>1, <1>8
<1>10. f = [T \in SUBSET S |-> Step(f, T)]
  BY <1>9
<1> QED
  BY <1>10 DEF SetFolds

-----------------------------------------------------------------------------
(* Sums.                                                                   *)
SumsOf(f, S) ==
  LET any(T) == CHOOSE x \in T : TRUE IN
  {s \in [SUBSET S -> Int] :
     s = [T \in SUBSET S |-> IF T = {} THEN 0 ELSE f[any(T)] + s[T \ {any(T)}]]}

LEMMA SumUnfolds ==
  ASSUME NEW S, IsFiniteSet(S), NEW f \in [S -> Int]
  PROVE  \E s \in SumsOf(f, S) : SumFunction(f) = s[S]
<1> DEFINE any == [T \in SUBSET S |-> CHOOSE x \in T : TRUE]
           F == [x \in S |-> [v \in Int |-> f[x] + v]]
           Eq(s) == s = [T \in SUBSET S |-> IF T = {} THEN 0
                           ELSE f[CHOOSE x \in T : TRUE] + s[T \ {CHOOSE x \in T : TRUE}]]
           sum == CHOOSE s : Eq(s)
<1>1. \A T \in SUBSET S : T # {} => any[T] \in T /\ any[T] \in S
  OBVIOUS
<1>2. Picks(any, S)
  BY <1>1 DEF Picks
<1>3. F \in [S -> [Int -> Int]]
  OBVIOUS
<1>4. \E s : Eq(s)
  <2> HIDE DEF any, F
  <2>0. PICK s \in SetFolds(S, any, Int, 0, F) : TRUE
    <3>1. 0 \in Int
      OBVIOUS
    <3>2. SetFolds(S, any, Int, 0, F) # {}
      BY <1>2, <1>3, <3>1, SetFoldExists, Zenon
    <3> QED
      BY <3>2
  <2>1. /\ s \in [SUBSET S -> Int]
        /\ s = [T \in SUBSET S |-> IF T = {} THEN 0 ELSE F[any[T]][s[T \ {any[T]}]]]
    BY <2>0 DEF SetFolds
  <2>2. ASSUME NEW T \in SUBSET S, T # {}
        PROVE  F[any[T]][s[T \ {any[T]}]] = f[CHOOSE x \in T : TRUE] + s[T \ {CHOOSE x \in T : TRUE}]
    <3>1. any[T] = (CHOOSE x \in T : TRUE) /\ any[T] \in S /\ s[T \ {any[T]}] \in Int
      BY <1>1, <2>1, <2>2 DEF any
    <3> QED
      BY <3>1 DEF F
  <2>3. Eq(s)
    BY <2>1, <2>2, Zenon
  <2> QED
    BY <2>3
<1>5. Eq(sum)
  BY <1>4
<1>6. SumFunction(f) = sum[S]
  BY DEF SumFunction, SumFunctionOnSet, FoldFunctionOnSet, MapThenFoldSet
<1> HIDE DEF sum
<1>7. \A T \in SUBSET S : T \in {U \in SUBSET S : sum[U] \in Int}
  <2> DEFINE P == {U \in SUBSET S : sum[U] \in Int}
  <2>1. {} \in P
    BY <1>5
  <2>2. ASSUME NEW T \in SUBSET S, T # {}, T \ {any[T]} \in P
        PROVE  T \in P
    <3>1. sum[T] = f[any[T]] + sum[T \ {any[T]}] /\ f[any[T]] \in Int
      BY <1>1, <1>5, <2>2
    <3> QED
      BY <2>2, <3>1
  <2> HIDE DEF P, any
  <2>3. \A T \in SUBSET S : T \in P
    BY <1>2, <2>1, <2>2, SubsetInduction
  <2> QED
    BY <2>3 DEF P
<1>8. sum \in [SUBSET S -> Int]
  BY <1>5, <1>7
<1> QED
  BY <1>5, <1>6, <1>8 DEF SumsOf

LEMMA SumIsInt ==
  ASSUME NEW S, IsFiniteSet(S), NEW f \in [S -> Int]
  PROVE  SumFunction(f) \in Int
<1>1. PICK s \in SumsOf(f, S) : SumFunction(f) = s[S]
  BY SumUnfolds
<1> QED
  BY <1>1 DEF SumsOf

(* What holds term by term, up to factors, holds of the sums.              *)
LEMMA SumsCompare ==
  ASSUME NEW S, IsFiniteSet(S), NEW f \in [S -> Int], NEW g \in [S -> Int],
         NEW a \in Int, NEW b \in Int, \A x \in S : a * f[x] <= b * g[x]
  PROVE  a * SumFunction(f) <= b * SumFunction(g)
<1> DEFINE any == [T \in SUBSET S |-> CHOOSE x \in T : TRUE]
<1>1. \A T \in SUBSET S : T # {} => any[T] \in T /\ any[T] \in S
  OBVIOUS
<1>2. PICK s \in SumsOf(f, S) : SumFunction(f) = s[S]
  BY SumUnfolds
<1>3. PICK t \in SumsOf(g, S) : SumFunction(g) = t[S]
  BY SumUnfolds
<1>4. s[{}] = 0 /\ t[{}] = 0
  BY DEF SumsOf
<1>5. \A T \in SUBSET S : T # {} =>
        s[T] = f[any[T]] + s[T \ {any[T]}] /\ t[T] = g[any[T]] + t[T \ {any[T]}]
  BY DEF SumsOf
<1>6. s \in [SUBSET S -> Int] /\ t \in [SUBSET S -> Int]
  BY DEF SumsOf
<1> DEFINE P == {T \in SUBSET S : a * s[T] <= b * t[T]}
<1>7. {} \in P
  BY <1>4
<1>8. ASSUME NEW T \in SUBSET S, T # {}, T \ {any[T]} \in P
      PROVE  T \in P
  <2> DEFINE x == any[T]
             U == T \ {x}
  <2>1. x \in S /\ U \in SUBSET S
    BY <1>1, <1>8
  <2>2. f[x] \in Int /\ g[x] \in Int /\ s[U] \in Int /\ t[U] \in Int /\ a * f[x] <= b * g[x]
        /\ a * s[U] <= b * t[U]
    BY <1>6, <1>8, <2>1
  <2>3. s[T] = f[x] + s[U] /\ t[T] = g[x] + t[U]
    BY <1>5, <1>8
  <2> HIDE DEF x, U
  <2>4. a * (f[x] + s[U]) = a * f[x] + a * s[U] /\ b * (g[x] + t[U]) = b * g[x] + b * t[U]
    BY <2>2
  <2>5. a * f[x] \in Int /\ a * s[U] \in Int /\ b * g[x] \in Int /\ b * t[U] \in Int
    BY <2>2
  <2> QED
    BY <2>2, <2>3, <2>4, <2>5
<1>9. Picks(any, S)
  BY <1>1 DEF Picks
<1> HIDE DEF P, any
<1>10. S \in P
  BY <1>7, <1>8, <1>9, SubsetInduction
<1> QED
  BY <1>2, <1>3, <1>10 DEF P

LEMMA SumIsNat ==
  ASSUME NEW S, IsFiniteSet(S), NEW f \in [S -> Nat]
  PROVE  SumFunction(f) \in Nat
<1> DEFINE zero == [x \in S |-> 0]
<1>1. f \in [S -> Int] /\ zero \in [S -> Int]
  OBVIOUS
<1>2. \A x \in S : 0 * zero[x] <= 1 * f[x]
  OBVIOUS
<1> HIDE DEF zero
<1>3. 0 * SumFunction(zero) <= 1 * SumFunction(f)
  BY <1>1, <1>2, SumsCompare
<1>4. SumFunction(f) \in Int /\ SumFunction(zero) \in Int
  BY <1>1, SumIsInt
<1> QED
  BY <1>3, <1>4

-----------------------------------------------------------------------------
(* Log-odds are integers throughout.                                       *)
LEMMA ImageFinite ==
  ASSUME NEW S, IsFiniteSet(S), NEW f
  PROVE  IsFiniteSet({f[x] : x \in S})
<1> DEFINE T == {f[x] : x \in S}
           g == [x \in S |-> f[x]]
<1>1. g \in Surjection(S, T)
  BY DEF Surjection
<1> QED
  BY <1>1, FS_Surjection

LEMMA QuotIsInt ==
  ASSUME NEW a \in Int
  PROVE  Quot(a, Scale) \in Int
BY ScaleAssumption DEF Quot

LEMMA ProductIsInt ==
  ASSUME NEW a \in Int, NEW b \in Int
  PROVE  a * b \in Int
OBVIOUS

LEMMA ClampIsInt ==
  ASSUME NEW x \in Int, NEW bound \in Nat
  PROVE  Clamp(x, bound) \in Int
BY DEF Clamp, AtMost, AtLeast

LEMMA DiscountFactorIsInt ==
  ASSUME NEW rank \in Nat, NEW bps \in 0..Scale
  PROVE  DiscountFactor(rank, bps) \in Int
<1> DEFINE F == [v \in Int |-> (v * bps) \div Scale]
           Eq(f) == f = [r \in 0..MaxDepth |-> IF r = 0 THEN Scale ELSE (f[r - 1] * bps) \div Scale]
           factor == CHOOSE f : Eq(f)
<1>1. Scale \in Nat \ {0} /\ MaxDepth \in Nat /\ bps \in Int /\ Scale \in Int
  BY ScaleAssumption, RangeAssumption
<1>2. \A v \in Int : (v * bps) \div Scale \in Int
  BY <1>1
<1>3. F \in [Int -> Int]
  BY <1>2
<1>4. \E f : Eq(f)
  <2>0. Chains(MaxDepth, Int, Scale, F) # {}
    <3> HIDE DEF F
    <3> QED
      BY <1>1, <1>3, ChainExists, Zenon
  <2>1. PICK f \in [0..MaxDepth -> Int] :
          f = [r \in 0..MaxDepth |-> IF r = 0 THEN Scale ELSE F[f[r - 1]]]
    BY <2>0 DEF Chains
  <2>2. \A r \in 0..MaxDepth : r # 0 => F[f[r - 1]] = (f[r - 1] * bps) \div Scale
    BY <1>1
  <2>3. Eq(f)
    BY <2>1, <2>2, Zenon
  <2> QED
    BY <2>3
<1>5. Eq(factor)
  BY <1>4
<1> HIDE DEF factor
<1>6. \A k \in 0..MaxDepth : factor[k] \in Int
  <2> DEFINE P == {k \in 0..MaxDepth : factor[k] \in Int}
  <2>1. 0 \in P
    BY <1>1, <1>5
  <2>2. ASSUME NEW k \in 1..MaxDepth, k - 1 \in P
        PROVE  k \in P
    <3>1. factor[k] = (factor[k - 1] * bps) \div Scale
      BY <1>1, <1>5
    <3> QED
      BY <1>1, <1>2, <2>2, <3>1
  <2> HIDE DEF P
  <2>3. \A k \in 0..MaxDepth : k \in P
    BY <1>1, <2>1, <2>2, CountingInduction
  <2> QED
    BY <2>3 DEF P
<1>7. AtMost(rank, MaxDepth) \in 0..MaxDepth
  BY <1>1 DEF AtMost
<1>8. DiscountFactor(rank, bps) = factor[AtMost(rank, MaxDepth)]
  BY DEF DiscountFactor, factor
<1> QED
  BY <1>6, <1>7, <1>8

LEMMA DiscountedIsInt ==
  ASSUME NEW E, IsFiniteSet(E), \A e \in E : e.lo \in Int, NEW bps \in 0..Scale
  PROVE  Discounted(E, bps) \in Int
<1> DEFINE f == [e \in E |->
     Quot(e.lo * DiscountFactor(Cardinality({d \in E : Stronger(d, e)}), bps), Scale)]
<1>1. ASSUME NEW e \in E PROVE f[e] \in Int
  <2>1. Cardinality({d \in E : Stronger(d, e)}) \in Nat
    BY FS_Subset, FS_CardinalityType
  <2>2. DiscountFactor(Cardinality({d \in E : Stronger(d, e)}), bps) \in Int
    BY <2>1, DiscountFactorIsInt
  <2>3. e.lo * DiscountFactor(Cardinality({d \in E : Stronger(d, e)}), bps) \in Int
    BY <2>2, ProductIsInt
  <2> QED
    BY <2>3, QuotIsInt
<1>2. Discounted(E, bps) = SumFunction(f)
  BY DEF Discounted, Total
<1>3. f \in [E -> Int]
  BY <1>1
<1> HIDE DEF f
<1> QED
  BY <1>2, <1>3, SumIsInt

LEMMA GroupSumsAreInts ==
  ASSUME NEW E, IsFiniteSet(E), \A e \in E : e.lo \in Int
  PROVE  IsFiniteSet(GroupSums(E)) /\ \A g \in GroupSums(E) : g.total \in Int
<1> DEFINE key == [e \in E |-> e.group.key]
           members(k) == {e \in E : e.group.key = k}
           keys == {e.group.key : e \in E}
           sum == [k \in keys |->
             [key |-> k, total |-> Discounted(members(k), DiscountBps),
              assessed |-> \A e \in members(k) : e.group.assessed,
              anchor |-> Least({e.id : e \in members(k)})]]
<1>1. keys = {key[e] : e \in E}
  OBVIOUS
<1>2. IsFiniteSet(keys)
  <2> HIDE DEF key, keys
  <2> QED
    BY <1>1, ImageFinite
<1>3. GroupSums(E) = {sum[k] : k \in keys}
  BY DEF GroupSums
<1>4. ASSUME NEW k \in keys PROVE sum[k].total \in Int
  <2>1. IsFiniteSet(members(k)) /\ \A e \in members(k) : e.lo \in Int
    BY FS_Subset
  <2>2. Discounted(members(k), DiscountBps) \in Int
    BY <2>1, DiscountAssumption, DiscountedIsInt
  <2> QED
    BY <2>2
<1> HIDE DEF sum, keys
<1> QED
  BY <1>2, <1>3, <1>4, ImageFinite

LEMMA AggregateIsInt ==
  ASSUME NEW E, IsFiniteSet(E), \A e \in E : e.lo \in Int
  PROVE  AggregateHierarchical(E) \in Int
<1> DEFINE groups == GroupSums(E)
           f == [g \in groups |-> GroupShare(groups, g)]
<1>1. IsFiniteSet(groups) /\ \A g \in groups : g.total \in Int
  BY GroupSumsAreInts
<1> HIDE DEF groups
<1>2. ASSUME NEW g \in groups PROVE f[g] \in Int
  <2> DEFINE rank == Cardinality({h \in groups : ~h.assessed /\ Outranks(h, g)})
  <2>1. rank \in Nat
    BY <1>1, FS_Subset, FS_CardinalityType
  <2>2. DiscountFactor(rank, UnassessedBps) \in Int
    BY <2>1, DiscountAssumption, DiscountFactorIsInt
  <2>3. Quot(g.total * DiscountFactor(rank, UnassessedBps), Scale) \in Int
    BY <1>1, <2>2, ProductIsInt, QuotIsInt
  <2> HIDE DEF rank
  <2>4. f[g] \in {g.total, 0, Quot(g.total * DiscountFactor(rank, UnassessedBps), Scale)}
    BY DEF GroupShare, rank
  <2> QED
    BY <1>1, <2>3, <2>4
<1>3. f \in [groups -> Int]
  BY <1>2
<1>4. AggregateHierarchical(E) = Clamp(SumFunction(f), SafeMax)
  BY DEF AggregateHierarchical, Total, groups
<1> HIDE DEF f
<1>5. SumFunction(f) \in Int
  BY <1>1, <1>3, SumIsInt
<1> QED
  BY <1>4, <1>5, RangeAssumption, ClampIsInt

-----------------------------------------------------------------------------
(* Whatever is multiplied, divided and cut on the way.                     *)
LEMMA DivideInt ==
  ASSUME NEW a \in Int, NEW d \in Nat \ {0}
  PROVE  a \div d \in Int /\ d * (a \div d) <= a /\ (a >= 0 => a \div d >= 0)
OBVIOUS

LEMMA Multiplied ==
  ASSUME NEW a \in Int, NEW b \in Int, a <= b, NEW c \in Nat
  PROVE  c * a <= c * b
OBVIOUS

LEMMA Cancelled ==
  ASSUME NEW a \in Int, NEW b \in Int, NEW d \in Nat \ {0}, d * a <= d * b
  PROVE  a <= b
<1>1. SUFFICES ASSUME a >= b + 1 PROVE FALSE
  OBVIOUS
<1>2. d * (b + 1) <= d * a
  BY <1>1, Multiplied
<1>3. d * (b + 1) = d * b + d
  OBVIOUS
<1>4. d * b \in Int /\ d * a \in Int
  OBVIOUS
<1> QED
  BY <1>2, <1>3, <1>4

-----------------------------------------------------------------------------
(* Trust is an integer for every claim and every end of an edge.           *)
IsGraph(G) ==
  /\ Len(G) \in Nat /\ DOMAIN G = 1..Len(G)
  /\ \A k \in DOMAIN G : /\ G[k].strength \in 0..Scale
                         /\ G[k].from \in Nat /\ G[k].to \in Nat

Typed(claims, G, rep) ==
  claims \in Seq(Claims) /\ IsGraph(G) /\ rep \in [Origins -> 0..Scale]

Believed(claims, G) == DOMAIN claims \cup Ends(G)

LEMMA EdgesTyped ==
  ASSUME NEW claims, NEW G, NEW rep, Typed(claims, G, rep)
  PROVE  /\ IsFiniteSet(DOMAIN G) /\ Live(G) \subseteq DOMAIN G
         /\ \A k \in DOMAIN G : /\ G[k].strength \in Nat
                                /\ G[k].from \in Believed(claims, G)
                                /\ G[k].to \in Believed(claims, G)
<1>1. DOMAIN G = 1..Len(G) /\ Len(G) \in Nat
  BY DEF Typed, IsGraph
<1>2. IsFiniteSet(DOMAIN G)
  BY <1>1, FS_Interval
<1>3. \A k \in DOMAIN G : G[k].strength \in Nat
  BY ScaleAssumption DEF Typed, IsGraph
<1> QED
  BY <1>2, <1>3 DEF Live, Believed, Ends

LEMMA AuthorRepTyped ==
  ASSUME NEW claims, NEW G, NEW rep, Typed(claims, G, rep), NEW i
  PROVE  AuthorRep(claims, rep, i) \in 0..Scale
<1>1. \A j \in DOMAIN claims : claims[j] \in Claims
  BY DEF Typed
<1>2. \A j \in DOMAIN claims : rep[claims[j].origin] \in 0..Scale
  BY <1>1 DEF Typed, Origins
<1> QED
  BY <1>2, ScaleAssumption DEF AuthorRep

LEMMA BaseTyped ==
  ASSUME NEW claims, NEW G, NEW rep, Typed(claims, G, rep)
  PROVE  BaseTrust(claims, G, rep) \in [Believed(claims, G) -> Int]
<1>1. ASSUME NEW i \in DOMAIN claims
      PROVE  Weighted(rep[claims[i].origin], Declared(claims[i].confidence)) \in Int
  <2>1. claims[i] \in Claims
    BY DEF Typed
  <2>2. claims[i].confidence \in Int /\ rep[claims[i].origin] \in Int
    BY <2>1, MeshAssumption, ScaleAssumption DEF Typed, Origins
  <2>3. Declared(claims[i].confidence) \in Int
    BY <2>2, RangeAssumption, ClampIsInt DEF Declared
  <2> QED
    BY <2>2, <2>3, ProductIsInt, QuotIsInt DEF Weighted
<1> QED
  BY <1>1 DEF BaseTrust, Believed

LEMMA SharesTyped ==
  ASSUME NEW claims, NEW G, NEW rep, Typed(claims, G, rep), NEW i
  PROVE  LET K == Live(G) \cap OutgoingEdges(G, i)
             weights == [k \in K |-> G[k].strength]
             whole == AtLeast(SumFunction(weights), 1)
         IN  /\ IsFiniteSet(K) /\ weights \in [K -> Int]
             /\ SumFunction(weights) \in Nat
             /\ whole \in Nat \ {0} /\ SumFunction(weights) <= whole
             /\ \A k \in K : /\ Share(G, Live(G), k) = (G[k].strength * Scale) \div whole
                             /\ Share(G, Live(G), k) \in Nat
                             /\ whole * Share(G, Live(G), k) <= Scale * G[k].strength
<1> DEFINE K == Live(G) \cap OutgoingEdges(G, i)
           weights == [k \in K |-> G[k].strength]
           sum == SumFunction(weights)
           whole == AtLeast(sum, 1)
<1>1. IsFiniteSet(K) /\ \A k \in K : k \in DOMAIN G /\ G[k].from = i
  BY EdgesTyped, FS_Subset DEF OutgoingEdges
<1>2. weights \in [K -> Nat]
  BY <1>1, EdgesTyped
<1>3. ASSUME NEW k \in K
      PROVE  Share(G, Live(G), k) = (G[k].strength * Scale) \div whole
  BY <1>1 DEF Share, Total
<1> HIDE DEF K
<1>4. sum \in Nat
  <2> HIDE DEF weights
  <2> QED
    BY <1>1, <1>2, SumIsNat
<1> HIDE DEF sum
<1>5. whole \in Nat \ {0} /\ sum <= whole
  BY <1>4 DEF AtLeast
<1> HIDE DEF whole
<1>6. ASSUME NEW k \in K
      PROVE  /\ (G[k].strength * Scale) \div whole \in Nat
             /\ whole * ((G[k].strength * Scale) \div whole) <= Scale * G[k].strength
  <2>1. G[k].strength \in Nat /\ Scale \in Nat
    BY <1>1, EdgesTyped, ScaleAssumption
  <2>2. G[k].strength * Scale \in Nat /\ G[k].strength * Scale = Scale * G[k].strength
    BY <2>1
  <2> QED
    BY <1>5, <2>2, DivideInt
<1>7. weights \in [K -> Int]
  BY <1>2
<1>8. \A k \in K : /\ Share(G, Live(G), k) = (G[k].strength * Scale) \div whole
                    /\ Share(G, Live(G), k) \in Nat
                    /\ whole * Share(G, Live(G), k) <= Scale * G[k].strength
  BY <1>3, <1>6
<1> QED
  BY <1>1, <1>4, <1>5, <1>7, <1>8, Zenon DEF K, weights, sum, whole

LEMMA ContributionTyped ==
  ASSUME NEW claims, NEW G, NEW rep, Typed(claims, G, rep),
         NEW trust \in [Believed(claims, G) -> Int], NEW k \in Live(G)
  PROVE  /\ Contribution(claims, G, rep, Live(G), trust, k) \in Int
         /\ Voiced(trust[G[k].from]) \in Nat
         /\ Scale * Contribution(claims, G, rep, Live(G), trust, k)
              <= Voiced(trust[G[k].from]) * Share(G, Live(G), k)
<1> DEFINE v == Voiced(trust[G[k].from])
           share == Share(G, Live(G), k)
           r == AuthorRep(claims, rep, G[k].from)
           x == (v * share) \div Scale
           c == (x * r) \div Scale
<1>1. k \in DOMAIN G /\ trust[G[k].from] \in Int
  BY EdgesTyped
<1>2. v \in Nat
  BY <1>1 DEF Voiced, AtLeast
<1>3. share \in Nat
  BY <1>1, SharesTyped DEF OutgoingEdges
<1>4. r \in 0..Scale /\ Scale \in Nat \ {0}
  BY AuthorRepTyped, ScaleAssumption
<1>5. Contribution(claims, G, rep, Live(G), trust, k) = c
  BY DEF Contribution
<1> HIDE DEF v, share, r
<1>6. v * share \in Nat
  BY <1>2, <1>3
<1>7. x \in Nat /\ Scale * x <= v * share
  BY <1>4, <1>6, DivideInt
<1> HIDE DEF x
<1>8. x * r \in Nat /\ x * r <= x * Scale
  BY <1>4, <1>7, Multiplied
<1>9. c \in Int /\ Scale * c <= x * r
  BY <1>4, <1>8, DivideInt
<1> HIDE DEF c
<1>10. x * Scale = Scale * x /\ x * Scale \in Int /\ Scale * c \in Int
  BY <1>4, <1>7, <1>9
<1>11. Scale * c <= v * share
  BY <1>6, <1>7, <1>8, <1>9, <1>10
<1> QED
  BY <1>2, <1>5, <1>9, <1>11 DEF v, share

LEMMA SupportTyped ==
  ASSUME NEW claims, NEW G, NEW rep, Typed(claims, G, rep),
         NEW base \in [Believed(claims, G) -> Int], NEW trust \in [Believed(claims, G) -> Int]
  PROVE  Support(claims, G, rep, Live(G), base, trust) \in [Believed(claims, G) -> Int]
<1>1. ASSUME NEW i \in Believed(claims, G)
      PROVE  Updated(base[i], AggregateHierarchical(Incoming(claims, G, rep, Live(G), trust, i))) \in Int
  <2> DEFINE E == Incoming(claims, G, rep, Live(G), trust, i)
             K == Live(G) \cap IncomingEdges(G, i)
             evidence == [k \in K |->
               [at |-> k, lo |-> Contribution(claims, G, rep, Live(G), trust, k),
                id |-> IF G[k].from \in DOMAIN claims THEN claims[G[k].from].id ELSE <<>>,
                group |-> IF G[k].from \in DOMAIN claims THEN CorrelationGroup(claims, G[k].from)
                          ELSE [key |-> <<"none">>, assessed |-> FALSE]]]
  <2>1. E = {evidence[k] : k \in K}
    BY DEF Incoming
  <2>2. IsFiniteSet(K)
    BY EdgesTyped, FS_Subset
  <2>3. \A k \in K : evidence[k].lo \in Int
    BY ContributionTyped
  <2> HIDE DEF E, evidence
  <2>4. IsFiniteSet(E)
    <3> HIDE DEF K
    <3> QED
      BY <2>1, <2>2, ImageFinite
  <2>5. AggregateHierarchical(E) \in Int
    BY <2>1, <2>3, <2>4, AggregateIsInt
  <2>6. base[i] + AggregateHierarchical(E) \in Int
    BY <2>5
  <2> QED
    BY <2>6, RangeAssumption, ClampIsInt DEF Updated, E
<1> QED
  BY <1>1 DEF Support

TrustRounds(claims, G, rep) ==
  LET next(trust) == Support(claims, G, rep, Live(G), BaseTrust(claims, G, rep), trust) IN
  {f \in [0..MaxIterations -> [trust : [Believed(claims, G) -> Int], changed : BOOLEAN]] :
     /\ f[0] = [trust |-> BaseTrust(claims, G, rep), changed |-> TRUE]
     /\ \A n \in 1..MaxIterations :
          f[n] = IF f[n - 1].changed
                 THEN [trust |-> next(f[n - 1].trust),
                       changed |-> next(f[n - 1].trust) # f[n - 1].trust]
                 ELSE f[n - 1]}

LEMMA RoundsExist ==
  ASSUME NEW claims, NEW G, NEW rep, Typed(claims, G, rep)
  PROVE  \E f \in TrustRounds(claims, G, rep) :
           Stabilized(claims, G, rep) = f[MaxIterations].trust
<1> DEFINE T == [Believed(claims, G) -> Int]
           V == [trust : T, changed : BOOLEAN]
           base == BaseTrust(claims, G, rep)
           first == [trust |-> base, changed |-> TRUE]
           next(trust) == Support(claims, G, rep, Live(G), base, trust)
           step(last) == IF last.changed
                         THEN [trust |-> next(last.trust), changed |-> next(last.trust) # last.trust]
                         ELSE last
           F == [v \in V |-> step(v)]
           Eq(f) == f = [n \in 0..MaxIterations |-> IF n = 0 THEN first ELSE step(f[n - 1])]
           round == CHOOSE f : Eq(f)
<1>1. base \in T
  BY BaseTyped
<1> HIDE DEF base
<1>2. \A t \in T : next(t) \in T
  BY <1>1, SupportTyped
<1> HIDE DEF next, T
<1>3. first \in V
  BY <1>1
<1>4. \A v \in V : step(v) \in V
  BY <1>2
<1>5. F \in [V -> V]
  BY <1>4
<1>6. MaxIterations \in Nat
  BY TopologyAssumption
<1>7. \E f : Eq(f)
  <2>1. Chains(MaxIterations, V, first, F) # {}
    <3> HIDE DEF F, V, first
    <3> QED
      BY <1>3, <1>5, <1>6, ChainExists
  <2>2. PICK f \in [0..MaxIterations -> V] :
          f = [n \in 0..MaxIterations |-> IF n = 0 THEN first ELSE F[f[n - 1]]]
    BY <2>1 DEF Chains
  <2> HIDE DEF V, first, step
  <2>3. \A n \in 0..MaxIterations : n # 0 => F[f[n - 1]] = step(f[n - 1])
    BY <1>6
  <2>4. Eq(f)
    BY <2>2, <2>3, Zenon
  <2> QED
    BY <2>4
<1>8. Eq(round)
  BY <1>7
<1>9. Stabilized(claims, G, rep) = round[MaxIterations].trust
  BY DEF Stabilized, round, Eq, step, first, next, base
<1> HIDE DEF round, V, first, step
<1>10. \A k \in 0..MaxIterations : round[k] \in V
  <2> DEFINE P == {k \in 0..MaxIterations : round[k] \in V}
  <2>1. 0 \in P
    BY <1>3, <1>6, <1>8
  <2>2. ASSUME NEW k \in 1..MaxIterations, k - 1 \in P
        PROVE  k \in P
    <3>1. round[k] = step(round[k - 1])
      BY <1>6, <1>8
    <3> QED
      BY <1>4, <2>2, <3>1
  <2> HIDE DEF P
  <2>3. \A k \in 0..MaxIterations : k \in P
    BY <1>6, <2>1, <2>2, CountingInduction
  <2> QED
    BY <2>3 DEF P
<1>11. round \in [0..MaxIterations -> V]
  BY <1>8, <1>10
<1>12. round[0] = first
  BY <1>6, <1>8
<1>13. ASSUME NEW n \in 1..MaxIterations
       PROVE  round[n] = step(round[n - 1])
  <2>1. n \in 0..MaxIterations /\ n # 0
    BY <1>6
  <2> QED
    BY <1>8, <2>1
<1>14. round \in TrustRounds(claims, G, rep)
  BY <1>11, <1>12, <1>13 DEF TrustRounds, V, T, first, step, next, base
<1> QED
  BY <1>9, <1>14

LEMMA StabilizedTyped ==
  ASSUME NEW claims, NEW G, NEW rep, Typed(claims, G, rep)
  PROVE  Stabilized(claims, G, rep) \in [Believed(claims, G) -> Int]
<1>1. PICK f \in TrustRounds(claims, G, rep) :
        Stabilized(claims, G, rep) = f[MaxIterations].trust
  BY RoundsExist
<1>2. MaxIterations \in 0..MaxIterations
  BY TopologyAssumption
<1> QED
  BY <1>1, <1>2 DEF TrustRounds

-----------------------------------------------------------------------------
(* The shares of a claim are at most the whole, and what an edge hands on  *)
(* is at most its share of what the claim has.                             *)
LEMMA SharesAddUp ==
  ASSUME NEW claims, NEW G, NEW rep, Typed(claims, G, rep), NEW i,
         NEW share \in [Live(G) \cap OutgoingEdges(G, i) -> Int],
         \A k \in Live(G) \cap OutgoingEdges(G, i) : share[k] = Share(G, Live(G), k)
  PROVE  SumFunction(share) \in Int /\ SumFunction(share) <= Scale
<1> DEFINE K == Live(G) \cap OutgoingEdges(G, i)
           weights == [k \in K |-> G[k].strength]
           whole == AtLeast(SumFunction(weights), 1)
<1>1. /\ IsFiniteSet(K) /\ weights \in [K -> Int]
      /\ SumFunction(weights) \in Nat
      /\ whole \in Nat \ {0} /\ SumFunction(weights) <= whole
  BY SharesTyped
<1>2. \A k \in K : whole * share[k] <= Scale * weights[k]
  BY SharesTyped, Zenon
<1>3. Scale \in Nat /\ Scale \in Int /\ whole \in Int
  BY <1>1, ScaleAssumption
<1>4. share \in [K -> Int]
  OBVIOUS
<1> HIDE DEF whole, weights, K
<1>5. whole * SumFunction(share) <= Scale * SumFunction(weights)
  BY <1>1, <1>2, <1>3, <1>4, SumsCompare
<1>6. SumFunction(share) \in Int
  BY <1>1, <1>4, SumIsInt
<1>7. Scale * SumFunction(weights) <= Scale * whole
  BY <1>1, <1>3, Multiplied
<1>8. /\ Scale * whole = whole * Scale /\ Scale * whole \in Int
      /\ whole * SumFunction(share) \in Int /\ Scale * SumFunction(weights) \in Int
  BY <1>1, <1>3, <1>6
<1>9. whole * SumFunction(share) <= whole * Scale
  BY <1>5, <1>7, <1>8
<1> QED
  BY <1>1, <1>3, <1>6, <1>9, Cancelled

LEMMA GivesWithinMeans ==
  ASSUME NEW claims, NEW G, NEW rep, Typed(claims, G, rep),
         NEW trust \in [Believed(claims, G) -> Int], NEW i \in Believed(claims, G)
  PROVE  GivenAway(claims, G, rep, trust, i) <= Voiced(trust[i])
<1> DEFINE K == Live(G) \cap OutgoingEdges(G, i)
           v == Voiced(trust[i])
           share == [k \in K |-> Share(G, Live(G), k)]
           given == [k \in K |-> Contribution(claims, G, rep, Live(G), trust, k)]
<1>0. IsFiniteSet(K) /\ \A k \in K : Share(G, Live(G), k) \in Nat
  BY SharesTyped, Zenon
<1>1. IsFiniteSet(K) /\ \A k \in K : k \in Live(G) /\ G[k].from = i
  BY <1>0 DEF OutgoingEdges
<1>2. share \in [K -> Int] /\ \A k \in K : share[k] = Share(G, Live(G), k)
  BY <1>0
<1>3. SumFunction(share) \in Int /\ SumFunction(share) <= Scale
  BY <1>2, SharesAddUp
<1>4. given \in [K -> Int] /\ \A k \in K : Scale * given[k] <= v * share[k]
  BY <1>1, ContributionTyped
<1>5. v \in Nat
  BY DEF Voiced, AtLeast
<1>6. Scale \in Nat \ {0} /\ Scale \in Int /\ v \in Int
  BY <1>5, ScaleAssumption
<1> HIDE DEF K, v, share, given
<1>7. Scale * SumFunction(given) <= v * SumFunction(share)
  BY <1>1, <1>2, <1>4, <1>6, SumsCompare
<1>8. SumFunction(given) \in Int
  BY <1>1, <1>4, SumIsInt
<1>9. v * SumFunction(share) <= v * Scale
  BY <1>3, <1>5, <1>6, Multiplied
<1>10. /\ v * Scale = Scale * v /\ v * Scale \in Int
       /\ Scale * SumFunction(given) \in Int /\ v * SumFunction(share) \in Int
  BY <1>3, <1>6, <1>8
<1>11. Scale * SumFunction(given) <= Scale * v
  BY <1>7, <1>9, <1>10
<1>12. SumFunction(given) <= v
  BY <1>6, <1>8, <1>11, Cancelled
<1> QED
  BY <1>12 DEF GivenAway, Total, given, K, v

-----------------------------------------------------------------------------
(* However many contradictions there are, the cap on all of them together  *)
(* leaves a trusted claim its protected part.                              *)
LEMMA PenaltyTyped ==
  ASSUME NEW claims, NEW G, NEW rep, Typed(claims, G, rep),
         NEW trust \in [Believed(claims, G) -> Int], NEW k \in DOMAIN G
  PROVE  Penalty(claims, G, rep, trust, k) \in Int
<1> DEFINE i == G[k].to
           ForK == {l \in IncomingEdges(G, i) : Supportive(G[l])}
           voice(S) == [l \in S |-> Voiced(trust[G[l].from])]
           weight == (G[k].strength * AuthorRep(claims, rep, G[k].from)) \div Scale
           raw == (Voiced(trust[G[k].from]) * weight) \div Scale
<1>1. \A l \in DOMAIN G : Voiced(trust[G[l].from]) \in Nat
  BY EdgesTyped DEF Voiced, AtLeast
<1>2. Scale \in Nat \ {0} /\ DampingBps \in Int
  BY ScaleAssumption, TopologyAssumption
<1>3. trust[i] \in Int
  BY EdgesTyped
<1>4. raw \in Int
  <2>1. G[k].strength \in Int /\ AuthorRep(claims, rep, G[k].from) \in Int
    BY EdgesTyped, AuthorRepTyped, ScaleAssumption
  <2>2. weight \in Int
    BY <1>2, <2>1, ProductIsInt, DivideInt
  <2> HIDE DEF weight
  <2> QED
    BY <1>1, <1>2, <2>2, ProductIsInt, DivideInt
<1>5. ASSUME NEW S \in SUBSET IncomingEdges(G, i)
      PROVE  SumFunction(voice(S)) \in Nat
  <2>1. IsFiniteSet(S) /\ \A l \in S : l \in DOMAIN G
    BY EdgesTyped, FS_Subset DEF IncomingEdges
  <2>2. voice(S) \in [S -> Nat]
    BY <1>1, <2>1
  <2> HIDE DEF voice
  <2> QED
    BY <2>1, <2>2, SumIsNat
<1> DEFINE for == SumFunction(voice(ForK))
           against == SumFunction(voice(Contradicting(G, i)))
<1>6. for \in Nat /\ against \in Nat
  BY <1>5 DEF Contradicting
<1>7. DynamicAlpha(G, trust, i) = AtMost((against * Scale) \div (for + against + 1), DampingBps)
  BY DEF DynamicAlpha, Total
<1> HIDE DEF for, against, voice, ForK, raw
<1>8. DynamicAlpha(G, trust, i) \in Int
  <2>1. against * Scale \in Int /\ for + against + 1 \in Nat \ {0}
    BY <1>2, <1>6
  <2>2. (against * Scale) \div (for + against + 1) \in Int
    BY <2>1, DivideInt
  <2> QED
    BY <1>2, <1>7, <2>2 DEF AtMost
<1>9. (trust[i] * DynamicAlpha(G, trust, i)) \div Scale \in Int
  BY <1>2, <1>3, <1>8, ProductIsInt, DivideInt
<1>10. Penalty(claims, G, rep, trust, k) \in
         {raw, AtMost(raw, (trust[i] * DynamicAlpha(G, trust, i)) \div Scale)}
  BY DEF Penalty, raw
<1> QED
  BY <1>4, <1>9, <1>10 DEF AtMost

LEMMA ProtectedPart ==
  ASSUME NEW claims, NEW G, NEW rep, Typed(claims, G, rep),
         NEW i \in Believed(claims, G), Stabilized(claims, G, rep)[i] > 0
  PROVE  /\ Scale * PropagateTrust(claims, G, rep)[i]
              >= (Scale - DampingBps) * Stabilized(claims, G, rep)[i]
         /\ Verdict(PropagateTrust(claims, G, rep)[i]) # "rejected"
<1> DEFINE trust == Stabilized(claims, G, rep)
           b == trust[i]
           C == Contradicting(G, i)
           penalty == [k \in C |-> Penalty(claims, G, rep, trust, k)]
           cap == (b * DampingBps) \div Scale
           capped == CappedPenalty(b, SumFunction(penalty))
           after == PropagateTrust(claims, G, rep)[i]
<1>1. trust \in [Believed(claims, G) -> Int]
  BY StabilizedTyped
<1> HIDE DEF trust
<1>2. b \in Int /\ b > 0
  BY <1>1 DEF trust
<1>3. IsFiniteSet(C) /\ \A k \in C : k \in DOMAIN G
  BY EdgesTyped, FS_Subset DEF Contradicting, IncomingEdges
<1>4. penalty \in [C -> Int]
  BY <1>1, <1>3, PenaltyTyped
<1>5. SumFunction(penalty) \in Int
  <2> HIDE DEF penalty, C
  <2> QED
    BY <1>3, <1>4, SumIsInt
<1>6. after = b - capped
  BY <1>1 DEF PropagateTrust, Contradicted, Total, trust
<1> HIDE DEF penalty, after, b
<1>7. Scale \in Nat \ {0} /\ DampingBps \in 0..Scale /\ DampingBps \in Int /\ Threshold \in Nat
  BY ScaleAssumption, TopologyAssumption
<1>8. cap \in Int /\ Scale * cap <= b * DampingBps
  BY <1>2, <1>7, ProductIsInt, DivideInt
<1> HIDE DEF cap
<1>9. capped \in Int /\ capped <= cap
  BY <1>2, <1>5, <1>8 DEF CappedPenalty, AtMost, cap
<1> HIDE DEF capped
<1>10. Scale * capped <= Scale * cap
  BY <1>7, <1>8, <1>9, Multiplied
<1>11. /\ after \in Int /\ Scale * after = Scale * b - Scale * capped
       /\ (Scale - DampingBps) * b = Scale * b - b * DampingBps
  BY <1>2, <1>6, <1>7, <1>9
<1>12. Scale * after >= (Scale - DampingBps) * b
  <2>1. Scale * b \in Int /\ Scale * capped \in Int /\ b * DampingBps \in Int /\ Scale * cap \in Int
    BY <1>2, <1>7, <1>8, <1>9
  <2> QED
    BY <1>8, <1>10, <1>11, <2>1
<1>13. after >= 0
  <2>1. (Scale - DampingBps) * b >= (Scale - DampingBps) * 0
    BY <1>2, <1>7, Multiplied
  <2>2. Scale * 0 <= Scale * after
    BY <1>2, <1>7, <1>11, <1>12, <2>1
  <2> QED
    BY <1>7, <1>11, <2>2, Cancelled
<1>14. Verdict(after) # "rejected"
  BY <1>7, <1>11, <1>13 DEF Verdict
<1> QED
  BY <1>12, <1>14 DEF after, b, trust

-----------------------------------------------------------------------------
LEMMA StepBefore ==
  ASSUME NEW top \in Nat, NEW n \in 1..top
  PROVE  n \in 0..top /\ n # 0 /\ n - 1 \in 0..top /\ n - 1 \in Nat /\ (n - 1) + 1 = n
OBVIOUS

-----------------------------------------------------------------------------
(* The cycle cut.  After n steps of the search, nodes that were left are   *)
(* ranked by the step in which they were, so that every edge that stays    *)
(* goes down in rank.                                                      *)
SearchStates(G) ==
  [path : Seq(Ends(G)), visited : SUBSET Ends(G), cyclic : SUBSET DOMAIN G]

OnPath(s) == {s.path[p] : p \in DOMAIN s.path}
Left(s)   == s.visited \ OnPath(s)

Descents(G, cyclic, left, n) ==
  {rank \in [Ends(G) -> 0..n] :
     \A k \in DOMAIN G \ cyclic : Supportive(G[k]) /\ G[k].from \in left =>
       G[k].to \in left /\ rank[G[k].to] < rank[G[k].from]}

(* The way back up the path is cut.                                        *)
Upward(G, s) ==
  \A k \in DOMAIN G \ s.cyclic : Supportive(G[k]) =>
    \A p, q \in DOMAIN s.path : q <= p /\ s.path[p] = G[k].from => s.path[q] # G[k].to

SearchInv(G, s, n) ==
  /\ s \in SearchStates(G)
  /\ OnPath(s) \subseteq s.visited
  /\ \A p, q \in DOMAIN s.path : s.path[p] = s.path[q] => p = q
  /\ Upward(G, s)
  /\ Descents(G, s.cyclic, Left(s), n) # {}
  /\ \/ 2 * Cardinality(s.visited) = n + Len(s.path)
     \/ s.path = <<>> /\ s.visited = Ends(G)

LEMMA EndsAreIds ==
  ASSUME NEW G, IsGraph(G)
  PROVE  /\ IsFiniteSet(Ends(G)) /\ Ends(G) \subseteq Nat
         /\ \A k \in DOMAIN G : G[k].from \in Ends(G) /\ G[k].to \in Ends(G)
         /\ IsFiniteSet(DOMAIN G)
<1>1. DOMAIN G = 1..Len(G) /\ Len(G) \in Nat
  BY DEF IsGraph
<1>2. IsFiniteSet(DOMAIN G)
  BY <1>1, FS_Interval
<1> DEFINE from == [k \in DOMAIN G |-> G[k].from]
           to == [k \in DOMAIN G |-> G[k].to]
<1>3. Ends(G) = {from[k] : k \in DOMAIN G} \cup {to[k] : k \in DOMAIN G}
  BY DEF Ends
<1>4. IsFiniteSet({from[k] : k \in DOMAIN G}) /\ IsFiniteSet({to[k] : k \in DOMAIN G})
  <2> HIDE DEF from, to
  <2> QED
    BY <1>2, ImageFinite
<1>5. IsFiniteSet(Ends(G))
  BY <1>3, <1>4, FS_Union
<1>6. Ends(G) \subseteq Nat
  BY DEF Ends, IsGraph
<1> QED
  BY <1>2, <1>5, <1>6 DEF Ends

LEMMA SmallestPicked ==
  ASSUME NEW S \in SUBSET Nat, S # {}
  PROVE  Min(S) \in S
<1>1. \E m \in S : \A k \in S : m <= k
  BY SmallestOf
<1> QED
  BY <1>1 DEF Min

LEMMA SuccessorsAreEnds ==
  ASSUME NEW G, IsGraph(G), NEW s
  PROVE  Successors(G, s) \subseteq Ends(G)
BY EndsAreIds DEF Successors, OutgoingEdges

LEMMA EnterInv ==
  ASSUME NEW G, IsGraph(G), NEW s, NEW n \in Nat, SearchInv(G, s, n),
         NEW u \in Ends(G), u \notin s.visited
  PROVE  SearchInv(G, Enter(G, s, u), n + 1)
<1> DEFINE t == Enter(G, s, u)
           m == Len(s.path)
<1>1. /\ s.path \in Seq(Ends(G)) /\ s.visited \in SUBSET Ends(G) /\ s.cyclic \in SUBSET DOMAIN G
      /\ m \in Nat /\ DOMAIN s.path = 1..m
  BY DEF SearchInv, SearchStates
<1>2. t.path = Append(s.path, u) /\ t.visited = s.visited \cup {u}
      /\ t.cyclic = s.cyclic \cup BackEdges(G, t.path)
  BY DEF Enter
<1>3. /\ t.path \in Seq(Ends(G)) /\ Len(t.path) = m + 1 /\ DOMAIN t.path = 1..(m + 1)
      /\ t.path[m + 1] = u /\ \A p \in 1..m : t.path[p] = s.path[p]
  BY <1>1, <1>2
<1>4. t \in SearchStates(G)
  <2>1. BackEdges(G, t.path) \subseteq DOMAIN G
    BY DEF BackEdges, OutgoingEdges
  <2> QED
    BY <1>1, <1>3, <2>1 DEF Enter, SearchStates
<1> HIDE DEF t
<1>5. OnPath(t) = OnPath(s) \cup {u}
  <2>1. \A p \in 1..(m + 1) : p \in 1..m \/ p = m + 1
    BY <1>1
  <2>2. m + 1 \in 1..(m + 1) /\ \A p \in 1..m : p \in 1..(m + 1)
    BY <1>1
  <2>3. \A p \in DOMAIN t.path : t.path[p] \in OnPath(s) \cup {u}
    BY <1>1, <1>3, <2>1 DEF OnPath
  <2>4. \A p \in DOMAIN s.path : s.path[p] \in OnPath(t)
    BY <1>1, <1>3, <2>2 DEF OnPath
  <2>5. u \in OnPath(t)
    BY <1>3, <2>2 DEF OnPath
  <2> QED
    BY <2>3, <2>4, <2>5 DEF OnPath
<1>6. OnPath(s) \subseteq s.visited
  BY DEF SearchInv
<1>7. ASSUME NEW p \in DOMAIN t.path, NEW q \in DOMAIN t.path, t.path[p] = t.path[q]
      PROVE  p = q
  <2>1. \A r \in 1..m : s.path[r] # u
    BY <1>1, <1>6 DEF OnPath
  <2>2. \A a, b \in 1..m : s.path[a] = s.path[b] => a = b
    BY <1>1 DEF SearchInv
  <2>3. \A r \in 1..(m + 1) : r \in 1..m \/ r = m + 1
    <3>1. m \in Nat
      BY <1>1
    <3> HIDE DEF m
    <3> QED
      BY <3>1
  <2>4. (p \in 1..m \/ p = m + 1) /\ (q \in 1..m \/ q = m + 1)
    <3> HIDE DEF m
    <3> QED
      BY <1>3, <2>3, Zenon
  <2>5. CASE p \in 1..m /\ q \in 1..m
    BY <1>3, <1>7, <2>2, <2>5
  <2>6. CASE p \in 1..m /\ q = m + 1
    BY <1>3, <1>7, <2>1, <2>6
  <2>7. CASE p = m + 1 /\ q \in 1..m
    BY <1>3, <1>7, <2>1, <2>7
  <2> QED
    BY <2>4, <2>5, <2>6, <2>7
<1>8. Upward(G, t)
  <2>1. SUFFICES ASSUME NEW k \in DOMAIN G \ t.cyclic, Supportive(G[k]),
                        NEW p \in DOMAIN t.path, NEW q \in DOMAIN t.path,
                        q <= p, t.path[p] = G[k].from, t.path[q] = G[k].to
                 PROVE  FALSE
    BY DEF Upward
  <2>2. CASE p = m + 1
    <3>1. k \in BackEdges(G, t.path)
      BY <1>3, <2>1, <2>2 DEF BackEdges, OutgoingEdges
    <3> QED
      BY <1>2, <2>1, <3>1
  <2>3. CASE p # m + 1
    <3>1. p \in 1..m /\ q \in 1..m /\ k \in DOMAIN G \ s.cyclic
      BY <1>1, <1>2, <1>3, <2>1, <2>3
    <3>2. s.path[p] = G[k].from /\ s.path[q] = G[k].to
      BY <1>3, <2>1, <3>1
    <3> QED
      BY <1>1, <2>1, <3>1, <3>2 DEF SearchInv, Upward
  <2> QED
    BY <2>2, <2>3
<1>9. Left(t) = Left(s)
  BY <1>2, <1>5, <1>6 DEF Left
<1>10. PICK rank \in Descents(G, s.cyclic, Left(s), n) : TRUE
  BY DEF SearchInv
<1>11. rank \in Descents(G, t.cyclic, Left(t), n + 1)
  <2>1. rank \in [Ends(G) -> 0..(n + 1)]
    BY <1>10 DEF Descents
  <2>2. DOMAIN G \ t.cyclic \subseteq DOMAIN G \ s.cyclic
    BY <1>2
  <2> QED
    BY <1>9, <1>10, <2>1, <2>2 DEF Descents
<1>12. 2 * Cardinality(t.visited) = (n + 1) + Len(t.path)
  <2>1. ~(s.path = <<>> /\ s.visited = Ends(G))
    OBVIOUS
  <2>2. 2 * Cardinality(s.visited) = n + m
    BY <2>1 DEF SearchInv
  <2>3. IsFiniteSet(s.visited) /\ Cardinality(s.visited) \in Nat
    BY <1>1, EndsAreIds, FS_Subset, FS_CardinalityType
  <2>4. Cardinality(t.visited) = Cardinality(s.visited) + 1
    BY <1>2, <2>3, FS_AddElement
  <2>5. m \in Nat /\ Len(t.path) = m + 1
    BY <1>1, <1>3
  <2> HIDE DEF m
  <2>6. \A c \in Nat : 2 * c = n + m => 2 * (c + 1) = (n + 1) + (m + 1)
    BY <2>5
  <2> QED
    BY <2>2, <2>3, <2>4, <2>5, <2>6
<1>13. OnPath(t) \subseteq t.visited
  BY <1>2, <1>5, <1>6
<1> QED
  BY <1>4, <1>7, <1>8, <1>11, <1>12, <1>13 DEF SearchInv, t

LEMMA LeaveInv ==
  ASSUME NEW G, IsGraph(G), NEW s, NEW n \in Nat, SearchInv(G, s, n),
         s.path # <<>>, Successors(G, s) \subseteq s.visited
  PROVE  SearchInv(G, Leave(s), n + 1)
<1> DEFINE t == Leave(s)
           m == Len(s.path)
           u == s.path[m]
<1>1. /\ s.path \in Seq(Ends(G)) /\ s.visited \in SUBSET Ends(G) /\ s.cyclic \in SUBSET DOMAIN G
      /\ m \in Nat \ {0} /\ DOMAIN s.path = 1..m /\ u \in Ends(G)
  BY DEF SearchInv, SearchStates
<1>2. t.path = SubSeq(s.path, 1, m - 1) /\ t.visited = s.visited /\ t.cyclic = s.cyclic
  BY DEF Leave, SearchInv, SearchStates
<1>3. /\ t.path \in Seq(Ends(G)) /\ Len(t.path) = m - 1 /\ DOMAIN t.path = 1..(m - 1)
      /\ \A p \in 1..(m - 1) : t.path[p] = s.path[p]
  BY <1>1, <1>2
<1>4. t \in SearchStates(G)
  BY <1>1, <1>3 DEF Leave, SearchInv, SearchStates
<1> HIDE DEF t
<1>5. \A p, q \in 1..m : s.path[p] = s.path[q] => p = q
  BY <1>1 DEF SearchInv
<1>6. OnPath(t) = OnPath(s) \ {u} /\ u \in OnPath(s) /\ OnPath(s) \subseteq s.visited
  <2>1. OnPath(s) = {s.path[p] : p \in 1..m} /\ OnPath(t) = {s.path[p] : p \in 1..(m - 1)}
    BY <1>1, <1>3 DEF OnPath
  <2>2. \A p \in 1..m : p \in 1..(m - 1) <=> s.path[p] # u
    BY <1>1, <1>5
  <2> QED
    BY <1>1, <2>1, <2>2 DEF SearchInv
<1>7. Left(t) = Left(s) \cup {u} /\ u \notin Left(s)
  BY <1>2, <1>6 DEF Left
<1>8. Upward(G, t)
  <2>1. \A p \in DOMAIN t.path : p \in DOMAIN s.path /\ t.path[p] = s.path[p]
    BY <1>1, <1>3
  <2> QED
    BY <1>2, <2>1 DEF Upward, SearchInv
<1>9. ASSUME NEW k \in DOMAIN G \ s.cyclic, Supportive(G[k]), G[k].from = u
      PROVE  G[k].to \in Left(s)
  <2>1. G[k].to \in s.visited
    BY <1>9 DEF Successors, OutgoingEdges
  <2>2. \A q \in 1..m : s.path[q] # G[k].to
    BY <1>1, <1>9 DEF SearchInv, Upward
  <2> QED
    BY <1>1, <2>1, <2>2 DEF Left, OnPath
<1>10. PICK rank \in Descents(G, s.cyclic, Left(s), n) : TRUE
  BY DEF SearchInv
<1> DEFINE new == [rank EXCEPT ![u] = n + 1]
<1>11. new \in Descents(G, t.cyclic, Left(t), n + 1)
  <2>1. rank \in [Ends(G) -> 0..n]
    BY <1>10 DEF Descents
  <2>2. new \in [Ends(G) -> 0..(n + 1)] /\ new[u] = n + 1
        /\ \A v \in Ends(G) \ {u} : new[v] = rank[v]
    BY <1>1, <2>1
  <2> HIDE DEF new
  <2>3. ASSUME NEW k \in DOMAIN G \ s.cyclic, Supportive(G[k]), G[k].from \in Left(t)
        PROVE  G[k].to \in Left(t) /\ new[G[k].to] < new[G[k].from]
    <3>1. G[k].from \in Ends(G) /\ G[k].to \in Ends(G)
      BY EndsAreIds
    <3>2. CASE G[k].from = u
      <4>1. G[k].to \in Left(s)
        BY <1>9, <2>3, <3>2
      <4>2. new[G[k].to] = rank[G[k].to] /\ rank[G[k].to] \in 0..n
        BY <1>7, <2>1, <2>2, <3>1, <4>1
      <4> QED
        BY <1>7, <2>2, <3>2, <4>1, <4>2
    <3>3. CASE G[k].from # u
      <4>1. G[k].from \in Left(s)
        BY <1>7, <2>3, <3>3
      <4>2. G[k].to \in Left(s) /\ rank[G[k].to] < rank[G[k].from]
        BY <1>10, <2>3, <4>1 DEF Descents
      <4> QED
        BY <1>7, <2>2, <3>1, <3>3, <4>2
    <3> QED
      BY <3>2, <3>3
  <2> QED
    BY <1>2, <2>2, <2>3 DEF Descents
<1>12. 2 * Cardinality(t.visited) = (n + 1) + Len(t.path)
  <2>1. 2 * Cardinality(s.visited) = n + m
    BY DEF SearchInv
  <2>2. Cardinality(s.visited) \in Nat
    BY <1>1, EndsAreIds, FS_Subset, FS_CardinalityType
  <2>3. m \in Nat /\ Len(t.path) = m - 1 /\ t.visited = s.visited
    BY <1>1, <1>2, <1>3
  <2> HIDE DEF m
  <2>4. \A c \in Nat : 2 * c = n + m => 2 * c = (n + 1) + (m - 1)
    BY <2>3
  <2> QED
    BY <2>1, <2>2, <2>3, <2>4
<1>13. \A p, q \in DOMAIN t.path : t.path[p] = t.path[q] => p = q
  BY <1>1, <1>3, <1>5
<1>14. OnPath(t) \subseteq t.visited
  BY <1>2, <1>6
<1> HIDE DEF new
<1> QED
  BY <1>4, <1>8, <1>11, <1>12, <1>13, <1>14 DEF SearchInv, t

LEMMA SearchStepInv ==
  ASSUME NEW G, IsGraph(G), NEW s, NEW n \in Nat, SearchInv(G, s, n)
  PROVE  SearchInv(G, SearchStep(G, s), n + 1)
<1> DEFINE fresh == Successors(G, s) \ s.visited
<1>1. fresh \subseteq Ends(G) /\ fresh \subseteq Nat
  BY SuccessorsAreEnds, EndsAreIds
<1>2. CASE fresh # {}
  <2>1. Min(fresh) \in fresh
    BY <1>1, <1>2, SmallestPicked
  <2>2. SearchStep(G, s) = Enter(G, s, Min(fresh))
    BY <1>2 DEF SearchStep
  <2> QED
    BY <1>1, <2>1, <2>2, EnterInv
<1>3. CASE fresh = {} /\ s.path # <<>>
  <2>1. SearchStep(G, s) = Leave(s)
    BY <1>3 DEF SearchStep
  <2> QED
    BY <1>3, <2>1, LeaveInv
<1>4. CASE fresh = {} /\ s.path = <<>>
  <2>1. SearchStep(G, s) = s
    BY <1>4 DEF SearchStep
  <2>2. s.visited = Ends(G)
    BY <1>4 DEF Successors, SearchInv, SearchStates
  <2>3. PICK rank \in Descents(G, s.cyclic, Left(s), n) : TRUE
    BY DEF SearchInv
  <2>4. rank \in Descents(G, s.cyclic, Left(s), n + 1)
    BY <2>3 DEF Descents
  <2> QED
    BY <1>4, <2>1, <2>2, <2>4 DEF SearchInv
<1> QED
  BY <1>2, <1>3, <1>4

LEMMA SearchBegins ==
  ASSUME NEW G, IsGraph(G)
  PROVE  SearchInv(G, [path |-> <<>>, visited |-> {}, cyclic |-> {}], 0)
<1> DEFINE s == [path |-> <<>>, visited |-> {}, cyclic |-> {}]
<1>1. s \in SearchStates(G) /\ OnPath(s) = {} /\ Left(s) = {} /\ DOMAIN s.path = {}
  BY DEF SearchStates, OnPath, Left
<1>2. [x \in Ends(G) |-> 0] \in Descents(G, s.cyclic, Left(s), 0)
  BY <1>1 DEF Descents
<1>3. 2 * Cardinality(s.visited) = 0 + Len(s.path)
  BY FS_EmptySet
<1> HIDE DEF s
<1> QED
  BY <1>1, <1>2, <1>3 DEF SearchInv, Upward, s

(* The whole search, from its first state to its last.                     *)
Searches(G) ==
  LET top == 2 * Cardinality(Ends(G)) IN
  {f \in [0..top -> SearchStates(G)] :
     /\ f[0] = [path |-> <<>>, visited |-> {}, cyclic |-> {}]
     /\ \A n \in 1..top : f[n] = SearchStep(G, f[n - 1])
     /\ \A n \in 0..top : SearchInv(G, f[n], n)}

LEMMA SearchExists ==
  ASSUME NEW G, IsGraph(G)
  PROVE  \E f \in Searches(G) : CyclicEdges(G) = f[2 * Cardinality(Ends(G))].cyclic
<1> DEFINE V == SearchStates(G)
           first == [path |-> <<>>, visited |-> {}, cyclic |-> {}]
           top == 2 * Cardinality(Ends(G))
           F == [s \in V |-> IF SearchStep(G, s) \in V THEN SearchStep(G, s) ELSE first]
           Eq(f) == f = [n \in 0..top |-> IF n = 0 THEN first ELSE SearchStep(G, f[n - 1])]
           search == CHOOSE f : Eq(f)
<1>1. Cardinality(Ends(G)) \in Nat /\ IsFiniteSet(Ends(G))
  BY EndsAreIds, FS_CardinalityType
<1>2. top \in Nat
  BY <1>1
<1> HIDE DEF top
<1>3. first \in V
  BY SearchBegins DEF SearchInv
<1>4. F \in [V -> V]
  BY <1>3
<1>5. \E f : Eq(f)
  <2>1. Chains(top, V, first, F) # {}
    <3> HIDE DEF F, V, first
    <3> QED
      BY <1>2, <1>3, <1>4, ChainExists
  <2>2. PICK f \in [0..top -> V] : f = [n \in 0..top |-> IF n = 0 THEN first ELSE F[f[n - 1]]]
    BY <2>1 DEF Chains
  <2> DEFINE P == {n \in 0..top : SearchInv(G, f[n], n)}
  <2>3. 0 \in P
    BY <1>2, <2>2, SearchBegins
  <2>4. ASSUME NEW n \in 1..top, n - 1 \in P
        PROVE  n \in P /\ F[f[n - 1]] = SearchStep(G, f[n - 1])
    <3>0. n \in 0..top /\ n # 0 /\ n - 1 \in 0..top /\ n - 1 \in Nat /\ (n - 1) + 1 = n
      BY <1>2, StepBefore
    <3>1. f[n - 1] \in V /\ f[n] = F[f[n - 1]]
      <4> HIDE DEF F, V, first
      <4> QED
        BY <2>2, <3>0
    <3>2. SearchInv(G, SearchStep(G, f[n - 1]), n)
      BY <2>4, <3>0, SearchStepInv
    <3>3. SearchStep(G, f[n - 1]) \in V
      BY <3>2 DEF SearchInv
    <3>4. F[f[n - 1]] = SearchStep(G, f[n - 1])
      BY <3>1, <3>3
    <3> QED
      BY <3>0, <3>1, <3>2, <3>4
  <2> HIDE DEF P
  <2>5. \A n \in 0..top : n \in P
    BY <1>2, <2>3, <2>4, CountingInduction
  <2>6. \A n \in 0..top : n # 0 => F[f[n - 1]] = SearchStep(G, f[n - 1])
    <3>1. \A n \in 0..top : n # 0 => n \in 1..top /\ n - 1 \in 0..top
      BY <1>2
    <3> QED
      BY <2>4, <2>5, <3>1
  <2> HIDE DEF F, first
  <2>7. Eq(f)
    BY <2>2, <2>6, Zenon
  <2> QED
    BY <2>7
<1>6. Eq(search)
  BY <1>5
<1>7. CyclicEdges(G) = search[top].cyclic
  BY DEF CyclicEdges, search, Eq, first, top
<1> HIDE DEF search
<1>8. \A n \in 0..top : SearchInv(G, search[n], n)
  <2> DEFINE P == {n \in 0..top : SearchInv(G, search[n], n)}
  <2>1. 0 \in P
    BY <1>2, <1>6, SearchBegins
  <2>2. ASSUME NEW n \in 1..top, n - 1 \in P
        PROVE  n \in P
    <3>1. n \in 0..top /\ n # 0 /\ n - 1 \in Nat /\ (n - 1) + 1 = n
      BY <1>2, StepBefore
    <3>2. search[n] = SearchStep(G, search[n - 1])
      <4> HIDE DEF first
      <4> QED
        BY <1>6, <3>1
    <3> QED
      BY <2>2, <3>1, <3>2, SearchStepInv
  <2> HIDE DEF P
  <2>3. \A n \in 0..top : n \in P
    BY <1>2, <2>1, <2>2, CountingInduction
  <2> QED
    BY <1>2, <2>3 DEF P
<1>9. search[0] = first
  BY <1>2, <1>6
<1>10. ASSUME NEW n \in 1..top
       PROVE  search[n] = SearchStep(G, search[n - 1])
  <2>1. n \in 0..top /\ n # 0
    BY <1>2, StepBefore
  <2> HIDE DEF first
  <2> QED
    BY <1>6, <2>1
<1>11. search \in [0..top -> V]
  <2>1. \A n \in 0..top : search[n] \in V
    BY <1>8 DEF SearchInv
  <2> HIDE DEF V, first
  <2> QED
    BY <1>6, <2>1
<1>12. search \in Searches(G)
  BY <1>8, <1>9, <1>10, <1>11 DEF Searches, V, first, top
<1> QED
  BY <1>7, <1>12 DEF top

(* What the cut leaves goes down in rank, everywhere.                      *)
Ranking(G) ==
  {rank \in [Ends(G) -> Nat] : \A k \in Live(G) : rank[G[k].to] < rank[G[k].from]}

LEMMA LiveEdgesDescend ==
  ASSUME NEW G, IsGraph(G)
  PROVE  Ranking(G) # {}
<1> DEFINE top == 2 * Cardinality(Ends(G))
<1>1. Cardinality(Ends(G)) \in Nat /\ IsFiniteSet(Ends(G))
  BY EndsAreIds, FS_CardinalityType
<1>2. top \in Nat
  BY <1>1
<1> HIDE DEF top
<1>3. PICK search \in Searches(G) : CyclicEdges(G) = search[top].cyclic
  BY SearchExists DEF top
<1>4. CyclicEdges(G) = search[top].cyclic
  BY <1>3
<1>5. SearchInv(G, search[top], top)
  BY <1>2, <1>3 DEF Searches, top
<1> DEFINE s == search[top]
<1>6. /\ s.visited \in SUBSET Ends(G) /\ s.path \in Seq(Ends(G))
       /\ s.path = <<>> /\ s.visited = Ends(G)
  <2>1. s.visited \in SUBSET Ends(G) /\ s.path \in Seq(Ends(G))
    BY <1>5 DEF SearchInv, SearchStates
  <2>2. /\ Cardinality(s.visited) \in Nat /\ Cardinality(s.visited) <= Cardinality(Ends(G))
        /\ (Cardinality(s.visited) = Cardinality(Ends(G)) => s.visited = Ends(G))
    BY <1>1, <2>1, FS_Subset, FS_CardinalityType
  <2>3. CASE 2 * Cardinality(s.visited) = top + Len(s.path)
    <3>1. Len(s.path) \in Nat /\ top = 2 * Cardinality(Ends(G))
      BY <2>1 DEF top
    <3> HIDE DEF s
    <3>2. Len(s.path) = 0 /\ Cardinality(s.visited) = Cardinality(Ends(G))
      BY <1>1, <2>2, <2>3, <3>1
    <3> QED
      BY <2>1, <2>2, <3>2
  <2> QED
    BY <1>5, <2>1, <2>3 DEF SearchInv
<1>7. Left(s) = Ends(G)
  BY <1>6 DEF Left, OnPath
<1>8. PICK rank \in Descents(G, s.cyclic, Left(s), top) : TRUE
  BY <1>5 DEF SearchInv
<1>9. rank \in [Ends(G) -> Nat]
  BY <1>2, <1>8 DEF Descents
<1>10. ASSUME NEW k \in Live(G)
       PROVE  rank[G[k].to] < rank[G[k].from]
  <2>1. k \in DOMAIN G \ s.cyclic /\ Supportive(G[k]) /\ G[k].from \in Ends(G)
    BY <1>4, EndsAreIds DEF Live
  <2> QED
    BY <1>7, <1>8, <2>1 DEF Descents
<1> QED
  BY <1>9, <1>10 DEF Ranking

(* What follows from a claim along such edges is below it.                 *)
LEMMA DependentsBelow ==
  ASSUME NEW G, IsGraph(G), NEW i \in Ends(G)
  PROVE  i \notin Dependents([k \in Live(G) |-> G[k]], i)
<1> DEFINE L == [k \in Live(G) |-> G[k]]
           E == Ends(G)
           next(R) == {i} \cup {L[e].to : e \in {d \in DOMAIN L : Supportive(L[d]) /\ L[d].from \in R}}
           n == Cardinality(DOMAIN L)
           F == [R \in SUBSET E |-> next(R)]
           Eq(f) == f = [k \in 0..n |-> IF k = 0 THEN {i} ELSE next(f[k - 1])]
           reached == CHOOSE f : Eq(f)
<1>1. PICK rank \in Ranking(G) : TRUE
  BY LiveEdgesDescend
<1>2. /\ IsFiniteSet(DOMAIN G) /\ Live(G) \subseteq DOMAIN G
      /\ \A k \in Live(G) : rank[G[k].to] < rank[G[k].from] /\ G[k].to \in E /\ G[k].from \in E
      /\ \A e \in E : rank[e] \in Nat
  BY <1>1, EndsAreIds DEF Ranking, Live
<1>3. n \in Nat
  BY <1>2, FS_Subset, FS_CardinalityType
<1>4. F \in [SUBSET E -> SUBSET E]
  BY <1>2
<1> HIDE DEF n
<1>5. \E f : Eq(f)
  <2>1. Chains(n, SUBSET E, {i}, F) # {}
    <3> HIDE DEF F
    <3> QED
      BY <1>3, <1>4, ChainExists
  <2>2. PICK f \in [0..n -> SUBSET E] : f = [k \in 0..n |-> IF k = 0 THEN {i} ELSE F[f[k - 1]]]
    BY <2>1 DEF Chains
  <2>3. \A k \in 0..n : k # 0 => F[f[k - 1]] = next(f[k - 1])
    <3>1. ASSUME NEW k \in 0..n, k # 0
          PROVE  f[k - 1] \in SUBSET E
      <4>1. k - 1 \in 0..n
        BY <1>3, <3>1
      <4> QED
        BY <4>1
    <3> QED
      BY <3>1
  <2> HIDE DEF F, next
  <2>4. Eq(f)
    BY <2>2, <2>3, Zenon
  <2> QED
    BY <2>4
<1>6. Eq(reached)
  BY <1>5
<1>7. Dependents(L, i) =
        {L[e].to : e \in {d \in DOMAIN L : Supportive(L[d]) /\ L[d].from \in reached[n]}}
  BY DEF Dependents, reached, Eq, next, n
<1> HIDE DEF reached
<1> DEFINE Under(R) == \A j \in R : j \in E /\ (j = i \/ rank[j] < rank[i])
<1>8. ASSUME NEW R, Under(R), NEW d \in DOMAIN L, L[d].from \in R
      PROVE  L[d].to \in E /\ rank[L[d].to] < rank[i]
  <2>1. L[d] = G[d] /\ rank[G[d].to] < rank[G[d].from] /\ G[d].to \in E /\ G[d].from \in E
    BY <1>2
  <2>2. L[d].from = i \/ rank[L[d].from] < rank[i]
    BY <1>8
  <2> QED
    BY <1>2, <2>1, <2>2
<1>9. Under(reached[n])
  <2> DEFINE P == {k \in 0..n : Under(reached[k])}
  <2>1. 0 \in P
    BY <1>3, <1>6
  <2>2. ASSUME NEW k \in 1..n, k - 1 \in P
        PROVE  k \in P
    <3>0. k \in 0..n /\ k # 0
      BY <1>3
    <3>1. reached[k] = next(reached[k - 1]) /\ Under(reached[k - 1])
      <4> HIDE DEF next, Under
      <4> QED
        BY <1>6, <2>2, <3>0
    <3>2. Under(next(reached[k - 1]))
      BY <1>8, <3>1
    <3> HIDE DEF next, Under
    <3> QED
      BY <3>1, <3>2
  <2> HIDE DEF P
  <2>3. \A k \in 0..n : k \in P
    BY <1>3, <2>1, <2>2, CountingInduction
  <2> QED
    BY <1>3, <2>3 DEF P
<1>10. \A j \in Dependents(L, i) : rank[j] < rank[i]
  BY <1>7, <1>8, <1>9
<1> QED
  BY <1>2, <1>10

-----------------------------------------------------------------------------
(* Rounds of trust.  What reaches a claim depends on the trust of the      *)
(* claims above it only, so the n-th round settles whatever has at most n  *)
(* claims above it, and with it all there is when the rounds are as many   *)
(* as the claims.                                                          *)
LEMMA SameSourcesSameSupport ==
  ASSUME NEW claims, NEW G, NEW rep, NEW base, NEW t, NEW u, NEW i \in DOMAIN base,
         \A k \in Live(G) \cap IncomingEdges(G, i) : t[G[k].from] = u[G[k].from]
  PROVE  Support(claims, G, rep, Live(G), base, t)[i] = Support(claims, G, rep, Live(G), base, u)[i]
<1> DEFINE K == Live(G) \cap IncomingEdges(G, i)
           evidence(trust, k) ==
             [at |-> k, lo |-> Contribution(claims, G, rep, Live(G), trust, k),
              id |-> IF G[k].from \in DOMAIN claims THEN claims[G[k].from].id ELSE <<>>,
              group |-> IF G[k].from \in DOMAIN claims THEN CorrelationGroup(claims, G[k].from)
                        ELSE [key |-> <<"none">>, assessed |-> FALSE]]
<1>1. \A k \in K : Contribution(claims, G, rep, Live(G), t, k) = Contribution(claims, G, rep, Live(G), u, k)
  BY DEF Contribution
<1>2. /\ Incoming(claims, G, rep, Live(G), t, i) = {evidence(t, k) : k \in K}
      /\ Incoming(claims, G, rep, Live(G), u, i) = {evidence(u, k) : k \in K}
  BY DEF Incoming
<1>3. \A k \in K : evidence(t, k) = evidence(u, k)
  BY <1>1
<1> HIDE DEF evidence
<1>4. Incoming(claims, G, rep, Live(G), t, i) = Incoming(claims, G, rep, Live(G), u, i)
  BY <1>2, <1>3
<1> QED
  BY <1>4 DEF Support

Above(G, rank, i) == {x \in Ends(G) : i \in Ends(G) /\ rank[x] > rank[i]}

LEMMA SourcesAreAbove ==
  ASSUME NEW G, IsGraph(G), NEW rank \in Ranking(G), NEW i, NEW k \in Live(G), G[k].to = i
  PROVE  /\ Cardinality(Above(G, rank, i)) \in Nat
         /\ Cardinality(Above(G, rank, G[k].from)) \in Nat
         /\ Cardinality(Above(G, rank, G[k].from)) < Cardinality(Above(G, rank, i))
<1> DEFINE u == G[k].from
           A == Above(G, rank, u)
           B == Above(G, rank, i)
<1>1. IsFiniteSet(Ends(G)) /\ i \in Ends(G) /\ u \in Ends(G) /\ rank[i] < rank[u]
  BY EndsAreIds DEF Live, Ranking
<1>2. \A x \in Ends(G) : rank[x] \in Nat
  BY DEF Ranking
<1>3. A \subseteq B /\ u \in B /\ u \notin A
  BY <1>1, <1>2 DEF Above
<1>4. IsFiniteSet(B)
  BY <1>1, FS_Subset DEF Above
<1>5. IsFiniteSet(A) /\ Cardinality(A) \in Nat /\ Cardinality(B) \in Nat
      /\ Cardinality(A) <= Cardinality(B) /\ (Cardinality(A) = Cardinality(B) => A = B)
  BY <1>3, <1>4, FS_Subset, FS_CardinalityType
<1> QED
  BY <1>3, <1>5

LEMMA RoundsSettle ==
  ASSUME NEW claims, NEW G, NEW rep, Typed(claims, G, rep),
         Cardinality(Ends(G)) <= MaxIterations
  PROVE  Support(claims, G, rep, Live(G), BaseTrust(claims, G, rep), Stabilized(claims, G, rep))
           = Stabilized(claims, G, rep)
<1> DEFINE M == MaxIterations
           D == Believed(claims, G)
           base == BaseTrust(claims, G, rep)
           next(trust) == Support(claims, G, rep, Live(G), base, trust)
<1>1. PICK f \in TrustRounds(claims, G, rep) : Stabilized(claims, G, rep) = f[M].trust
  BY RoundsExist
<1>2. IsGraph(G) /\ M \in Nat
  BY TopologyAssumption DEF Typed
<1>3. PICK rank \in Ranking(G) : TRUE
  BY <1>2, LiveEdgesDescend
<1>4. base \in [D -> Int] /\ \A t \in [D -> Int] : next(t) \in [D -> Int]
  BY BaseTyped, SupportTyped
<1>5. /\ \A n \in 0..M : f[n].trust \in [D -> Int] /\ f[n].changed \in BOOLEAN
      /\ f[0].trust = base /\ f[0].changed = TRUE
      /\ \A n \in 1..M :
           /\ f[n - 1].changed => /\ f[n].trust = next(f[n - 1].trust)
                                  /\ f[n].changed = (f[n].trust # f[n - 1].trust)
           /\ ~f[n - 1].changed => f[n] = f[n - 1]
  <2> HIDE DEF next, base
  <2>1. \A n \in 0..M : f[n] \in [trust : [D -> Int], changed : BOOLEAN]
    BY DEF TrustRounds
  <2>2. f[0] = [trust |-> base, changed |-> TRUE]
    BY DEF TrustRounds, base
  <2>3. \A n \in 1..M :
          f[n] = IF f[n - 1].changed
                 THEN [trust |-> next(f[n - 1].trust),
                       changed |-> next(f[n - 1].trust) # f[n - 1].trust]
                 ELSE f[n - 1]
    BY DEF TrustRounds, base, next
  <2>4. ASSUME NEW n \in 1..M, f[n - 1].changed
        PROVE  /\ f[n].trust = next(f[n - 1].trust)
               /\ f[n].changed = (f[n].trust # f[n - 1].trust)
    <3>1. f[n] = [trust |-> next(f[n - 1].trust),
                  changed |-> next(f[n - 1].trust) # f[n - 1].trust]
      BY <2>3, <2>4
    <3>2. f[n].trust = next(f[n - 1].trust)
      BY <3>1
    <3>3. f[n].changed = (next(f[n - 1].trust) # f[n - 1].trust)
      BY <3>1
    <3> QED
      BY <3>2, <3>3, Zenon
  <2>5. ASSUME NEW n \in 1..M, ~f[n - 1].changed
        PROVE  f[n] = f[n - 1]
    BY <2>3, <2>5
  <2>6. \A n \in 0..M : f[n].trust \in [D -> Int] /\ f[n].changed \in BOOLEAN
    BY <2>1
  <2>7. f[0].trust = base /\ f[0].changed = TRUE
    BY <2>2
  <2> QED
    BY <2>4, <2>5, <2>6, <2>7, Zenon
<1> DEFINE Fixed(n, i) == next(f[n].trust)[i] = f[n].trust[i]
           Done(n) == /\ ~f[n].changed => next(f[n].trust) = f[n].trust
                      /\ \A i \in D : Cardinality(Above(G, rank, i)) <= n => Fixed(n, i)
           P == {n \in 0..M : Done(n)}
<1>6. ASSUME NEW i \in D, NEW t, NEW u,
             \A k \in Live(G) \cap IncomingEdges(G, i) : t[G[k].from] = u[G[k].from]
      PROVE  next(t)[i] = next(u)[i]
  BY <1>4, <1>6, SameSourcesSameSupport
<1>7. ASSUME NEW i \in D, NEW k \in Live(G) \cap IncomingEdges(G, i)
      PROVE  /\ Cardinality(Above(G, rank, i)) \in Nat
             /\ Cardinality(Above(G, rank, G[k].from)) \in Nat
             /\ Cardinality(Above(G, rank, G[k].from)) < Cardinality(Above(G, rank, i))
             /\ G[k].from \in D
  BY <1>2, SourcesAreAbove, EdgesTyped DEF IncomingEdges
<1>8. 0 \in P
  <2>1. ASSUME NEW i \in D, Cardinality(Above(G, rank, i)) <= 0
        PROVE  Fixed(0, i)
    <3>1. Live(G) \cap IncomingEdges(G, i) = {}
      <4> SUFFICES ASSUME NEW k \in Live(G) \cap IncomingEdges(G, i) PROVE FALSE
        OBVIOUS
      <4> QED
        BY <1>7, <2>1
    <3>2. next(f[0].trust)[i] = base[i]
      BY <1>4, <3>1 DEF Support
    <3> QED
      BY <1>5, <3>2
  <2> HIDE DEF Fixed
  <2> QED
    BY <1>2, <1>5, <2>1
<1> HIDE DEF next
<1>9. ASSUME NEW n \in 1..M, n - 1 \in P
      PROVE  n \in P
  <2>1. n \in 0..M /\ n - 1 \in 0..M /\ n - 1 \in Nat /\ n \in Nat
    BY <1>2, StepBefore
  <2>2. Done(n - 1)
    BY <1>9
  <2>3. CASE ~f[n - 1].changed
    <3>1. f[n] = f[n - 1] /\ next(f[n - 1].trust) = f[n - 1].trust
      BY <1>5, <2>2, <2>3
    <3> QED
      BY <2>1, <3>1
  <2>4. CASE f[n - 1].changed
    <3>1. f[n].trust = next(f[n - 1].trust) /\ f[n].changed = (f[n].trust # f[n - 1].trust)
      BY <1>5, <2>4
    <3>2. ~f[n].changed => next(f[n].trust) = f[n].trust
      BY <3>1
    <3>3. ASSUME NEW i \in D, Cardinality(Above(G, rank, i)) <= n
          PROVE  Fixed(n, i)
      <4>1. ASSUME NEW k \in Live(G) \cap IncomingEdges(G, i)
            PROVE  f[n].trust[G[k].from] = f[n - 1].trust[G[k].from]
        <5>1. Cardinality(Above(G, rank, G[k].from)) <= n - 1 /\ G[k].from \in D
          BY <1>7, <2>1, <3>3
        <5> QED
          BY <2>2, <3>1, <5>1
      <4>2. next(f[n].trust)[i] = next(f[n - 1].trust)[i]
        BY <1>6, <4>1
      <4> QED
        BY <3>1, <4>2
    <3> HIDE DEF Fixed
    <3> QED
      BY <2>1, <3>2, <3>3
  <2> QED
    BY <2>3, <2>4
<1> HIDE DEF P
<1>10. M \in P
  <2>1. M \in Nat /\ M \in 0..M
    BY <1>2
  <2> HIDE DEF M, Done, Fixed, D
  <2>2. \A k \in 0..M : k \in P
    BY <2>1, <1>8, <1>9, CountingInduction
  <2> QED
    BY <2>1, <2>2
<1>11. ASSUME NEW i \in D PROVE Fixed(M, i)
  <2>1. IsFiniteSet(Ends(G)) /\ Above(G, rank, i) \subseteq Ends(G)
    BY <1>2, EndsAreIds DEF Above
  <2>2. Cardinality(Above(G, rank, i)) <= M
    BY <1>2, <2>1, FS_Subset, FS_CardinalityType
  <2> QED
    BY <1>10, <2>2 DEF P
<1>12. f[M].trust \in [D -> Int] /\ next(f[M].trust) \in [D -> Int]
  BY <1>2, <1>4, <1>5
<1>13. next(f[M].trust) = f[M].trust
  BY <1>11, <1>12
<1> QED
  BY <1>1, <1>13 DEF next

-----------------------------------------------------------------------------
(* The state of a node stays a local state whatever is folded into it.     *)
Ordered == [claims : Seq(Claims), graph : Seq(Edges), tracker : [Origins -> 0..Scale]]

Locals ==
  {l \in Ordered : \A i, j \in DOMAIN l.claims : l.claims[i] = l.claims[j] => i = j}

LEMMA LargestOf ==
  ASSUME NEW n \in Nat, NEW T \in SUBSET (1..n), T # {}
  PROVE  Max(T) \in T /\ \A k \in T : k <= Max(T)
<1> DEFINE N == {n - k : k \in T}
<1>0. \A k \in T : k \in Nat /\ n - k \in Nat
  <2>1. \A k \in 1..n : k \in Nat /\ n - k \in Nat
    OBVIOUS
  <2> QED
    BY <2>1
<1>1. N \in SUBSET Nat /\ N # {}
  BY <1>0
<1>2. PICK m \in N : \A k \in N : m <= k
  BY <1>1, SmallestOf
<1>3. PICK x \in T : m = n - x
  BY <1>2
<1>4. ASSUME NEW y \in T
      PROVE  x >= y
  <2>1. n - y \in N
    OBVIOUS
  <2>2. n - x <= n - y
    BY <1>2, <1>3, <2>1
  <2> QED
    BY <1>0, <2>2
<1> QED
  BY <1>4 DEF Max

LEMMA LargestPicked ==
  ASSUME NEW n \in Nat
  PROVE  IsFiniteSet(1..n) /\ Picks([T \in SUBSET (1..n) |-> Max(T)], 1..n)
<1> DEFINE last == [T \in SUBSET (1..n) |-> Max(T)]
<1>1. ASSUME NEW T \in SUBSET (1..n), T # {}
      PROVE  last[T] \in T
  BY <1>1, LargestOf, Zenon
<1> HIDE DEF last
<1>2. Picks(last, 1..n)
  BY <1>1 DEF Picks
<1>3. IsFiniteSet(1..n)
  BY FS_Interval
<1> QED
  BY <1>2, <1>3 DEF last

LEMMA DelegatedTyped ==
  ASSUME NEW tracker \in [Origins -> 0..Scale], NEW origin \in Origins
  PROVE  Delegated(tracker, origin) \in [Origins -> 0..Scale]
<1> DEFINE capped == AtMost(Granted, tracker[Anchor])
           left == AtLeast(tracker[Anchor] - capped \div 2, 0)
<1>1. Anchor \in Origins /\ tracker[Anchor] \in 0..Scale /\ Scale \in Nat
  BY ScaleAssumption DEF Origins
<1>2. Granted \in 0..Scale
  BY MeshAssumption
<1>3. capped \in 0..Scale
  BY <1>1, <1>2 DEF AtMost
<1>4. left \in 0..Scale
  BY <1>1, <1>3 DEF AtLeast
<1> HIDE DEF capped, left
<1>5. [tracker EXCEPT ![origin] = capped, ![Anchor] = left] \in [Origins -> 0..Scale]
  BY <1>3, <1>4
<1> QED
  BY <1>5 DEF Delegated, capped, left

LEMMA WithClaimTyped ==
  ASSUME NEW local \in Ordered, NEW c \in Claims
  PROVE  /\ WithClaim(local, c) \in Ordered
         /\ WithClaim(local, c).claims = Append(local.claims, c)
<1>1. c.origin \in Origins
  BY DEF Origins
<1>2. Delegated(local.tracker, c.origin) \in [Origins -> 0..Scale]
  BY <1>1, DelegatedTyped DEF Ordered
<1>3. Append(local.claims, c) \in Seq(Claims)
  BY DEF Ordered
<1> QED
  BY <1>2, <1>3 DEF WithClaim, Ordered

LEMMA NewClaimKept ==
  ASSUME NEW local \in Locals, NEW c \in Claims, ~Holds(local, c)
  PROVE  WithClaim(local, c) \in Locals
<1> DEFINE s == local.claims
           t == WithClaim(local, c).claims
<1>1. s \in Seq(Claims) /\ \A i, j \in DOMAIN s : s[i] = s[j] => i = j
  BY DEF Locals, Ordered
<1>2. WithClaim(local, c) \in Ordered /\ t = Append(s, c)
  BY WithClaimTyped DEF Locals
<1>3. \A i \in DOMAIN s : s[i] # c
  BY DEF Holds
<1> HIDE DEF s
<1>4. DOMAIN t = 1..(Len(s) + 1) /\ DOMAIN s = 1..Len(s) /\ Len(s) \in Nat
  BY <1>1, <1>2
<1>5. t[Len(s) + 1] = c /\ \A i \in DOMAIN s : t[i] = s[i]
  BY <1>1, <1>2
<1>6. ASSUME NEW i \in DOMAIN t, NEW j \in DOMAIN t, t[i] = t[j]
      PROVE  i = j
  BY <1>1, <1>3, <1>4, <1>5, <1>6
<1> HIDE DEF t
<1> QED
  BY <1>2, <1>6 DEF Locals, t

LEMMA NewEdgeKept ==
  ASSUME NEW local \in Locals, NEW e \in Edges
  PROVE  WithEdge(local, e) \in Locals
<1>1. Append(local.graph, e) \in Seq(Edges)
  BY DEF Locals, Ordered
<1> QED
  BY <1>1 DEF WithEdge, Locals, Ordered

LEMMA MissingAdded ==
  ASSUME NEW local \in Locals, NEW claims \in Seq(Claims)
  PROVE  FoldLeft(AddMissing, local, claims) \in Locals
<1> DEFINE D == 1..Len(claims)
           last == [T \in SUBSET D |-> Max(T)]
           F == [i \in D |-> [l \in Locals |-> AddMissing(l, claims[i])]]
           Eq(f) == f = [T \in SUBSET D |-> IF T = {} THEN local
                           ELSE AddMissing(f[T \ {Max(T)}], claims[Max(T)])]
           fold == CHOOSE f : Eq(f)
<1>1. Len(claims) \in Nat /\ DOMAIN claims = D
  OBVIOUS
<1>2. IsFiniteSet(D) /\ Picks(last, D)
  BY <1>1, LargestPicked
<1>3. \A i \in D, l \in Locals : AddMissing(l, claims[i]) \in Locals
  BY <1>1, NewClaimKept DEF AddMissing
<1>4. F \in [D -> [Locals -> Locals]]
  BY <1>3
<1>5. FoldLeft(AddMissing, local, claims) = fold[D]
  BY <1>1 DEF FoldLeft, MapThenFoldSet
<1> HIDE DEF D
<1>6. \E f : Eq(f)
  <2>1. SetFolds(D, last, Locals, local, F) # {}
    <3> HIDE DEF last, F
    <3> QED
      BY <1>2, <1>4, SetFoldExists
  <2>2. PICK f \in [SUBSET D -> Locals] :
          f = [T \in SUBSET D |-> IF T = {} THEN local ELSE F[last[T]][f[T \ {last[T]}]]]
    BY <2>1 DEF SetFolds
  <2>3. ASSUME NEW T \in SUBSET D, T # {}
        PROVE  F[last[T]][f[T \ {last[T]}]] = AddMissing(f[T \ {Max(T)}], claims[Max(T)])
    BY <1>2, <2>2, <2>3 DEF Picks
  <2>4. Eq(f)
    BY <2>2, <2>3, Zenon
  <2> QED
    BY <2>4
<1>7. Eq(fold)
  BY <1>6
<1> HIDE DEF fold
<1>8. D \in {T \in SUBSET D : fold[T] \in Locals}
  <2> DEFINE P == {T \in SUBSET D : fold[T] \in Locals}
  <2>1. {} \in P
    BY <1>7
  <2>2. ASSUME NEW T \in SUBSET D, T # {}, T \ {last[T]} \in P
        PROVE  T \in P
    <3>1. last[T] = Max(T) /\ Max(T) \in D
      BY <1>2, <2>2 DEF Picks
    <3>2. fold[T] = AddMissing(fold[T \ {Max(T)}], claims[Max(T)])
      BY <1>7, <2>2
    <3> QED
      BY <1>3, <2>2, <3>1, <3>2
  <2> HIDE DEF P, last
  <2>3. \A T \in SUBSET D : T \in P
    BY <1>2, <2>1, <2>2, SubsetInduction
  <2> QED
    BY <2>3 DEF P
<1> QED
  BY <1>5, <1>8

LEMMA MissingLinked ==
  ASSUME NEW local \in Locals, NEW edges \in Seq(Edges)
  PROVE  FoldLeft(LinkMissing, local, edges) \in Locals
<1> DEFINE D == 1..Len(edges)
           last == [T \in SUBSET D |-> Max(T)]
           F == [i \in D |-> [l \in Locals |-> LinkMissing(l, edges[i])]]
           Eq(f) == f = [T \in SUBSET D |-> IF T = {} THEN local
                           ELSE LinkMissing(f[T \ {Max(T)}], edges[Max(T)])]
           fold == CHOOSE f : Eq(f)
<1>1. Len(edges) \in Nat /\ DOMAIN edges = D
  OBVIOUS
<1>2. IsFiniteSet(D) /\ Picks(last, D)
  BY <1>1, LargestPicked
<1>3. \A i \in D, l \in Locals : LinkMissing(l, edges[i]) \in Locals
  BY <1>1, NewEdgeKept DEF LinkMissing
<1>4. F \in [D -> [Locals -> Locals]]
  BY <1>3
<1>5. FoldLeft(LinkMissing, local, edges) = fold[D]
  BY <1>1 DEF FoldLeft, MapThenFoldSet
<1> HIDE DEF D
<1>6. \E f : Eq(f)
  <2>1. SetFolds(D, last, Locals, local, F) # {}
    <3> HIDE DEF last, F
    <3> QED
      BY <1>2, <1>4, SetFoldExists
  <2>2. PICK f \in [SUBSET D -> Locals] :
          f = [T \in SUBSET D |-> IF T = {} THEN local ELSE F[last[T]][f[T \ {last[T]}]]]
    BY <2>1 DEF SetFolds
  <2>3. ASSUME NEW T \in SUBSET D, T # {}
        PROVE  F[last[T]][f[T \ {last[T]}]] = LinkMissing(f[T \ {Max(T)}], edges[Max(T)])
    BY <1>2, <2>2, <2>3 DEF Picks
  <2>4. Eq(f)
    BY <2>2, <2>3, Zenon
  <2> QED
    BY <2>4
<1>7. Eq(fold)
  BY <1>6
<1> HIDE DEF fold
<1>8. D \in {T \in SUBSET D : fold[T] \in Locals}
  <2> DEFINE P == {T \in SUBSET D : fold[T] \in Locals}
  <2>1. {} \in P
    BY <1>7
  <2>2. ASSUME NEW T \in SUBSET D, T # {}, T \ {last[T]} \in P
        PROVE  T \in P
    <3>1. last[T] = Max(T) /\ Max(T) \in D
      BY <1>2, <2>2 DEF Picks
    <3>2. fold[T] = LinkMissing(fold[T \ {Max(T)}], edges[Max(T)])
      BY <1>7, <2>2
    <3> QED
      BY <1>3, <2>2, <3>1, <3>2
  <2> HIDE DEF P, last
  <2>3. \A T \in SUBSET D : T \in P
    BY <1>2, <2>1, <2>2, SubsetInduction
  <2> QED
    BY <2>3 DEF P
<1> QED
  BY <1>5, <1>8

LEMMA AbsorbTyped ==
  ASSUME NEW local \in Locals, NEW source \in Locals
  PROVE  Absorb(local, source) \in Locals
<1>1. source.claims \in Seq(Claims) /\ source.graph \in Seq(Edges)
  BY DEF Locals, Ordered
<1>2. FoldLeft(AddMissing, local, source.claims) \in Locals
  BY <1>1, MissingAdded
<1> QED
  BY <1>1, <1>2, MissingLinked DEF Absorb

LEMMA RoundTyped ==
  ASSUME NEW nodes \in [Nodes -> Locals], NEW j \in Nodes, NEW lost
  PROVE  Received(nodes, j, lost) \in Locals
<1> DEFINE D == 1..NumNodes
           turn == [i \in Nodes |-> i]
           Take(l, i) == IF <<turn[i], j>> \in Channels \ lost THEN Absorb(l, nodes[turn[i]]) ELSE l
           last == [T \in SUBSET D |-> Max(T)]
           F == [i \in D |-> [l \in Locals |-> Take(l, i)]]
           Eq(f) == f = [T \in SUBSET D |-> IF T = {} THEN nodes[j]
                           ELSE Take(f[T \ {Max(T)}], Max(T))]
           fold == CHOOSE f : Eq(f)
<1>1. NumNodes \in Nat /\ D = Nodes /\ DOMAIN turn = D
  BY MeshAssumption DEF Nodes
<1>2. IsFiniteSet(D) /\ Picks(last, D)
  BY <1>1, LargestPicked
<1>3. \A i \in D, l \in Locals : Take(l, i) \in Locals
  BY <1>1, AbsorbTyped
<1>4. F \in [D -> [Locals -> Locals]]
  BY <1>3
<1>5. Received(nodes, j, lost) = fold[D]
  BY <1>1 DEF Received, FoldLeft, MapThenFoldSet
<1> HIDE DEF D
<1>6. \E f : Eq(f)
  <2>1. SetFolds(D, last, Locals, nodes[j], F) # {}
    <3> HIDE DEF last, F
    <3> QED
      BY <1>2, <1>4, SetFoldExists
  <2>2. PICK f \in [SUBSET D -> Locals] :
          f = [T \in SUBSET D |-> IF T = {} THEN nodes[j] ELSE F[last[T]][f[T \ {last[T]}]]]
    BY <2>1 DEF SetFolds
  <2>3. ASSUME NEW T \in SUBSET D, T # {}
        PROVE  F[last[T]][f[T \ {last[T]}]] = Take(f[T \ {Max(T)}], Max(T))
    <3>1. last[T] = Max(T) /\ last[T] \in D /\ f[T \ {last[T]}] \in Locals
      BY <1>2, <2>2, <2>3 DEF Picks
    <3> HIDE DEF Take, last
    <3> QED
      BY <3>1
  <2>4. Eq(f)
    BY <2>2, <2>3, Zenon
  <2> QED
    BY <2>4
<1>7. Eq(fold)
  BY <1>6
<1> HIDE DEF fold
<1>8. D \in {T \in SUBSET D : fold[T] \in Locals}
  <2> DEFINE P == {T \in SUBSET D : fold[T] \in Locals}
  <2>1. {} \in P
    BY <1>7
  <2>2. ASSUME NEW T \in SUBSET D, T # {}, T \ {last[T]} \in P
        PROVE  T \in P
    <3>1. last[T] = Max(T) /\ Max(T) \in D
      BY <1>2, <2>2 DEF Picks
    <3>2. fold[T] = Take(fold[T \ {Max(T)}], Max(T))
      BY <1>7, <2>2
    <3> QED
      BY <1>3, <2>2, <3>1, <3>2
  <2> HIDE DEF P, last
  <2>3. \A T \in SUBSET D : T \in P
    BY <1>2, <2>1, <2>2, SubsetInduction
  <2> QED
    BY <2>3 DEF P
<1> QED
  BY <1>5, <1>8

(* At first a node holds the claims of the base in their order.            *)
LEMMA FreshTyped == Fresh \in Ordered /\ Fresh.claims = <<>>
<1>1. [o \in Origins |-> IF o = Anchor THEN Scale ELSE 0] \in [Origins -> 0..Scale]
  BY ScaleAssumption
<1>2. <<>> \in Seq(Claims) /\ <<>> \in Seq(Edges)
  OBVIOUS
<1> QED
  BY <1>1, <1>2 DEF Fresh, Ordered

LEMMA FirstTyped == FoldLeft(WithClaim, Fresh, Base) \in Locals
<1> DEFINE n == Len(Base)
           D == 1..n
           last == [T \in SUBSET D |-> Max(T)]
           F == [i \in D |-> [l \in Ordered |-> WithClaim(l, Base[i])]]
           Eq(f) == f = [T \in SUBSET D |-> IF T = {} THEN Fresh
                           ELSE WithClaim(f[T \ {Max(T)}], Base[Max(T)])]
           fold == CHOOSE f : Eq(f)
<1>1. /\ n \in Nat /\ DOMAIN Base = D /\ Base \in Seq(Claims)
      /\ \A i, j \in DOMAIN Base : Base[i] = Base[j] => i = j
  BY MeshAssumption
<1>2. IsFiniteSet(D) /\ Picks(last, D)
  BY <1>1, LargestPicked
<1>3. \A i \in D, l \in Ordered : WithClaim(l, Base[i]) \in Ordered
  BY <1>1, WithClaimTyped
<1>4. F \in [D -> [Ordered -> Ordered]]
  BY <1>3
<1>5. FoldLeft(WithClaim, Fresh, Base) = fold[D]
  BY <1>1 DEF FoldLeft, MapThenFoldSet
<1>6. \E f : Eq(f)
  <2>1. SetFolds(D, last, Ordered, Fresh, F) # {}
    <3> HIDE DEF last, F, D
    <3> QED
      BY <1>2, <1>4, FreshTyped, SetFoldExists
  <2>2. PICK f \in [SUBSET D -> Ordered] :
          f = [T \in SUBSET D |-> IF T = {} THEN Fresh ELSE F[last[T]][f[T \ {last[T]}]]]
    BY <2>1 DEF SetFolds
  <2> HIDE DEF D
  <2>3. ASSUME NEW T \in SUBSET D, T # {}
        PROVE  F[last[T]][f[T \ {last[T]}]] = WithClaim(f[T \ {Max(T)}], Base[Max(T)])
    BY <1>2, <2>2, <2>3 DEF Picks
  <2>4. Eq(f)
    BY <2>2, <2>3, Zenon
  <2> QED
    BY <2>4
<1>7. Eq(fold)
  BY <1>6
<1> HIDE DEF fold
<1> DEFINE Prefix(l, k) == /\ l \in Ordered /\ Len(l.claims) = k
                           /\ \A i \in 1..k : l.claims[i] = Base[i]
           P == {k \in 0..n : Prefix(fold[1..k], k)}
<1>8. 0 \in P
  <2>1. fold[{}] = Fresh /\ 1..0 = {}
    BY <1>7
  <2>2. Prefix(Fresh, 0)
    BY FreshTyped
  <2> HIDE DEF Prefix
  <2> QED
    BY <1>1, <2>1, <2>2
<1>9. ASSUME NEW k \in 1..n, k - 1 \in P
      PROVE  k \in P
  <2> DEFINE l == fold[1..(k - 1)]
  <2>1. 1..k \in SUBSET D /\ 1..k # {} /\ (1..k) \ {k} = 1..(k - 1) /\ k \in D
    BY <1>1
  <2>2. Max(1..k) = k
    <3>1. Max(1..k) \in 1..k /\ \A m \in 1..k : m <= Max(1..k)
      BY <1>1, <2>1, LargestOf
    <3> QED
      BY <3>1
  <2>3. fold[1..k] = WithClaim(l, Base[k])
    BY <1>7, <2>1, <2>2
  <2>4. Prefix(l, k - 1)
    BY <1>9
  <2> HIDE DEF l
  <2>5. /\ WithClaim(l, Base[k]) \in Ordered
        /\ WithClaim(l, Base[k]).claims = Append(l.claims, Base[k])
    BY <1>1, <2>1, <2>4, WithClaimTyped
  <2>6. l.claims \in Seq(Claims)
    BY <2>4 DEF Ordered
  <2>7. Prefix(WithClaim(l, Base[k]), k)
    <3>1. Base[k] \in Claims
      BY <1>1, <2>1
    <3>2. Len(Append(l.claims, Base[k])) = k
      BY <2>4, <2>6, <3>1
    <3>3. \A i \in 1..k : Append(l.claims, Base[k])[i] = Base[i]
      BY <2>4, <2>6, <3>1
    <3> QED
      BY <2>5, <3>2, <3>3
  <2> HIDE DEF Prefix
  <2> QED
    BY <2>3, <2>7
<1>10. n \in P
  <2> HIDE DEF P, n
  <2> QED
    BY <1>1, <1>8, <1>9, CountingInduction
<1>11. fold[D] \in Ordered /\ \A i \in DOMAIN fold[D].claims : i \in D /\ fold[D].claims[i] = Base[i]
  <2>1. Prefix(fold[D], n)
    BY <1>10
  <2>2. DOMAIN fold[D].claims = D
    BY <2>1 DEF Ordered
  <2> QED
    BY <2>1, <2>2
<1> QED
  BY <1>1, <1>5, <1>11 DEF Locals

-----------------------------------------------------------------------------
(* Every node is in a local state, always.                                 *)
NodesTyped == node \in [Nodes -> Locals]

LEMMA InitTyped == Init => NodesTyped
BY FirstTyped DEF Init, NodesTyped

LEMMA StepTyped == NodesTyped /\ [Next]_node => NodesTyped'
<1>1. SUFFICES ASSUME NodesTyped, [Next]_node PROVE NodesTyped'
  OBVIOUS
<1>2. CASE UNCHANGED node
  BY <1>1, <1>2 DEF NodesTyped
<1>3. ASSUME NEW n \in Nodes, NEW c \in Claims, AddClaim(n, c)
      PROVE  NodesTyped'
  <2>1. WithClaim(node[n], c) \in Locals
    BY <1>1, <1>3, NewClaimKept DEF NodesTyped, AddClaim
  <2> QED
    BY <1>1, <1>3, <2>1 DEF NodesTyped, AddClaim
<1>4. ASSUME NEW n \in Writers, NEW e \in Edges, AddEdge(n, e)
      PROVE  NodesTyped'
  <2>1. n \in Nodes
    BY MeshAssumption DEF Nodes
  <2>2. WithEdge(node[n], e) \in Locals
    BY <1>1, <2>1, NewEdgeKept DEF NodesTyped
  <2> QED
    BY <1>1, <1>4, <2>1, <2>2 DEF NodesTyped, AddEdge
<1>5. ASSUME NEW lost \in SUBSET Channels, SyncRound(lost)
      PROVE  NodesTyped'
  <2>1. \A j \in Nodes : Received(node, j, lost) \in Locals
    BY <1>1, RoundTyped DEF NodesTyped
  <2> QED
    BY <1>5, <2>1 DEF NodesTyped, SyncRound
<1> QED
  BY <1>1, <1>2, <1>3, <1>4, <1>5 DEF Next

LEMMA AlwaysTyped == Spec => []NodesTyped
BY InitTyped, StepTyped, PTL DEF Spec

LEMMA NodeTyped ==
  ASSUME NodesTyped, NEW n \in Nodes
  PROVE  /\ node[n] \in Locals
         /\ Typed(node[n].claims, node[n].graph, Voices(n))
         /\ DOMAIN node[n].claims \subseteq Believed(node[n].claims, node[n].graph)
<1>1. /\ node[n] \in Locals /\ node[n].claims \in Seq(Claims)
      /\ node[n].graph \in Seq(Edges) /\ Voices(n) \in [Origins -> 0..Scale]
  BY DEF NodesTyped, Locals, Ordered, Voices
<1>2. IsGraph(node[n].graph)
  BY <1>1, MeshAssumption DEF IsGraph
<1> QED
  BY <1>1, <1>2 DEF Typed, Believed

(* L3Node::add_claim and l3_sync: a node's list holds every claim once,    *)
(* however often and from whomever it is received, and delegation keeps    *)
(* every reputation within the scale.                                      *)
THEOREM MeshTypeCorrect == Spec => []TypeOK
<1>1. NodesTyped => TypeOK
  BY NodeTyped DEF TypeOK, Locals, Ordered
<1> QED
  BY <1>1, AlwaysTyped, PTL

(* propagate_trust_correlated, pass 1: whatever the graph, cyclic or not,  *)
(* and however many edges leave a claim, what it hands on along all of     *)
(* them together is at most the trust it has itself.                       *)
THEOREM TrustIsNotMultiplied == Spec => []TrustIsShared
<1>1. ASSUME NodesTyped, NEW n \in Nodes, NEW i \in DOMAIN node[n].claims
      PROVE  GivenAway(node[n].claims, node[n].graph, Voices(n),
                       Stabilized(node[n].claims, node[n].graph, Voices(n)), i)
               <= Voiced(Stabilized(node[n].claims, node[n].graph, Voices(n))[i])
  <2>1. Typed(node[n].claims, node[n].graph, Voices(n)) /\ i \in Believed(node[n].claims, node[n].graph)
    BY <1>1, NodeTyped
  <2> QED
    BY <2>1, StabilizedTyped, GivesWithinMeans
<1>2. NodesTyped => TrustIsShared
  BY <1>1 DEF TrustIsShared
<1> QED
  BY <1>2, AlwaysTyped, PTL

(* propagate_trust_correlated, pass 2: contradictions, whatever their      *)
(* number, strength and authors, take from a trusted claim at most the     *)
(* damped part of its trust, and never turn it into a rejected one.        *)
THEOREM ContradictionsAreDamped == Spec => []ContradictionSafety
<1>1. ASSUME NodesTyped, NEW n \in Nodes, NEW i \in DOMAIN node[n].claims,
             Stabilized(node[n].claims, node[n].graph, Voices(n))[i] > 0
      PROVE  /\ Scale * PropagateTrust(node[n].claims, node[n].graph, Voices(n))[i]
                  >= (Scale - DampingBps) * Stabilized(node[n].claims, node[n].graph, Voices(n))[i]
             /\ Verdict(PropagateTrust(node[n].claims, node[n].graph, Voices(n))[i]) # "rejected"
  <2>1. Typed(node[n].claims, node[n].graph, Voices(n)) /\ i \in Believed(node[n].claims, node[n].graph)
    BY <1>1, NodeTyped
  <2> QED
    BY <1>1, <2>1, ProtectedPart
<1>2. NodesTyped => ContradictionSafety
  BY <1>1 DEF ContradictionSafety
<1> QED
  BY <1>2, AlwaysTyped, PTL

(* dfs_mark_cyclic and the rounds of propagate_trust_correlated: on every  *)
(* graph the edges that are left form no cycle, so that no claim supports  *)
(* itself, and with as many rounds as there are nodes in the graph another *)
(* round would change nothing.                                             *)
THEOREM SupportAlwaysSettles == Spec => []SupportSettles
<1>1. ASSUME NodesTyped, NEW n \in Nodes
      PROVE  /\ NothingComesBack(node[n].graph)
             /\ Cardinality(Ends(node[n].graph)) <= MaxIterations =>
                  Support(node[n].claims, node[n].graph, Voices(n), Live(node[n].graph),
                          BaseTrust(node[n].claims, node[n].graph, Voices(n)),
                          Stabilized(node[n].claims, node[n].graph, Voices(n)))
                    = Stabilized(node[n].claims, node[n].graph, Voices(n))
  <2>1. Typed(node[n].claims, node[n].graph, Voices(n)) /\ IsGraph(node[n].graph)
    BY <1>1, NodeTyped DEF Typed
  <2> QED
    BY <2>1, RoundsSettle, DependentsBelow DEF NothingComesBack
<1>2. NodesTyped => SupportSettles
  BY <1>1 DEF SupportSettles
<1> QED
  BY <1>2, AlwaysTyped, PTL

-----------------------------------------------------------------------------
(* The order of hashes is a strict total order.                            *)
DiffersAt(a, b, k) ==
  /\ k \in 1..Len(b) /\ k <= Len(a) + 1
  /\ \A j \in 1..(k - 1) : a[j] = b[j]
  /\ k # Len(a) + 1 => a[k] < b[k]

LEMMA BelowDiffers ==
  ASSUME NEW a \in Seq(Nat), NEW b \in Seq(Nat)
  PROVE  Below(a, b) <=> \E k \in Nat : DiffersAt(a, b, k)
<1>1. ASSUME NEW k \in 1..Len(b), k <= Len(a) + 1
      PROVE  SubSeq(a, 1, k - 1) = SubSeq(b, 1, k - 1) <=> \A j \in 1..(k - 1) : a[j] = b[j]
  <2>1. /\ k - 1 \in Nat /\ k - 1 <= Len(a) /\ k - 1 <= Len(b)
        /\ Len(a) \in Nat /\ Len(b) \in Nat
    BY <1>1
  <2>2. /\ SubSeq(a, 1, k - 1) = [j \in 1..(k - 1) |-> a[j]]
        /\ SubSeq(b, 1, k - 1) = [j \in 1..(k - 1) |-> b[j]]
    BY <2>1
  <2> QED
    BY <2>2
<1>2. DOMAIN b = 1..Len(b) /\ \A k \in 1..Len(b) : k \in Nat
  OBVIOUS
<1> QED
  BY <1>1, <1>2 DEF Below, DiffersAt

LEMMA BelowIrreflexive ==
  ASSUME NEW a \in Seq(Nat)
  PROVE  ~Below(a, a)
<1>1. ASSUME NEW k \in Nat, DiffersAt(a, a, k)
      PROVE  FALSE
  <2>1. k \in 1..Len(a) /\ Len(a) \in Nat /\ a[k] < a[k]
    BY <1>1 DEF DiffersAt
  <2>2. a[k] \in Nat
    BY <2>1
  <2> QED
    BY <2>1, <2>2
<1> QED
  BY <1>1, BelowDiffers

LEMMA BelowTransitive ==
  ASSUME NEW a \in Seq(Nat), NEW b \in Seq(Nat), NEW c \in Seq(Nat), Below(a, b), Below(b, c)
  PROVE  Below(a, c)
<1>1. PICK k \in Nat : DiffersAt(a, b, k)
  BY BelowDiffers
<1>2. PICK m \in Nat : DiffersAt(b, c, m)
  BY BelowDiffers
<1>3. /\ Len(a) \in Nat /\ Len(b) \in Nat /\ Len(c) \in Nat
      /\ \A j \in 1..Len(a) : a[j] \in Nat
      /\ \A j \in 1..Len(b) : b[j] \in Nat
      /\ \A j \in 1..Len(c) : c[j] \in Nat
  OBVIOUS
<1>4. CASE k < m
  <2>1. k \in 1..Len(c) /\ k <= Len(a) + 1
    BY <1>1, <1>2, <1>3, <1>4 DEF DiffersAt
  <2>2. \A j \in 1..(k - 1) : a[j] = c[j]
    BY <1>1, <1>2, <1>3, <1>4 DEF DiffersAt
  <2>3. c[k] = b[k]
    BY <1>1, <1>2, <1>3, <1>4 DEF DiffersAt
  <2>4. DiffersAt(a, c, k)
    BY <1>1, <2>1, <2>2, <2>3 DEF DiffersAt
  <2> QED
    BY <2>4, BelowDiffers
<1>5. CASE k = m
  <2>1. \A j \in 1..(k - 1) : a[j] = c[j]
    BY <1>1, <1>2, <1>5 DEF DiffersAt
  <2>2. b[k] < c[k] /\ b[k] \in Nat /\ k \in 1..Len(c)
    BY <1>1, <1>2, <1>3, <1>5 DEF DiffersAt
  <2>3. k # Len(a) + 1 => a[k] < b[k] /\ a[k] \in Nat
    <3>1. k # Len(a) + 1 => k \in 1..Len(a) /\ a[k] < b[k]
      BY <1>1, <1>3 DEF DiffersAt
    <3> QED
      BY <1>3, <3>1
  <2>4. c[k] \in Nat
    BY <1>3, <2>2
  <2>5. k # Len(a) + 1 => a[k] < c[k]
    BY <2>2, <2>3, <2>4
  <2>6. DiffersAt(a, c, k)
    BY <1>1, <2>1, <2>2, <2>5 DEF DiffersAt
  <2> QED
    BY <2>6, BelowDiffers
<1>6. CASE m < k
  <2>1. m \in 1..Len(a) /\ m \in 1..Len(b) /\ m \in 1..Len(c)
    <3>1. /\ k \in 1..Len(b) /\ k <= Len(a) + 1 /\ m \in 1..Len(c)
          /\ Len(a) \in Nat /\ Len(b) \in Nat
      BY <1>1, <1>2, <1>3 DEF DiffersAt
    <3> QED
      BY <1>6, <3>1
  <2>2. \A j \in 1..(m - 1) : a[j] = c[j]
    BY <1>1, <1>2, <1>3, <1>6 DEF DiffersAt
  <2>3. a[m] = b[m] /\ b[m] < c[m]
    BY <1>1, <1>2, <1>3, <1>6, <2>1 DEF DiffersAt
  <2>4. DiffersAt(a, c, m)
    BY <1>3, <2>1, <2>2, <2>3 DEF DiffersAt
  <2> QED
    BY <2>4, BelowDiffers
<1> QED
  BY <1>4, <1>5, <1>6

LEMMA BelowTotal ==
  ASSUME NEW a \in Seq(Nat), NEW b \in Seq(Nat), a # b
  PROVE  Below(a, b) \/ Below(b, a)
<1> DEFINE N == {j \in Nat : j \in 1..Len(a) /\ j \in 1..Len(b) /\ a[j] # b[j]}
<1>1. /\ Len(a) \in Nat /\ Len(b) \in Nat
      /\ \A j \in 1..Len(a) : a[j] \in Nat
      /\ \A j \in 1..Len(b) : b[j] \in Nat
      /\ a = [j \in 1..Len(a) |-> a[j]] /\ b = [j \in 1..Len(b) |-> b[j]]
  OBVIOUS
<1>2. CASE N # {}
  <2>1. PICK m \in N : \A j \in N : m <= j
    BY <1>2, SmallestOf
  <2>2. \A j \in 1..(m - 1) : a[j] = b[j]
    <3>1. ASSUME NEW j \in 1..(m - 1), a[j] # b[j] PROVE FALSE
      <4>1. j \in N /\ ~(m <= j)
        BY <1>1, <2>1, <3>1
      <4> QED
        BY <2>1, <4>1
    <3> QED
      BY <3>1
  <2>3. a[m] < b[m] \/ b[m] < a[m]
    BY <1>1, <2>1
  <2>4. DiffersAt(a, b, m) \/ DiffersAt(b, a, m)
    BY <1>1, <2>1, <2>2, <2>3 DEF DiffersAt
  <2> QED
    BY <2>1, <2>4, BelowDiffers
<1>3. ASSUME N = {}
      PROVE  \A j \in Nat : j \in 1..Len(a) /\ j \in 1..Len(b) => a[j] = b[j]
  BY <1>3
<1> HIDE DEF N
<1>4. CASE N = {} /\ Len(a) < Len(b)
  <2>1. DiffersAt(a, b, Len(a) + 1)
    BY <1>1, <1>3, <1>4 DEF DiffersAt
  <2> QED
    BY <1>1, <2>1, BelowDiffers
<1>5. CASE N = {} /\ Len(b) < Len(a)
  <2>1. DiffersAt(b, a, Len(b) + 1)
    BY <1>1, <1>3, <1>5 DEF DiffersAt
  <2> QED
    BY <1>1, <2>1, BelowDiffers
<1>6. CASE N = {} /\ Len(a) = Len(b)
  <2>1. \A j \in 1..Len(a) : a[j] = b[j]
    BY <1>1, <1>3, <1>6
  <2> QED
    BY <1>1, <1>6, <2>1
<1>7. Len(a) < Len(b) \/ Len(b) < Len(a) \/ Len(a) = Len(b)
  <2>1. \A x, y \in Nat : x < y \/ y < x \/ x = y
    OBVIOUS
  <2> QED
    BY <1>1, <2>1, Zenon
<1> QED
  BY <1>2, <1>4, <1>5, <1>6, <1>7

-----------------------------------------------------------------------------
(* Lists in order.  When ahead is a strict total order of the positions    *)
(* that stay, the numbers of those that go before are 0, 1, 2 and so on,   *)
(* and every entry has its place.                                          *)
IsOrder(ahead) ==
  /\ ahead \in [DOMAIN ahead -> SUBSET (DOMAIN ahead)]
  /\ \A i \in DOMAIN ahead : i \notin ahead[i]
  /\ \A i, j \in DOMAIN ahead : i \in ahead[j] => ahead[i] \subseteq ahead[j]
  /\ \A i, j \in DOMAIN ahead : i # j => i \in ahead[j] \/ j \in ahead[i]

Place(ahead, i) == Cardinality(ahead[i]) + 1

LEMMA PlacesAscend ==
  ASSUME NEW ahead, IsOrder(ahead), IsFiniteSet(DOMAIN ahead),
         NEW i \in DOMAIN ahead, NEW j \in DOMAIN ahead, i \in ahead[j]
  PROVE  Place(ahead, i) < Place(ahead, j)
<1>1. ahead[i] \subseteq ahead[j] /\ i \notin ahead[i] /\ ahead[j] \subseteq DOMAIN ahead
  BY DEF IsOrder
<1>2. IsFiniteSet(ahead[j]) /\ IsFiniteSet(ahead[i])
  BY <1>1, FS_Subset
<1>3. /\ Cardinality(ahead[i]) <= Cardinality(ahead[j])
      /\ Cardinality(ahead[j]) = Cardinality(ahead[i]) => ahead[i] = ahead[j]
      /\ Cardinality(ahead[i]) \in Nat /\ Cardinality(ahead[j]) \in Nat
  BY <1>1, <1>2, FS_Subset, FS_CardinalityType
<1> QED
  BY <1>1, <1>3 DEF Place

LEMMA PlacesAreTaken ==
  ASSUME NEW ahead, IsOrder(ahead), IsFiniteSet(DOMAIN ahead)
  PROVE  LET n == Cardinality(DOMAIN ahead) IN
         /\ n \in Nat
         /\ \A i \in DOMAIN ahead : Place(ahead, i) \in 1..n
         /\ \A i, j \in DOMAIN ahead : Place(ahead, i) = Place(ahead, j) => i = j
         /\ \A k \in 1..n : \E i \in DOMAIN ahead : Place(ahead, i) = k
<1> DEFINE I == DOMAIN ahead
           n == Cardinality(I)
           place == [i \in I |-> Place(ahead, i)]
<1>1. n \in Nat
  BY FS_CardinalityType
<1>2. ASSUME NEW i \in I
      PROVE  Place(ahead, i) \in 1..n
  <2>1. ahead[i] \in SUBSET I /\ ahead[i] # I
    BY DEF IsOrder
  <2>2. /\ Cardinality(ahead[i]) \in Nat /\ Cardinality(ahead[i]) <= n
        /\ Cardinality(ahead[i]) # n
    BY <2>1, FS_Subset, FS_CardinalityType
  <2> QED
    BY <1>1, <2>2 DEF Place
<1>3. ASSUME NEW i \in I, NEW j \in I, Place(ahead, i) = Place(ahead, j)
      PROVE  i = j
  <2>1. /\ i \in ahead[j] => Place(ahead, i) < Place(ahead, j)
        /\ j \in ahead[i] => Place(ahead, j) < Place(ahead, i)
    BY PlacesAscend
  <2>2. Place(ahead, i) \in 1..n
    BY <1>2
  <2>3. ~(Place(ahead, i) < Place(ahead, i))
    BY <2>2
  <2> QED
    BY <1>3, <2>1, <2>3 DEF IsOrder
<1>4. place \in Injection(I, 1..n)
  <2>1. place \in [I -> 1..n]
    BY <1>2
  <2>2. \A i, j \in I : place[i] = place[j] => i = j
    BY <1>3
  <2> HIDE DEF place, n, I
  <2> QED
    BY <2>1, <2>2 DEF Injection, IsInjective
<1>5. IsFiniteSet(1..n) /\ Cardinality(1..n) = n
  BY <1>1, FS_Interval
<1>6. place \in Surjection(I, 1..n)
  <2> HIDE DEF place
  <2> QED
    BY <1>4, <1>5, FS_Injection
<1>7. ASSUME NEW k \in 1..n
      PROVE  \E i \in I : Place(ahead, i) = k
  BY <1>6 DEF Surjection
<1> QED
  BY <1>1, <1>2, <1>3, <1>7

LEMMA ArrangedInPlace ==
  ASSUME NEW D, NEW list \in Seq(D), NEW ahead, IsOrder(ahead),
         DOMAIN ahead \subseteq DOMAIN list
  PROVE  /\ IsFiniteSet(DOMAIN ahead)
         /\ Arranged(list, ahead) \in Seq(D)
         /\ Len(Arranged(list, ahead)) = Cardinality(DOMAIN ahead)
         /\ \A i \in DOMAIN ahead : Arranged(list, ahead)[Place(ahead, i)] = list[i]
<1> DEFINE I == DOMAIN ahead
           n == Cardinality(I)
           at(k) == CHOOSE i \in I : Cardinality(ahead[i]) = k - 1
           r == [k \in 1..n |-> list[at(k)]]
<1>1. IsFiniteSet(I)
  <2>1. DOMAIN list = 1..Len(list) /\ Len(list) \in Nat
    OBVIOUS
  <2>2. IsFiniteSet(DOMAIN list)
    BY <2>1, FS_Interval
  <2> HIDE DEF I
  <2> QED
    BY <2>2, FS_Subset DEF I
<1>2. /\ n \in Nat
      /\ \A i \in I : Place(ahead, i) \in 1..n
      /\ \A i, j \in I : Place(ahead, i) = Place(ahead, j) => i = j
      /\ \A k \in 1..n : \E i \in I : Place(ahead, i) = k
  BY <1>1, PlacesAreTaken
<1> HIDE DEF n
<1>3. \A i \in I : Cardinality(ahead[i]) \in Nat
  BY <1>1, FS_Subset, FS_CardinalityType DEF IsOrder
<1>4. ASSUME NEW k \in 1..n
      PROVE  at(k) \in I /\ Place(ahead, at(k)) = k
  <2>1. PICK i \in I : Place(ahead, i) = k
    BY <1>2
  <2>2. Cardinality(ahead[i]) = k - 1
    BY <1>3, <2>1 DEF Place
  <2>3. at(k) \in I /\ Cardinality(ahead[at(k)]) = k - 1
    BY <2>2
  <2> HIDE DEF at
  <2>4. k \in Int
    OBVIOUS
  <2> QED
    BY <1>3, <2>3, <2>4 DEF Place
<1>5. \A k \in 1..n : list[at(k)] \in D
  <2>1. \A i \in I : list[i] \in D
    OBVIOUS
  <2> HIDE DEF at
  <2> QED
    BY <1>4, <2>1
<1> HIDE DEF at
<1>6. r \in Seq(D) /\ Len(r) = n
  BY <1>2, <1>5
<1>7. r \o <<>> = r
  <2> HIDE DEF r
  <2> QED
    BY <1>6
<1>8. Arranged(list, ahead) = r
  BY <1>7 DEF Arranged, r, at, n
<1>9. ASSUME NEW i \in I
      PROVE  r[Place(ahead, i)] = list[i]
  <2>1. Place(ahead, i) \in 1..n /\ at(Place(ahead, i)) = i
    BY <1>2, <1>4
  <2> QED
    BY <2>1
<1> QED
  BY <1>1, <1>6, <1>8, <1>9 DEF n

Contents(list) == {list[i] : i \in DOMAIN list}

NoRepeats(list) == \A i, j \in DOMAIN list : list[i] = list[j] => i = j

LEMMA ArrangedHolds ==
  ASSUME NEW D, NEW list \in Seq(D), NEW ahead, IsOrder(ahead),
         DOMAIN ahead \subseteq DOMAIN list
  PROVE  /\ \A k \in DOMAIN Arranged(list, ahead) :
              \E i \in DOMAIN ahead : /\ Place(ahead, i) = k
                                     /\ Arranged(list, ahead)[k] = list[i]
         /\ Contents(Arranged(list, ahead)) = {list[i] : i \in DOMAIN ahead}
         /\ NoRepeats(list) => NoRepeats(Arranged(list, ahead))
<1> DEFINE I == DOMAIN ahead
           r == Arranged(list, ahead)
<1>1. /\ IsFiniteSet(I) /\ r \in Seq(D) /\ Len(r) = Cardinality(I)
      /\ \A i \in I : r[Place(ahead, i)] = list[i]
  BY ArrangedInPlace
<1>2. /\ \A i \in I : Place(ahead, i) \in 1..Len(r)
      /\ \A k \in 1..Len(r) : \E i \in I : Place(ahead, i) = k
  BY <1>1, PlacesAreTaken
<1> HIDE DEF r
<1>3. DOMAIN r = 1..Len(r)
  BY <1>1
<1>4. \A k \in DOMAIN r : \E i \in I : Place(ahead, i) = k /\ r[k] = list[i]
  BY <1>1, <1>2, <1>3
<1>5. Contents(r) = {list[i] : i \in I}
  <2>1. ASSUME NEW k \in DOMAIN r PROVE r[k] \in {list[i] : i \in I}
    BY <1>4
  <2>2. ASSUME NEW i \in I PROVE list[i] \in {r[k] : k \in DOMAIN r}
    BY <1>1, <1>2, <1>3
  <2> QED
    BY <2>1, <2>2 DEF Contents
<1>6. ASSUME NoRepeats(list),
             NEW k \in DOMAIN r, NEW l \in DOMAIN r, r[k] = r[l]
      PROVE  k = l
  <2>1. PICK i \in I : Place(ahead, i) = k /\ r[k] = list[i]
    BY <1>4
  <2>2. PICK j \in I : Place(ahead, j) = l /\ r[l] = list[j]
    BY <1>4
  <2> QED
    BY <1>6, <2>1, <2>2 DEF NoRepeats
<1>7. NoRepeats(list) => NoRepeats(r)
  BY <1>6 DEF NoRepeats
<1> QED
  BY <1>4, <1>5, <1>7 DEF r

(* What is kept as it came.                                                *)
LEMMA KeptHolds ==
  ASSUME NEW D, NEW list \in Seq(D), NEW I \in SUBSET (DOMAIN list)
  PROVE  /\ IsFiniteSet(I)
         /\ Kept(list, I) \in Seq(D) /\ Len(Kept(list, I)) = Cardinality(I)
         /\ Contents(Kept(list, I)) = {list[i] : i \in I}
         /\ NoRepeats(list) => NoRepeats(Kept(list, I))
<1> DEFINE ahead == [i \in I |-> {j \in I : j < i}]
<1>1. \A i \in I : i \in Nat
  BY DEF IsOrder
<1>2. DOMAIN ahead = I /\ IsOrder(ahead)
  BY <1>1 DEF IsOrder
<1>3. Kept(list, I) = Arranged(list, ahead)
  BY DEF Kept
<1> HIDE DEF ahead
<1>4. /\ IsFiniteSet(I) /\ Arranged(list, ahead) \in Seq(D)
      /\ Len(Arranged(list, ahead)) = Cardinality(I)
  BY <1>2, ArrangedInPlace
<1>5. /\ Contents(Arranged(list, ahead)) = {list[i] : i \in I}
      /\ NoRepeats(list) => NoRepeats(Arranged(list, ahead))
  BY <1>2, ArrangedHolds
<1> QED
  BY <1>3, <1>4, <1>5

LEMMA AllKept ==
  ASSUME NEW D, NEW list \in Seq(D)
  PROVE  Kept(list, DOMAIN list) = list
<1> DEFINE I == DOMAIN list
           ahead == [i \in I |-> {j \in I : j < i}]
<1>1. I = 1..Len(list) /\ Len(list) \in Nat
  OBVIOUS
<1>2. DOMAIN ahead = I /\ IsOrder(ahead)
  BY <1>1 DEF IsOrder
<1>3. Kept(list, I) = Arranged(list, ahead)
  BY DEF Kept
<1>4. ASSUME NEW i \in I
      PROVE  Place(ahead, i) = i
  <2>1. ahead[i] = 1..(i - 1) /\ i - 1 \in Nat
    BY <1>1
  <2> HIDE DEF ahead
  <2>2. Cardinality(1..(i - 1)) = i - 1
    BY <2>1, FS_Interval
  <2>3. Cardinality(ahead[i]) = i - 1
    BY <2>1, <2>2
  <2>4. i \in Nat
    BY <1>1
  <2> QED
    BY <2>3, <2>4 DEF Place
<1>5. Cardinality(I) = Len(list)
  BY <1>1, FS_Interval
<1> HIDE DEF ahead
<1> DEFINE r == Arranged(list, ahead)
<1>6. /\ r \in Seq(D) /\ Len(r) = Len(list)
      /\ \A i \in I : r[i] = list[i]
  BY <1>2, <1>4, <1>5, ArrangedInPlace
<1> HIDE DEF r
<1>7. r = list
  BY <1>1, <1>6
<1> QED
  BY <1>3, <1>7 DEF r

-----------------------------------------------------------------------------
(* Lists of claims, none of them twice, that hold the same: a permutation  *)
(* takes one to the other.                                                 *)
Listings == {c \in Seq(Claims) : NoRepeats(c)}

Permuted(pi, c, d) ==
  /\ pi \in [DOMAIN c -> DOMAIN d]
  /\ \A i \in DOMAIN c : d[pi[i]] = c[i]
  /\ \A i, j \in DOMAIN c : pi[i] = pi[j] => i = j
  /\ \A j \in DOMAIN d : \E i \in DOMAIN c : pi[i] = j

LEMMA PermutationExists ==
  ASSUME NEW c \in Listings, NEW d \in Listings, Contents(c) = Contents(d)
  PROVE  \E pi : Permuted(pi, c, d)
<1> DEFINE at(i) == CHOOSE j \in DOMAIN d : d[j] = c[i]
           pi == [i \in DOMAIN c |-> at(i)]
<1>1. ASSUME NEW i \in DOMAIN c
      PROVE  at(i) \in DOMAIN d /\ d[at(i)] = c[i]
  <2>1. \E j \in DOMAIN d : d[j] = c[i]
    BY DEF Contents
  <2> QED
    BY <2>1
<1> HIDE DEF at
<1>2. ASSUME NEW i \in DOMAIN c, NEW j \in DOMAIN c, pi[i] = pi[j]
      PROVE  i = j
  BY <1>1, <1>2 DEF Listings, NoRepeats
<1>3. ASSUME NEW j \in DOMAIN d
      PROVE  \E i \in DOMAIN c : pi[i] = j
  <2>1. PICK i \in DOMAIN c : c[i] = d[j]
    BY DEF Contents
  <2> QED
    BY <1>1, <2>1 DEF Listings, NoRepeats
<1>4. pi \in [DOMAIN c -> DOMAIN d] /\ \A i \in DOMAIN c : d[pi[i]] = c[i]
  BY <1>1
<1> QED
  BY <1>2, <1>3, <1>4 DEF Permuted

LEMMA ImageSize ==
  ASSUME NEW S, IsFiniteSet(S), NEW f, \A x, y \in S : f[x] = f[y] => x = y
  PROVE  Cardinality({f[x] : x \in S}) = Cardinality(S)
<1> DEFINE T == {f[x] : x \in S}
           g == [x \in S |-> f[x]]
<1>1. g \in [S -> T] /\ \A x, y \in S : g[x] = g[y] => x = y
  OBVIOUS
<1>2. \A t \in T : \E x \in S : g[x] = t
  OBVIOUS
<1> HIDE DEF g, T
<1>3. g \in Injection(S, T)
  BY <1>1 DEF Injection, IsInjective
<1>4. g \in Surjection(S, T)
  BY <1>1, <1>2 DEF Surjection
<1> QED
  BY <1>3, <1>4, FS_Surjection DEF T

(* Hashes identify claims, so that Precedes is the order of hashes.        *)
LEMMA ClaimsHaveHashes ==
  ASSUME NEW c \in Listings
  PROVE  /\ \A i \in DOMAIN c : c[i] \in Claims /\ c[i].id \in Seq(Nat)
         /\ \A i, j \in DOMAIN c : c[i].id = c[j].id => i = j
         /\ \A i, j \in DOMAIN c : Precedes(c, i, j) <=> Below(c[i].id, c[j].id)
<1>1. /\ \A i \in DOMAIN c : c[i] \in Claims
      /\ \A i, j \in DOMAIN c : c[i] = c[j] => i = j
      /\ \A i \in DOMAIN c : i \in Nat
  BY DEF Listings, NoRepeats
<1>2. /\ \A i \in DOMAIN c : c[i].id \in Seq(Nat)
      /\ \A i, j \in DOMAIN c : c[i].id = c[j].id => i = j
  BY <1>1, MeshAssumption
<1>3. \A i, j \in DOMAIN c : ~(c[i].id = c[j].id /\ i < j)
  BY <1>1, <1>2
<1> QED
  BY <1>1, <1>2, <1>3, Zenon DEF Precedes

LEMMA HashesAreOrder ==
  ASSUME NEW c \in Listings, NEW I \in SUBSET (DOMAIN c)
  PROVE  IsOrder([i \in I |-> {j \in I : Precedes(c, j, i)}])
<1> DEFINE ahead == [i \in I |-> {j \in I : Precedes(c, j, i)}]
<1>1. /\ \A i \in I : c[i].id \in Seq(Nat)
      /\ \A i, j \in I : c[i].id = c[j].id => i = j
      /\ \A i, j \in I : Precedes(c, i, j) <=> Below(c[i].id, c[j].id)
  BY ClaimsHaveHashes
<1>2. \A i \in I : ~Precedes(c, i, i)
  BY <1>1, BelowIrreflexive
<1>3. ASSUME NEW i \in I, NEW j \in I, NEW k \in I, Precedes(c, k, i), Precedes(c, i, j)
      PROVE  Precedes(c, k, j)
  BY <1>1, <1>3, BelowTransitive
<1>4. ASSUME NEW i \in I, NEW j \in I, i # j
      PROVE  Precedes(c, i, j) \/ Precedes(c, j, i)
  BY <1>1, <1>4, BelowTotal
<1>5. DOMAIN ahead = I /\ ahead \in [I -> SUBSET I]
  OBVIOUS
<1>6. \A i, j \in I : i \in ahead[j] <=> Precedes(c, i, j)
  OBVIOUS
<1> HIDE DEF ahead
<1>7. \A i, j \in I : i \in ahead[j] => ahead[i] \subseteq ahead[j]
  BY <1>3, <1>5, <1>6
<1>8. IsOrder(ahead)
  BY <1>2, <1>4, <1>5, <1>6, <1>7 DEF IsOrder
<1> QED
  BY <1>8 DEF ahead

(* Sorted by hash, the claims at corresponding positions are one list.     *)
LEMMA ByHashAgrees ==
  ASSUME NEW c \in Listings, NEW d \in Listings, NEW pi, Permuted(pi, c, d),
         NEW I \in SUBSET (DOMAIN c), NEW J \in SUBSET (DOMAIN d),
         \A i \in DOMAIN c : i \in I <=> pi[i] \in J
  PROVE  ByHash(c, I) = ByHash(d, J)
<1> DEFINE a == [i \in I |-> {j \in I : Precedes(c, j, i)}]
           b == [i \in J |-> {j \in J : Precedes(d, j, i)}]
<1>1. IsOrder(a) /\ IsOrder(b)
  BY HashesAreOrder
<1>2. ByHash(c, I) = Arranged(c, a) /\ ByHash(d, J) = Arranged(d, b)
  BY DEF ByHash
<1>3. DOMAIN a = I /\ DOMAIN b = J /\ c \in Seq(Claims) /\ d \in Seq(Claims)
  BY DEF Listings
<1>4. \A i, j \in I : Precedes(c, j, i) <=> Precedes(d, pi[j], pi[i])
  BY ClaimsHaveHashes DEF Permuted
<1>5. J = {pi[i] : i \in I}
  BY DEF Permuted
<1>6. \A i \in I : b[pi[i]] = {pi[j] : j \in a[i]}
  <2>1. ASSUME NEW i \in I PROVE b[pi[i]] = {pi[j] : j \in a[i]}
    <3>1. pi[i] \in J
      BY <1>5
    <3> QED
      BY <1>4, <1>5, <3>1
  <2> QED
    BY <2>1
<1> HIDE DEF a, b
<1>7. \A i, j \in I : pi[i] = pi[j] => i = j
  BY DEF Permuted
<1>8. /\ IsFiniteSet(I)
      /\ Arranged(c, a) \in Seq(Claims) /\ Len(Arranged(c, a)) = Cardinality(I)
      /\ \A i \in I : Arranged(c, a)[Place(a, i)] = c[i]
  BY <1>1, <1>3, ArrangedInPlace
<1>9. /\ Arranged(d, b) \in Seq(Claims) /\ Len(Arranged(d, b)) = Cardinality(J)
      /\ \A j \in J : Arranged(d, b)[Place(b, j)] = d[j]
  BY <1>1, <1>3, ArrangedInPlace
<1>10. ASSUME NEW i \in I
       PROVE  Place(b, pi[i]) = Place(a, i)
  <2>1. a[i] \subseteq I
    BY <1>1, <1>3 DEF IsOrder
  <2>2. Cardinality({pi[j] : j \in a[i]}) = Cardinality(a[i])
    BY <1>7, <1>8, <2>1, FS_Subset, ImageSize
  <2> QED
    BY <1>6, <2>2 DEF Place
<1>11. Cardinality(J) = Cardinality(I)
  BY <1>5, <1>7, <1>8, ImageSize
<1>12. \A k \in 1..Cardinality(I) : \E i \in I : Place(a, i) = k
  BY <1>1, <1>3, <1>8, PlacesAreTaken
<1>13. ASSUME NEW k \in 1..Cardinality(I)
       PROVE  Arranged(c, a)[k] = Arranged(d, b)[k]
  <2>1. PICK i \in I : Place(a, i) = k
    BY <1>12
  <2>2. Arranged(c, a)[k] = c[i]
    BY <1>8, <2>1
  <2>3. pi[i] \in J /\ Arranged(d, b)[k] = d[pi[i]]
    BY <1>5, <1>9, <1>10, <2>1
  <2> QED
    BY <2>2, <2>3 DEF Permuted
<1> DEFINE r == Arranged(c, a)
           s == Arranged(d, b)
<1>14. r \in Seq(Claims) /\ s \in Seq(Claims) /\ Len(r) = Len(s) /\ \A k \in 1..Len(r) : r[k] = s[k]
  BY <1>8, <1>9, <1>11, <1>13
<1> HIDE DEF r, s
<1>15. r = s
  BY <1>14
<1> QED
  BY <1>2, <1>15 DEF r, s

LEMMA FirstsAreAll ==
  ASSUME NEW c \in Listings
  PROVE  Firsts(c) = DOMAIN c
<1>1. /\ \A i, j \in DOMAIN c : c[i].id = c[j].id => i = j
      /\ \A i \in DOMAIN c : i \in Nat
  BY ClaimsHaveHashes DEF Listings
<1> QED
  BY <1>1 DEF Firsts

LEMMA SameLength ==
  ASSUME NEW c \in Listings, NEW d \in Listings, NEW pi, Permuted(pi, c, d)
  PROVE  Len(c) = Len(d)
<1>1. /\ DOMAIN c = 1..Len(c) /\ Len(c) \in Nat
      /\ DOMAIN d = 1..Len(d) /\ Len(d) \in Nat
  BY DEF Listings
<1>2. /\ IsFiniteSet(DOMAIN c) /\ Cardinality(DOMAIN c) = Len(c)
      /\ Cardinality(DOMAIN d) = Len(d)
  <2>1. \A n \in Nat : IsFiniteSet(1..n) /\ Cardinality(1..n) = n
    BY FS_Interval
  <2> QED
    BY <1>1, <2>1
<1>3. DOMAIN d = {pi[i] : i \in DOMAIN c} /\ \A i, j \in DOMAIN c : pi[i] = pi[j] => i = j
  BY DEF Permuted
<1>4. Cardinality({pi[i] : i \in DOMAIN c}) = Cardinality(DOMAIN c)
  BY <1>2, <1>3, ImageSize
<1> QED
  BY <1>2, <1>3, <1>4

LEMMA CanonicalAgrees ==
  ASSUME NEW c \in Listings, NEW d \in Listings, Contents(c) = Contents(d)
  PROVE  /\ Canonical(c) = Canonical(d)
         /\ Len(c) = Len(d)
         /\ CanReduce(c) = CanReduce(d)
<1>1. PICK pi : Permuted(pi, c, d)
  BY PermutationExists
<1>2. Canonical(c) = Canonical(d)
  BY <1>1, FirstsAreAll, ByHashAgrees DEF Canonical, Permuted
<1>3. Len(c) = Len(d)
  BY <1>1, SameLength
<1>4. ASSUME NEW e \in Listings, NEW f \in Listings, Contents(e) = Contents(f),
             Len(e) = Len(f), CanReduce(e)
      PROVE  CanReduce(f)
  <2>1. Len(f) >= 2 /\ 1 \in DOMAIN e /\ 1 \in DOMAIN f
    BY <1>4 DEF CanReduce, Listings
  <2>2. \A x \in Contents(e) : x.fp = e[1].fp
    BY <1>4 DEF CanReduce, Contents
  <2>3. \A j \in DOMAIN f : f[j].fp = e[1].fp
    BY <1>4, <2>2 DEF Contents
  <2> QED
    BY <2>1, <2>3 DEF CanReduce
<1>5. CanReduce(c) <=> CanReduce(d)
  BY <1>3, <1>4
<1>6. CanReduce(c) \in BOOLEAN /\ CanReduce(d) \in BOOLEAN
  BY DEF CanReduce
<1> QED
  BY <1>2, <1>3, <1>5, <1>6

LEMMA ReductionsAgree ==
  ASSUME NEW c \in Listings, NEW d \in Listings, Contents(c) = Contents(d), NEW rep
  PROVE  /\ ReduceWithReputation(c, rep) = ReduceWithReputation(d, rep)
         /\ Reduce(c) = Reduce(d)
<1>1. Canonical(c) = Canonical(d) /\ Len(c) = Len(d) /\ (CanReduce(c) <=> CanReduce(d))
  BY CanonicalAgrees
<1>2. ASSUME NEW s, NEW E, NEW a, NEW data
      PROVE  Summarised(c, s, E, a, data) = Summarised(d, s, E, a, data)
  BY <1>1 DEF Summarised
<1> DEFINE E(s) ==
             {[at |-> i, id |-> s[i].id, group |-> CorrelationGroup(s, i),
               lo |-> Weighted(rep[s[i].origin], Declared(s[i].confidence))] :
              i \in Counted(s, {o \in DOMAIN rep : rep[o] # 0})}
           weighted(s, x) ==
             IF CanReduce(x) /\ Reducible(s[1]) /\ E(s) # {}
             THEN {Summarised(x, s, E(s), AggregateHierarchical(E(s)), s[1].data)} ELSE {}
           F(s) ==
             {[at |-> i, id |-> s[i].id, lo |-> Declared(s[i].confidence)] :
              i \in Counted(s, {o.origin : o \in Range(s)})}
           plain(s, x) ==
             IF CanReduce(x) /\ Reducible(s[1])
             THEN {Summarised(x, s, F(s), Aggregate(F(s)), BestData(s))} ELSE {}
<1>3. /\ \A x : ReduceWithReputation(x, rep) = weighted(Canonical(x), x)
      /\ \A x : Reduce(x) = plain(Canonical(x), x)
  BY DEF ReduceWithReputation, Reduce
<1> HIDE DEF E, F
<1>4. \A s : weighted(s, c) = weighted(s, d) /\ plain(s, c) = plain(s, d)
  BY <1>1, <1>2
<1> HIDE DEF weighted, plain
<1> QED
  BY <1>1, <1>3, <1>4

(* The buckets of a grid hold the same, and so does the whole of them.     *)
LEMMA BucketsAgree ==
  ASSUME NEW c \in Listings, NEW d \in Listings, Contents(c) = Contents(d),
         NEW bucket \in EpochAligned(c, Grid)
  PROVE  \E other \in EpochAligned(d, Grid) :
           bucket \in Listings /\ other \in Listings /\ Contents(bucket) = Contents(other)
<1> DEFINE at(e, key) == {i \in DOMAIN e : Bucket(e[i], Grid) = key}
<1>1. Len(c) = Len(d)
  BY CanonicalAgrees
<1>2. Grid # 0 /\ ~(Len(c) < 2)
  BY DEF EpochAligned
<1>3. PICK x \in Contents(c) : bucket = Kept(c, at(c, Bucket(x, Grid)))
  BY <1>2 DEF EpochAligned, Range, Contents
<1> DEFINE key == Bucket(x, Grid)
           other == Kept(d, at(d, key))
<1>4. other \in EpochAligned(d, Grid)
  BY <1>1, <1>2 DEF EpochAligned, Range, Contents
<1>5. ASSUME NEW e \in Listings
      PROVE  /\ Kept(e, at(e, key)) \in Listings
             /\ Contents(Kept(e, at(e, key))) = {y \in Contents(e) : Bucket(y, Grid) = key}
  <2>1. e \in Seq(Claims) /\ NoRepeats(e)
    BY DEF Listings
  <2>2. /\ Kept(e, at(e, key)) \in Seq(Claims) /\ NoRepeats(Kept(e, at(e, key)))
        /\ Contents(Kept(e, at(e, key))) = {e[i] : i \in at(e, key)}
    BY <2>1, KeptHolds
  <2> QED
    BY <2>2 DEF Listings, Contents
<1> QED
  BY <1>3, <1>4, <1>5

LEMMA SummariesAgree ==
  ASSUME NEW c \in Listings, NEW d \in Listings, Contents(c) = Contents(d), NEW rep
  PROVE  Summaries(c, rep) = Summaries(d, rep)
<1>1. ASSUME NEW e \in Listings, NEW f \in Listings, Contents(e) = Contents(f)
      PROVE  /\ {ReduceWithReputation(b, rep) : b \in EpochAligned(e, Grid)}
                  \subseteq {ReduceWithReputation(b, rep) : b \in EpochAligned(f, Grid)}
             /\ {Reduce(b) : b \in EpochAligned(e, Grid)}
                  \subseteq {Reduce(b) : b \in EpochAligned(f, Grid)}
  <2>1. ASSUME NEW b \in EpochAligned(e, Grid)
        PROVE  \E o \in EpochAligned(f, Grid) :
                 ReduceWithReputation(b, rep) = ReduceWithReputation(o, rep) /\ Reduce(b) = Reduce(o)
    <3>1. PICK o \in EpochAligned(f, Grid) :
            b \in Listings /\ o \in Listings /\ Contents(b) = Contents(o)
      BY <1>1, BucketsAgree
    <3> QED
      BY <3>1, ReductionsAgree
  <2> QED
    BY <2>1
<1>2. /\ {ReduceWithReputation(b, rep) : b \in EpochAligned(c, Grid)}
           = {ReduceWithReputation(b, rep) : b \in EpochAligned(d, Grid)}
      /\ {Reduce(b) : b \in EpochAligned(c, Grid)} = {Reduce(b) : b \in EpochAligned(d, Grid)}
  BY <1>1, Zenon
<1> QED
  BY <1>2 DEF Summaries

(* epistemic.rs, "Commutativity: reduce([A, B]) == reduce([B, A])", through*)
(* the buckets of the grid and for any number of claims: nodes that hold   *)
(* the same claims fold them into the same summaries, whatever the order   *)
(* in which the claims came.                                               *)
THEOREM SummariesAreCommutative == Spec => []SameClaimsSameSummaries
<1>1. ASSUME NodesTyped, NEW n \in Nodes, NEW m \in Nodes, Held(n) = Held(m)
      PROVE  Summaries(node[n].claims, Voices(n)) = Summaries(node[m].claims, Voices(n))
  <2>1. node[n].claims \in Listings /\ node[m].claims \in Listings
    BY <1>1, NodeTyped DEF Locals, Ordered, Listings, NoRepeats
  <2>2. Contents(node[n].claims) = Contents(node[m].claims)
    BY <1>1 DEF Held, Contents
  <2> QED
    BY <2>1, <2>2, SummariesAgree
<1>2. NodesTyped => SameClaimsSameSummaries
  BY <1>1 DEF SameClaimsSameSummaries
<1> QED
  BY <1>2, AlwaysTyped, PTL

-----------------------------------------------------------------------------
(* The generated topology.  A chain whose steps differ has a solution too. *)
StepChains(n, V, base, F) ==
  {f \in [0..n -> V] : f = [k \in 0..n |-> IF k = 0 THEN base ELSE F[k][f[k - 1]]]}

LEMMA StepChainExists ==
  ASSUME NEW V, NEW base \in V, NEW n \in Nat, NEW F \in [1..n -> [V -> V]]
  PROVE  StepChains(n, V, base, F) # {}
<1> DEFINE W == (0..n) \X V
           next(p) == IF p[1] + 1 \in 1..n THEN <<p[1] + 1, F[p[1] + 1][p[2]]>> ELSE p
           S == [p \in W |-> next(p)]
           first == <<0, base>>
<1>1. first \in W
  OBVIOUS
<1>2. ASSUME NEW p \in W PROVE next(p) \in W
  <2>1. p[1] \in 0..n /\ p[2] \in V /\ p = <<p[1], p[2]>>
    OBVIOUS
  <2>2. CASE p[1] + 1 \in 1..n
    <3>1. F[p[1] + 1] \in [V -> V]
      BY <2>2
    <3>2. F[p[1] + 1][p[2]] \in V /\ p[1] + 1 \in 0..n
      BY <2>1, <2>2, <3>1
    <3> QED
      BY <2>2, <3>2
  <2>3. CASE p[1] + 1 \notin 1..n
    BY <2>3
  <2> QED
    BY <2>2, <2>3
<1>3. S \in [W -> W]
  BY <1>2
<1>4. Chains(n, W, first, S) # {}
  <2> HIDE DEF S, W, first
  <2> QED
    BY <1>1, <1>3, ChainExists
<1>5. PICK g \in [0..n -> W] : g = [k \in 0..n |-> IF k = 0 THEN first ELSE S[g[k - 1]]]
  BY <1>4 DEF Chains
<1>6. ASSUME NEW k \in 1..n
      PROVE  g[k] = next(g[k - 1])
  <2>1. k \in 0..n /\ k # 0 /\ k - 1 \in 0..n
    BY StepBefore
  <2>2. g[k] = S[g[k - 1]] /\ g[k - 1] \in W
    <3> HIDE DEF S, W, first
    <3> QED
      BY <1>5, <2>1
  <2> HIDE DEF next, W
  <2> QED
    BY <2>2
<1>7. g[0] = first
  <2> HIDE DEF S, W, first
  <2> QED
    BY <1>5
<1>8. \A k \in 0..n : g[k][1] = k
  <2> DEFINE P == {k \in 0..n : g[k][1] = k}
  <2>1. 0 \in P
    BY <1>7
  <2>2. ASSUME NEW k \in 1..n, k - 1 \in P
        PROVE  k \in P
    <3>1. g[k - 1][1] + 1 = k /\ k \in 0..n
      BY <2>2
    <3>2. g[k] = <<k, F[k][g[k - 1][2]]>>
      BY <1>6, <3>1
    <3> QED
      BY <3>1, <3>2
  <2> HIDE DEF P
  <2>3. \A k \in 0..n : k \in P
    BY <2>1, <2>2, CountingInduction
  <2> QED
    BY <2>3 DEF P
<1> DEFINE f == [k \in 0..n |-> g[k][2]]
<1>9. f \in [0..n -> V]
  <2>1. \A k \in 0..n : g[k] \in W
    <3> HIDE DEF S, W, first
    <3> QED
      BY <1>5
  <2> QED
    BY <2>1
<1>10. ASSUME NEW k \in 0..n
       PROVE  f[k] = IF k = 0 THEN base ELSE F[k][f[k - 1]]
  <2>1. CASE k = 0
    BY <1>7, <2>1
  <2>2. CASE k # 0
    <3>1. k \in 1..n /\ k - 1 \in 0..n /\ (k - 1) + 1 = k
      BY <2>2
    <3>2. g[k] = next(g[k - 1]) /\ g[k - 1][1] = k - 1
      <4> HIDE DEF next
      <4> QED
        BY <1>6, <1>8, <3>1
    <3>3. g[k] = <<k, F[k][g[k - 1][2]]>>
      BY <3>1, <3>2
    <3> QED
      BY <2>2, <3>1, <3>3
  <2> QED
    BY <2>1, <2>2
<1> HIDE DEF f
<1>11. f = [k \in 0..n |-> IF k = 0 THEN base ELSE F[k][f[k - 1]]]
  BY <1>9, <1>10
<1> QED
  BY <1>9, <1>11 DEF StepChains

(* The k-th pair of a list of n claims.                                    *)
LEMMA PairInRange ==
  ASSUME NEW n \in Nat, NEW k \in 1..(n * n)
  PROVE  ((k - 1) \div n) + 1 \in 1..n /\ ((k - 1) % n) + 1 \in 1..n
<1>1. n \in Nat \ {0}
  <2>1. n # 0
    <3> SUFFICES ASSUME n = 0 PROVE FALSE
      OBVIOUS
    <3> QED
      OBVIOUS
  <2> QED
    BY <2>1
<1>2. n * n \in Nat
  OBVIOUS
<1> DEFINE m == k - 1
           q == m \div n
<1>3. m \in Nat /\ m < n * n
  BY <1>2
<1> HIDE DEF m
<1>4. q \in Nat /\ m % n \in 0..(n - 1)
  BY <1>1, <1>3
<1>5. n * q <= m
  BY <1>1, <1>3
<1>6. q < n
  <2>1. SUFFICES ASSUME n <= q PROVE FALSE
    BY <1>1, <1>4
  <2> HIDE DEF q
  <2>2. n * n <= n * q
    BY <1>1, <1>4, <2>1
  <2>3. n * q \in Nat
    BY <1>1, <1>4
  <2> QED
    BY <1>2, <1>3, <1>5, <2>2, <2>3
<1>7. q + 1 \in 1..n /\ (m % n) + 1 \in 1..n
  <2> HIDE DEF q
  <2> QED
    BY <1>1, <1>4, <1>6
<1> QED
  BY <1>7 DEF m

(* The edges there can be between claims that carry embeddings.            *)
Pairs(c) ==
  {p \in Contents(c) \X Contents(c) :
     Carried(p[1]) /\ Carried(p[2]) /\ Below(p[1].id, p[2].id)}

RawEdges(c) == {RawEdge(p[1], p[2]) : p \in Pairs(c)}

LEMMA GeneratedAgrees ==
  ASSUME NEW c \in Listings, NEW d \in Listings, NEW pi, Permuted(pi, c, d)
  PROVE  GenerateEdges(c) = GenerateEdges(d)
<1> DEFINE n(s) == Len(s)
           edges(s) ==
             LET visited[k \in 0..(n(s) * n(s))] ==
                   IF k = 0 THEN <<>>
                   ELSE LET i == ((k - 1) \div n(s)) + 1
                            j == ((k - 1) % n(s)) + 1
                            raws == visited[k - 1]
                        IN  IF i < j /\ Linkable(raws, s[i], s[j])
                            THEN Append(raws, RawEdge(s[i], s[j])) ELSE raws
             IN  visited[n(s) * n(s)]
<1>1. GenerateEdges(c) = edges(ByHash(c, Embedded(c))) /\ GenerateEdges(d) = edges(ByHash(d, Embedded(d)))
  BY DEF GenerateEdges
<1> HIDE DEF edges
<1>2. \A i \in DOMAIN c : i \in Embedded(c) <=> pi[i] \in Embedded(d)
  BY DEF Permuted, Embedded
<1>3. Embedded(c) \in SUBSET (DOMAIN c) /\ Embedded(d) \in SUBSET (DOMAIN d)
  BY DEF Embedded
<1>4. ByHash(c, Embedded(c)) = ByHash(d, Embedded(d))
  BY <1>2, <1>3, ByHashAgrees
<1> QED
  BY <1>1, <1>4

LEMMA SortedAscends ==
  ASSUME NEW c \in Listings, NEW I \in SUBSET (DOMAIN c)
  PROVE  /\ ByHash(c, I) \in Seq(Claims)
         /\ \A k \in DOMAIN ByHash(c, I) : \E i \in I : ByHash(c, I)[k] = c[i]
         /\ \A k, l \in DOMAIN ByHash(c, I) :
              k < l => Below(ByHash(c, I)[k].id, ByHash(c, I)[l].id)
<1> DEFINE a == [i \in I |-> {j \in I : Precedes(c, j, i)}]
<1>1. IsOrder(a) /\ DOMAIN a = I /\ c \in Seq(Claims)
  BY HashesAreOrder DEF Listings
<1>2. ByHash(c, I) = Arranged(c, a)
  BY DEF ByHash
<1>3. \A i, j \in I : i \in a[j] <=> Below(c[i].id, c[j].id)
  BY ClaimsHaveHashes
<1> HIDE DEF a
<1>4. /\ IsFiniteSet(I) /\ Arranged(c, a) \in Seq(Claims)
      /\ \A k \in DOMAIN Arranged(c, a) :
           \E i \in I : Place(a, i) = k /\ Arranged(c, a)[k] = c[i]
  BY <1>1, ArrangedInPlace, ArrangedHolds
<1>5. ASSUME NEW k \in DOMAIN Arranged(c, a), NEW l \in DOMAIN Arranged(c, a), k < l
      PROVE  Below(Arranged(c, a)[k].id, Arranged(c, a)[l].id)
  <2>1. PICK i \in I : Place(a, i) = k /\ Arranged(c, a)[k] = c[i]
    BY <1>4
  <2>2. PICK j \in I : Place(a, j) = l /\ Arranged(c, a)[l] = c[j]
    BY <1>4
  <2>3. k \in Int /\ l \in Int
    BY <1>4
  <2>4. i # j /\ ~(l < k)
    BY <1>5, <2>1, <2>2, <2>3
  <2>5. j \notin a[i]
    BY <1>1, <1>4, <2>1, <2>2, <2>4, PlacesAscend
  <2>6. i \in a[j]
    BY <1>1, <2>4, <2>5 DEF IsOrder
  <2> QED
    BY <1>3, <2>1, <2>2, <2>6
<1> QED
  BY <1>2, <1>4, <1>5

LEMMA GeneratedTyped ==
  ASSUME NEW c \in Listings
  PROVE  GenerateEdges(c) \in Seq(RawEdges(c))
<1> DEFINE s == ByHash(c, Embedded(c))
           n == Len(s)
           V == Seq(RawEdges(c))
           row(k) == ((k - 1) \div n) + 1
           column(k) == ((k - 1) % n) + 1
           step(k, raws) == IF row(k) < column(k) /\ Linkable(raws, s[row(k)], s[column(k)])
                            THEN Append(raws, RawEdge(s[row(k)], s[column(k)])) ELSE raws
           F == [k \in 1..(n * n) |-> [raws \in V |-> step(k, raws)]]
           Eq(f) == f = [k \in 0..(n * n) |-> IF k = 0 THEN <<>> ELSE step(k, f[k - 1])]
           visited == CHOOSE f : Eq(f)
<1>1. /\ s \in Seq(Claims)
      /\ \A k \in DOMAIN s : s[k] \in Contents(c) /\ Carried(s[k])
      /\ \A k, l \in DOMAIN s : k < l => Below(s[k].id, s[l].id)
  <2>1. Embedded(c) \in SUBSET (DOMAIN c)
    BY DEF Embedded
  <2> HIDE DEF s
  <2>2. /\ s \in Seq(Claims)
        /\ \A k \in DOMAIN s : \E i \in Embedded(c) : s[k] = c[i]
        /\ \A k, l \in DOMAIN s : k < l => Below(s[k].id, s[l].id)
    BY <2>1, SortedAscends DEF s
  <2> QED
    BY <2>2 DEF Embedded, Contents
<1>2. GenerateEdges(c) = visited[n * n]
  BY DEF GenerateEdges
<1> HIDE DEF s
<1>3. n \in Nat /\ n * n \in Nat /\ DOMAIN s = 1..n
  BY <1>1
<1> HIDE DEF n
<1>4. ASSUME NEW k \in 1..(n * n), NEW raws \in V
      PROVE  step(k, raws) \in V
  <2>1. row(k) \in DOMAIN s /\ column(k) \in DOMAIN s
    BY <1>3, PairInRange
  <2> HIDE DEF row, column
  <2>2. row(k) < column(k) => RawEdge(s[row(k)], s[column(k)]) \in RawEdges(c)
    <3>1. SUFFICES ASSUME row(k) < column(k)
                   PROVE  RawEdge(s[row(k)], s[column(k)]) \in RawEdges(c)
      OBVIOUS
    <3>2. <<s[row(k)], s[column(k)]>> \in Pairs(c)
      BY <1>1, <2>1, <3>1 DEF Pairs
    <3> QED
      BY <3>2 DEF RawEdges
  <2> QED
    BY <2>2
<1>5. F \in [1..(n * n) -> [V -> V]] /\ <<>> \in V
  BY <1>4
<1> HIDE DEF step
<1>6. \E f : Eq(f)
  <2>1. StepChains(n * n, V, <<>>, F) # {}
    <3> HIDE DEF F, V
    <3> QED
      BY <1>3, <1>5, StepChainExists
  <2>2. PICK f \in [0..(n * n) -> V] :
          f = [k \in 0..(n * n) |-> IF k = 0 THEN <<>> ELSE F[k][f[k - 1]]]
    BY <2>1 DEF StepChains
  <2>3. \A k \in 0..(n * n) : k # 0 => F[k][f[k - 1]] = step(k, f[k - 1])
    <3>1. ASSUME NEW k \in 0..(n * n), k # 0
          PROVE  k \in 1..(n * n) /\ f[k - 1] \in V
      <4>1. k \in 1..(n * n) /\ k - 1 \in 0..(n * n)
        BY <1>3, <3>1
      <4> HIDE DEF V
      <4> QED
        BY <4>1
    <3> HIDE DEF V
    <3> QED
      BY <3>1
  <2> HIDE DEF F, V
  <2>4. Eq(f)
    BY <2>2, <2>3, Zenon
  <2> QED
    BY <2>4
<1>7. Eq(visited)
  BY <1>6
<1> HIDE DEF visited, V
<1>8. \A k \in 0..(n * n) : visited[k] \in V
  <2> DEFINE P == {k \in 0..(n * n) : visited[k] \in V}
  <2>1. 0 \in P
    BY <1>3, <1>5, <1>7
  <2>2. ASSUME NEW k \in 1..(n * n), k - 1 \in P
        PROVE  k \in P
    <3>1. k \in 0..(n * n) /\ k # 0
      BY <1>3, StepBefore
    <3>2. visited[k] = step(k, visited[k - 1])
      BY <1>7, <3>1
    <3> QED
      BY <1>4, <2>2, <3>1, <3>2
  <2> HIDE DEF P
  <2>3. \A k \in 0..(n * n) : k \in P
    BY <1>3, <2>1, <2>2, CountingInduction
  <2> QED
    BY <2>3 DEF P
<1>9. n * n \in 0..(n * n)
  BY <1>3
<1> QED
  BY <1>2, <1>8, <1>9 DEF V

-----------------------------------------------------------------------------
(* The graph built from the generated edges.                               *)
LEMMA StrengthInScale ==
  ASSUME NEW x \in Claims, NEW y \in Claims, Carried(x), Carried(y)
  PROVE  Strength(x, y) \in 0..Scale
<1>1. Distance(x, y) \in 0..Width
  <2>1. PICK e \in x.embedding, f \in y.embedding : TRUE
    BY DEF Carried
  <2>2. (e \ f) \cup (f \ e) \in SUBSET (1..Width)
    BY <2>1, MeshAssumption
  <2>3. Width \in Nat
    BY TopologyAssumption
  <2>4. IsFiniteSet(1..Width) /\ Cardinality(1..Width) = Width
    BY <2>3, FS_Interval
  <2>5. HammingDistance(e, f) \in 0..Width
    BY <2>2, <2>3, <2>4, FS_Subset, FS_CardinalityType DEF HammingDistance
  <2>6. \E n \in 0..Width : \E a \in x.embedding, b \in y.embedding : HammingDistance(a, b) = n
    BY <2>1, <2>5
  <2> QED
    BY <2>6 DEF Distance
<1>2. /\ Scale \in Nat /\ FloorStrength \in 0..Scale /\ Width \in Nat
      /\ ContradictBits \in Nat /\ SupportBits \in Nat
  BY ScaleAssumption, TopologyAssumption, SupportAssumption
<1> DEFINE D == Distance(x, y)
           slope == Scale - FloorStrength
           near == (D * slope) \div AtLeast(SupportBits, 1)
           far == ((D - ContradictBits) * slope) \div AtLeast(Width - ContradictBits, 1)
           raw == IF D <= SupportBits THEN Scale - near ELSE FloorStrength + far
<1>3. Strength(x, y) = AtLeast(FloorStrength, AtMost(raw, Scale))
  BY DEF Strength
<1>4. D \in Int /\ slope \in Int /\ D - ContradictBits \in Int
  BY <1>1, <1>2
<1>5. AtLeast(SupportBits, 1) \in Nat \ {0} /\ AtLeast(Width - ContradictBits, 1) \in Nat \ {0}
  BY <1>2 DEF AtLeast
<1> HIDE DEF D, slope
<1>6. near \in Int /\ far \in Int
  BY <1>4, <1>5, ProductIsInt, DivideInt
<1> HIDE DEF near, far
<1>7. raw \in Int
  BY <1>2, <1>6
<1> HIDE DEF raw
<1> QED
  BY <1>2, <1>3, <1>7 DEF AtLeast, AtMost

(* A hash that is held is found where it stands.                           *)
LEMMA FoundByHash ==
  ASSUME NEW c \in Listings, NEW i \in DOMAIN c, NEW fp
  PROVE  Arena(c, c[i].id, fp) = {i}
<1>1. {j \in DOMAIN c : c[j].id = c[i].id} = {i}
  BY ClaimsHaveHashes
<1>2. i \in Nat
  BY DEF Listings
<1>3. Max({i}) = i
  BY <1>2 DEF Max
<1> QED
  BY <1>1, <1>3 DEF Arena

(* G is the graph of raws over the claims c.                               *)
Drawn(c, raws, G) ==
  /\ IsGraph(G) /\ DOMAIN G = DOMAIN raws
  /\ \A k \in DOMAIN G :
       /\ G[k].from \in DOMAIN c /\ c[G[k].from].id = raws[k].from
       /\ G[k].to \in DOMAIN c /\ c[G[k].to].id = raws[k].to
       /\ G[k].relation = raws[k].relation /\ G[k].strength = raws[k].strength
       /\ Below(c[G[k].from].id, c[G[k].to].id)

LEMMA BuiltAsDrawn ==
  ASSUME NEW c \in Listings, NEW raws \in Seq(RawEdges(c))
  PROVE  Drawn(c, raws, BuildFromClaims(c, raws))
<1> DEFINE from(raw) == Arena(c, raw.from, raw.fromFp)
           to(raw) == Arena(c, raw.to, raw.toFp)
           edge(raw) == [from |-> CHOOSE i \in from(raw) : TRUE, to |-> CHOOSE i \in to(raw) : TRUE,
                         relation |-> raw.relation, strength |-> raw.strength]
           good == {k \in DOMAIN raws : from(raws[k]) # {} /\ to(raws[k]) # {}}
           G == [k \in DOMAIN raws |-> edge(raws[k])]
<1>1. ASSUME NEW k \in DOMAIN raws
      PROVE  \E i, j \in DOMAIN c :
               /\ raws[k].from = c[i].id /\ raws[k].to = c[j].id
               /\ from(raws[k]) = {i} /\ to(raws[k]) = {j}
               /\ Below(c[i].id, c[j].id)
               /\ raws[k].strength \in 0..Scale
  <2>1. raws[k] \in RawEdges(c)
    OBVIOUS
  <2>2. PICK p \in Pairs(c) : raws[k] = RawEdge(p[1], p[2])
    BY <2>1 DEF RawEdges
  <2>3. PICK i \in DOMAIN c : c[i] = p[1]
    BY <2>2 DEF Pairs, Contents
  <2>4. PICK j \in DOMAIN c : c[j] = p[2]
    BY <2>2 DEF Pairs, Contents
  <2>5. Carried(c[i]) /\ Carried(c[j]) /\ Below(c[i].id, c[j].id)
    BY <2>3, <2>4 DEF Pairs
  <2>6. raws[k].from = c[i].id /\ raws[k].to = c[j].id /\ raws[k].strength = Strength(c[i], c[j])
    BY <2>2, <2>3, <2>4 DEF RawEdge
  <2>7. c[i] \in Claims /\ c[j] \in Claims
    BY DEF Listings
  <2>8. raws[k].strength \in 0..Scale
    BY <2>5, <2>6, <2>7, StrengthInScale
  <2> QED
    BY <2>5, <2>6, <2>8, FoundByHash
<1> HIDE DEF from, to
<1>2. good = DOMAIN raws
  BY <1>1
<1>3. Kept(raws, good) = raws
  BY <1>2, AllKept
<1>4. BuildFromClaims(c, raws) = G
  BY <1>3 DEF BuildFromClaims, from, to
<1>5. DOMAIN raws = 1..Len(raws) /\ Len(raws) \in Nat
  OBVIOUS
<1>6. \A k \in DOMAIN raws :
        /\ G[k].from \in DOMAIN c /\ c[G[k].from].id = raws[k].from
        /\ G[k].to \in DOMAIN c /\ c[G[k].to].id = raws[k].to
        /\ G[k].relation = raws[k].relation /\ G[k].strength = raws[k].strength
        /\ Below(c[G[k].from].id, c[G[k].to].id) /\ G[k].strength \in 0..Scale
  BY <1>1
<1>7. \A k \in DOMAIN raws : G[k].from \in Nat /\ G[k].to \in Nat
  <2>1. \A i \in DOMAIN c : i \in Nat
    BY DEF Listings
  <2> QED
    BY <1>6, <2>1
<1>8. DOMAIN G = DOMAIN raws /\ Len(G) = Len(raws)
  BY <1>5
<1> HIDE DEF G
<1> QED
  BY <1>4, <1>5, <1>6, <1>7, <1>8 DEF Drawn, IsGraph

-----------------------------------------------------------------------------
(* When every edge goes up, the search never meets its own path, and       *)
(* nothing is cut.                                                         *)
Ascending(G) ==
  {height \in [Ends(G) -> Nat] :
     \A k \in DOMAIN G : Supportive(G[k]) => height[G[k].from] < height[G[k].to]}

LEMMA EnterClimbs ==
  ASSUME NEW G, IsGraph(G), NEW height \in Ascending(G), NEW s \in SearchStates(G),
         \A p, q \in DOMAIN s.path : p <= q => height[s.path[p]] <= height[s.path[q]],
         s.cyclic = {}, NEW u \in Successors(G, s)
  PROVE  /\ Enter(G, s, u).cyclic = {}
         /\ \A p, q \in DOMAIN Enter(G, s, u).path :
              p <= q => height[Enter(G, s, u).path[p]] <= height[Enter(G, s, u).path[q]]
<1> DEFINE t == Enter(G, s, u)
           m == Len(s.path)
<1>1. s.path \in Seq(Ends(G)) /\ m \in Nat /\ DOMAIN s.path = 1..m
  BY DEF SearchStates
<1>2. u \in Ends(G) /\ \A x \in Ends(G) : height[x] \in Nat
  BY SuccessorsAreEnds DEF Ascending
<1>3. t.path = Append(s.path, u) /\ t.cyclic = s.cyclic \cup BackEdges(G, t.path)
  BY DEF Enter
<1>4. /\ t.path \in Seq(Ends(G)) /\ Len(t.path) = m + 1 /\ DOMAIN t.path = 1..(m + 1)
      /\ t.path[m + 1] = u /\ \A p \in 1..m : t.path[p] = s.path[p]
  BY <1>1, <1>2, <1>3
<1> HIDE DEF t
<1>5. ASSUME NEW p \in 1..m
      PROVE  height[s.path[p]] <= height[u]
  <2>1. m \in DOMAIN s.path /\ s.path # <<>> /\ p \in DOMAIN s.path /\ p <= m
    BY <1>1
  <2>2. height[s.path[p]] <= height[s.path[m]]
    BY <2>1
  <2>3. PICK k \in DOMAIN G : G[k].from = s.path[m] /\ Supportive(G[k]) /\ G[k].to = u
    BY <2>1 DEF Successors, OutgoingEdges
  <2>4. height[s.path[m]] < height[u]
    BY <2>3 DEF Ascending
  <2>5. s.path[p] \in Ends(G) /\ s.path[m] \in Ends(G)
    BY <1>1, <2>1
  <2>6. height[s.path[p]] \in Nat /\ height[s.path[m]] \in Nat /\ height[u] \in Nat
    BY <1>2, <2>5
  <2> QED
    BY <2>2, <2>4, <2>6
<1>6. ASSUME NEW p \in DOMAIN t.path, NEW q \in DOMAIN t.path, p <= q
      PROVE  height[t.path[p]] <= height[t.path[q]]
  <2>1. CASE q = m + 1 /\ p = m + 1
    BY <1>2, <1>4, <2>1
  <2>2. CASE q = m + 1 /\ p # m + 1
    <3>1. p \in 1..m
      BY <1>1, <1>4, <2>2
    <3> QED
      BY <1>4, <1>5, <2>2, <3>1
  <2>3. CASE q # m + 1
    <3>1. p \in 1..m /\ q \in 1..m
      BY <1>1, <1>4, <1>6, <2>3
    <3> QED
      BY <1>1, <1>4, <1>6, <3>1
  <2> QED
    BY <2>1, <2>2, <2>3
<1>7. ASSUME NEW k \in BackEdges(G, t.path)
      PROVE  FALSE
  <2>1. k \in DOMAIN G /\ G[k].from = u /\ Supportive(G[k])
    BY <1>4 DEF BackEdges, OutgoingEdges
  <2>2. PICK p \in DOMAIN t.path : t.path[p] = G[k].to
    BY DEF BackEdges
  <2>3. m + 1 \in DOMAIN t.path /\ p <= m + 1
    BY <1>1, <1>4
  <2>4. height[t.path[p]] <= height[t.path[m + 1]]
    BY <1>6, <2>3
  <2>5. height[G[k].to] <= height[u]
    BY <1>4, <2>2, <2>4
  <2>6. height[u] < height[G[k].to]
    BY <2>1 DEF Ascending
  <2>7. height[u] \in Nat /\ height[G[k].to] \in Nat
    BY <1>2, <2>1, EndsAreIds
  <2> QED
    BY <2>5, <2>6, <2>7
<1>8. t.cyclic = {}
  BY <1>3, <1>7
<1> QED
  BY <1>6, <1>8 DEF t

LEMMA LeaveClimbs ==
  ASSUME NEW G, NEW height, NEW s \in SearchStates(G), s.path # <<>>,
         \A p, q \in DOMAIN s.path : p <= q => height[s.path[p]] <= height[s.path[q]]
  PROVE  /\ Leave(s).cyclic = s.cyclic
         /\ \A p, q \in DOMAIN Leave(s).path :
              p <= q => height[Leave(s).path[p]] <= height[Leave(s).path[q]]
<1> DEFINE m == Len(s.path)
<1>1. /\ s.path \in Seq(Ends(G)) /\ m \in Nat \ {0} /\ DOMAIN s.path = 1..m
      /\ Leave(s).path = SubSeq(s.path, 1, m - 1) /\ Leave(s).cyclic = s.cyclic
  BY DEF SearchStates, Leave
<1>2. Leave(s).path = [p \in 1..(m - 1) |-> s.path[p]]
  BY <1>1
<1>3. \A p \in 1..(m - 1) : p \in DOMAIN s.path
  BY <1>1
<1> QED
  BY <1>1, <1>2, <1>3

LEMMA NothingIsCut ==
  ASSUME NEW G, IsGraph(G), Ascending(G) # {}
  PROVE  Live(G) = {k \in DOMAIN G : Supportive(G[k])}
<1> DEFINE top == 2 * Cardinality(Ends(G))
           Climbs(height, s) ==
             /\ s.cyclic = {}
             /\ \A p, q \in DOMAIN s.path : p <= q => height[s.path[p]] <= height[s.path[q]]
<1>1. PICK height \in Ascending(G) : TRUE
  OBVIOUS
<1>2. top \in Nat
  BY EndsAreIds, FS_CardinalityType
<1>3. PICK f \in Searches(G) : CyclicEdges(G) = f[top].cyclic
  BY SearchExists
<1>4. /\ f \in [0..top -> SearchStates(G)] /\ f[0] = [path |-> <<>>, visited |-> {}, cyclic |-> {}]
      /\ \A n \in 1..top : f[n] = SearchStep(G, f[n - 1])
  BY DEF Searches
<1> HIDE DEF top
<1>5. ASSUME NEW s \in SearchStates(G), Climbs(height, s)
      PROVE  Climbs(height, SearchStep(G, s))
  <2> DEFINE fresh == Successors(G, s) \ s.visited
  <2>1. CASE fresh # {}
    <3>1. fresh \in SUBSET Nat
      BY SuccessorsAreEnds, EndsAreIds
    <3> HIDE DEF fresh
    <3>2. Min(fresh) \in fresh
      BY <2>1, <3>1, SmallestPicked
    <3>3. Min(fresh) \in Successors(G, s)
      BY <3>2 DEF fresh
    <3>4. SearchStep(G, s) = Enter(G, s, Min(fresh))
      BY <2>1 DEF SearchStep, fresh
    <3> QED
      BY <1>5, <3>3, <3>4, EnterClimbs
  <2>2. CASE fresh = {} /\ s.path # <<>>
    <3>1. SearchStep(G, s) = Leave(s)
      BY <2>2 DEF SearchStep
    <3> QED
      BY <1>5, <2>2, <3>1, LeaveClimbs
  <2>3. CASE fresh = {} /\ s.path = <<>>
    BY <1>5, <2>3 DEF SearchStep
  <2> QED
    BY <2>1, <2>2, <2>3
<1>6. Climbs(height, f[0])
  BY <1>4
<1> HIDE DEF Climbs
<1>7. Climbs(height, f[top])
  <2> DEFINE P == {n \in 0..top : Climbs(height, f[n])}
  <2>1. 0 \in P
    BY <1>2, <1>6
  <2>2. ASSUME NEW n \in 1..top, n - 1 \in P
        PROVE  n \in P
    <3>1. n \in 0..top /\ n - 1 \in 0..top
      BY <1>2, StepBefore
    <3>2. f[n - 1] \in SearchStates(G) /\ f[n] = SearchStep(G, f[n - 1])
      BY <1>4, <3>1
    <3> QED
      BY <1>5, <2>2, <3>1, <3>2
  <2> HIDE DEF P
  <2>3. \A n \in 0..top : n \in P
    BY <1>2, <2>1, <2>2, CountingInduction
  <2> QED
    BY <1>2, <2>3 DEF P
<1>8. CyclicEdges(G) = {}
  BY <1>3, <1>7 DEF Climbs
<1> QED
  BY <1>8 DEF Live

(* Over the generated graph the height of a claim is its place in the      *)
(* order of the hashes.                                                    *)
LEMMA GeneratedIsLive ==
  ASSUME NEW c \in Listings, NEW raws, NEW G, Drawn(c, raws, G)
  PROVE  /\ Ends(G) \subseteq DOMAIN c
         /\ Live(G) = {k \in DOMAIN G : Supportive(G[k])}
<1> DEFINE I == DOMAIN c
           a == [i \in I |-> {j \in I : Precedes(c, j, i)}]
           height == [i \in Ends(G) |-> Place(a, i)]
<1>1. Ends(G) \subseteq I /\ IsGraph(G)
  BY DEF Drawn, Ends
<1>2. IsOrder(a) /\ DOMAIN a = I /\ c \in Seq(Claims)
  BY HashesAreOrder DEF Listings
<1>3. IsFiniteSet(I)
  BY <1>2, ArrangedInPlace
<1>4. \A i, j \in I : i \in a[j] <=> Below(c[i].id, c[j].id)
  BY ClaimsHaveHashes
<1> HIDE DEF a
<1>5. \A i \in I : Place(a, i) \in Nat
  <2>1. \A i \in I : IsFiniteSet(a[i])
    BY <1>2, <1>3, FS_Subset DEF IsOrder
  <2> QED
    BY <2>1, FS_CardinalityType DEF Place
<1>6. height \in [Ends(G) -> Nat]
  BY <1>1, <1>5
<1>7. ASSUME NEW k \in DOMAIN G
      PROVE  height[G[k].from] < height[G[k].to]
  <2>1. /\ G[k].from \in I /\ G[k].to \in I /\ Below(c[G[k].from].id, c[G[k].to].id)
        /\ G[k].from \in Ends(G) /\ G[k].to \in Ends(G)
    BY DEF Drawn, Ends
  <2>2. Place(a, G[k].from) < Place(a, G[k].to)
    BY <1>2, <1>3, <1>4, <2>1, PlacesAscend
  <2> QED
    BY <2>1, <2>2
<1>8. height \in Ascending(G)
  BY <1>6, <1>7 DEF Ascending
<1> QED
  BY <1>1, <1>8, NothingIsCut

-----------------------------------------------------------------------------
(* Permuted claims are in the same correlation groups.                     *)
LEMMA AssessableAgrees ==
  ASSUME NEW c \in Listings, NEW d \in Listings, NEW pi, Permuted(pi, c, d)
  PROVE  /\ \A i \in DOMAIN c : i \in Assessable(c) <=> pi[i] \in Assessable(d)
         /\ Assessable(d) = {pi[i] : i \in Assessable(c)}
         /\ IsFiniteSet(Assessable(c))
         /\ Cardinality(Assessable(d)) = Cardinality(Assessable(c))
<1>1. /\ pi \in [DOMAIN c -> DOMAIN d] /\ \A i \in DOMAIN c : d[pi[i]] = c[i]
      /\ \A i, j \in DOMAIN c : pi[i] = pi[j] => i = j
      /\ \A j \in DOMAIN d : \E i \in DOMAIN c : pi[i] = j
  BY DEF Permuted
<1>2. Inconsistent(c) = Inconsistent(d)
  <2>1. ASSUME NEW i \in DOMAIN c, NEW j \in DOMAIN c, Carried(c[i]), Carried(c[j]),
               c[j].fp[1] = c[i].fp[1], c[j].embedding # c[i].embedding
        PROVE  c[i].fp[1] \in Inconsistent(d)
    <3>1. /\ pi[i] \in DOMAIN d /\ pi[j] \in DOMAIN d
          /\ d[pi[i]] = c[i] /\ d[pi[j]] = c[j]
      BY <1>1
    <3> QED
      BY <2>1, <3>1 DEF Inconsistent
  <2>2. ASSUME NEW i \in DOMAIN d, NEW j \in DOMAIN d, Carried(d[i]), Carried(d[j]),
               d[j].fp[1] = d[i].fp[1], d[j].embedding # d[i].embedding
        PROVE  d[i].fp[1] \in Inconsistent(c)
    <3>1. PICK x \in DOMAIN c : pi[x] = i
      BY <1>1
    <3>2. PICK y \in DOMAIN c : pi[y] = j
      BY <1>1
    <3>3. d[i] = c[x] /\ d[j] = c[y]
      BY <1>1, <3>1, <3>2
    <3> QED
      BY <2>2, <3>3 DEF Inconsistent
  <2>3. Inconsistent(c) \subseteq Inconsistent(d)
    BY <2>1 DEF Inconsistent
  <2>4. Inconsistent(d) \subseteq Inconsistent(c)
    BY <2>2 DEF Inconsistent
  <2> QED
    BY <2>3, <2>4
<1>3. \A i \in DOMAIN c : i \in Assessable(c) <=> pi[i] \in Assessable(d)
  BY <1>1, <1>2 DEF Assessable
<1>4. Assessable(c) \subseteq DOMAIN c /\ Assessable(d) \subseteq DOMAIN d
  BY DEF Assessable
<1>5. Assessable(d) = {pi[i] : i \in Assessable(c)}
  BY <1>1, <1>3, <1>4
<1>6. IsFiniteSet(Assessable(c))
  <2>1. DOMAIN c = 1..Len(c) /\ Len(c) \in Nat
    BY DEF Listings
  <2>2. IsFiniteSet(DOMAIN c)
    BY <2>1, FS_Interval
  <2> QED
    BY <1>4, <2>2, FS_Subset
<1>7. Cardinality({pi[i] : i \in Assessable(c)}) = Cardinality(Assessable(c))
  BY <1>1, <1>4, <1>6, ImageSize
<1> QED
  BY <1>3, <1>5, <1>6, <1>7

(* The growing component of claim i.                                       *)
Grown(c, R) ==
  {j \in Assessable(c) : \E k \in R : k = j \/ Near(c[k], c[j])}

Growths(c, i, n) ==
  {f \in [0..n -> SUBSET (DOMAIN c)] :
     f[0] = {i} /\ \A k \in 1..n : f[k] = Grown(c, f[k - 1])}

LEMMA ComponentGrows ==
  ASSUME NEW c, NEW i \in DOMAIN c, NEW n \in Nat, n = Cardinality(Assessable(c))
  PROVE  \E f \in Growths(c, i, n) : Component(c, i) = f[n]
<1> DEFINE V == SUBSET (DOMAIN c)
           F == [R \in V |-> Grown(c, R)]
           Eq(f) == f = [k \in 0..n |-> IF k = 0 THEN {i} ELSE Grown(c, f[k - 1])]
           reach == CHOOSE f : Eq(f)
<1>1. /\ \A R \in V : Grown(c, R) \in V
      /\ {i} \in V
  BY DEF Grown, Assessable
<1>2. F \in [V -> V]
  BY <1>1
<1>3. Component(c, i) = reach[n]
  BY DEF Component, Grown
<1> HIDE DEF V
<1>4. \E f : Eq(f)
  <2>1. Chains(n, V, {i}, F) # {}
    <3> HIDE DEF F
    <3> QED
      BY <1>1, <1>2, ChainExists
  <2>2. PICK f \in [0..n -> V] : f = [k \in 0..n |-> IF k = 0 THEN {i} ELSE F[f[k - 1]]]
    BY <2>1 DEF Chains
  <2>3. \A k \in 0..n : k # 0 => F[f[k - 1]] = Grown(c, f[k - 1])
    <3>1. \A k \in 0..n : k # 0 => k - 1 \in 0..n
      OBVIOUS
    <3>2. \A k \in 0..n : k # 0 => f[k - 1] \in V
      BY <3>1
    <3> QED
      BY <3>2
  <2> HIDE DEF F
  <2>4. Eq(f)
    BY <2>2, <2>3, Zenon
  <2> QED
    BY <2>4
<1>5. Eq(reach)
  BY <1>4
<1> HIDE DEF reach
<1>6. reach[0] = {i}
  BY <1>5
<1>7. ASSUME NEW k \in 1..n
      PROVE  reach[k] = Grown(c, reach[k - 1])
  <2>1. k \in 0..n /\ k # 0
    BY StepBefore
  <2> QED
    BY <1>5, <2>1
<1>8. \A k \in 0..n : reach[k] \in V
  <2> DEFINE P == {k \in 0..n : reach[k] \in V}
  <2>1. 0 \in P
    BY <1>1, <1>6
  <2>2. ASSUME NEW k \in 1..n, k - 1 \in P
        PROVE  k \in P
    <3>1. k \in 0..n
      BY StepBefore
    <3> QED
      BY <1>1, <1>7, <2>2, <3>1
  <2> HIDE DEF P
  <2>3. \A k \in 0..n : k \in P
    BY <2>1, <2>2, CountingInduction
  <2> QED
    BY <2>3 DEF P
<1>9. reach \in [0..n -> V]
  BY <1>5, <1>8
<1>10. reach \in Growths(c, i, n)
  BY <1>6, <1>7, <1>9 DEF Growths, V
<1> QED
  BY <1>3, <1>10

LEMMA ComponentAgrees ==
  ASSUME NEW c \in Listings, NEW d \in Listings, NEW pi, Permuted(pi, c, d),
         NEW i \in DOMAIN c
  PROVE  /\ Component(c, i) \subseteq DOMAIN c
         /\ Component(d, pi[i]) = {pi[j] : j \in Component(c, i)}
<1> DEFINE n == Cardinality(Assessable(c))
<1>1. /\ pi \in [DOMAIN c -> DOMAIN d] /\ \A j \in DOMAIN c : d[pi[j]] = c[j]
      /\ \A j, k \in DOMAIN c : pi[j] = pi[k] => j = k
  BY DEF Permuted
<1>2. /\ Assessable(d) = {pi[j] : j \in Assessable(c)} /\ IsFiniteSet(Assessable(c))
      /\ Cardinality(Assessable(d)) = Cardinality(Assessable(c))
  BY AssessableAgrees
<1>3. Assessable(c) \subseteq DOMAIN c
  BY DEF Assessable
<1>4. n \in Nat /\ n = Cardinality(Assessable(c)) /\ n = Cardinality(Assessable(d))
  BY <1>2, FS_CardinalityType
<1> HIDE DEF n
<1>5. PICK f \in Growths(c, i, n) : Component(c, i) = f[n]
  BY <1>4, ComponentGrows
<1>6. PICK g \in Growths(d, pi[i], n) : Component(d, pi[i]) = g[n]
  <2>1. pi[i] \in DOMAIN d
    BY <1>1
  <2> QED
    BY <1>4, <2>1, ComponentGrows
<1>7. ASSUME NEW R \in SUBSET (DOMAIN c)
      PROVE  Grown(d, {pi[j] : j \in R}) = {pi[j] : j \in Grown(c, R)}
  <2>1. ASSUME NEW x \in Assessable(c)
        PROVE  pi[x] \in Grown(d, {pi[j] : j \in R}) <=> x \in Grown(c, R)
    <3>1. x \in DOMAIN c /\ pi[x] \in Assessable(d)
      BY <1>2, <1>3
    <3>2. \A k \in R : d[pi[k]] = c[k] /\ d[pi[x]] = c[x] /\ (pi[k] = pi[x] <=> k = x)
      BY <1>1, <3>1
    <3> QED
      BY <2>1, <3>1, <3>2 DEF Grown
  <2>2. Grown(d, {pi[j] : j \in R}) \subseteq Assessable(d) /\ Grown(c, R) \subseteq Assessable(c)
    BY DEF Grown
  <2> QED
    BY <1>2, <1>3, <2>1, <2>2
<1>8. \A k \in 0..n : g[k] = {pi[j] : j \in f[k]}
  <2> DEFINE P == {k \in 0..n : g[k] = {pi[j] : j \in f[k]}}
  <2>1. 0 \in P
    <3>1. f[0] = {i} /\ g[0] = {pi[i]}
      BY DEF Growths
    <3> QED
      BY <1>4, <3>1
  <2>2. ASSUME NEW k \in 1..n, k - 1 \in P
        PROVE  k \in P
    <3>1. k \in 0..n /\ k - 1 \in 0..n
      BY <1>4, StepBefore
    <3>2. f[k] = Grown(c, f[k - 1]) /\ g[k] = Grown(d, g[k - 1]) /\ f[k - 1] \in SUBSET (DOMAIN c)
      BY <3>1 DEF Growths
    <3>3. g[k - 1] = {pi[j] : j \in f[k - 1]}
      BY <2>2
    <3>4. g[k] = {pi[j] : j \in f[k]}
      BY <1>7, <3>2, <3>3
    <3> QED
      BY <3>1, <3>4
  <2> HIDE DEF P
  <2>3. \A k \in 0..n : k \in P
    BY <1>4, <2>1, <2>2, CountingInduction
  <2> QED
    BY <2>3 DEF P
<1>9. n \in 0..n
  BY <1>4
<1>10. f[n] \subseteq DOMAIN c
  BY <1>9 DEF Growths
<1> QED
  BY <1>5, <1>6, <1>8, <1>9, <1>10

LEMMA GroupsAgree ==
  ASSUME NEW c \in Listings, NEW d \in Listings, NEW pi, Permuted(pi, c, d),
         NEW i \in DOMAIN c
  PROVE  CorrelationGroup(d, pi[i]) = CorrelationGroup(c, i)
<1>1. /\ d[pi[i]] = c[i] /\ \A j \in DOMAIN c : d[pi[j]] = c[j]
      /\ (i \in Assessable(c) <=> pi[i] \in Assessable(d))
  BY AssessableAgrees DEF Permuted
<1>2. {d[j].id : j \in Component(d, pi[i])} = {c[j].id : j \in Component(c, i)}
  <2>1. /\ Component(c, i) \subseteq DOMAIN c
        /\ Component(d, pi[i]) = {pi[j] : j \in Component(c, i)}
    BY ComponentAgrees
  <2> QED
    BY <1>1, <2>1
<1>3. CASE i \in Assessable(c)
  BY <1>1, <1>2, <1>3 DEF CorrelationGroup
<1>4. CASE i \notin Assessable(c)
  BY <1>1, <1>4 DEF CorrelationGroup
<1> QED
  BY <1>3, <1>4

-----------------------------------------------------------------------------
(* H is the graph G over the permuted claims.                              *)
Mirrored(pi, G, H) ==
  /\ DOMAIN H = DOMAIN G /\ Live(H) = Live(G)
  /\ \A k \in DOMAIN G :
       /\ H[k].from = pi[G[k].from] /\ H[k].to = pi[G[k].to]
       /\ H[k].relation = G[k].relation /\ H[k].strength = G[k].strength

Grounds(c, G) == IsGraph(G) /\ Ends(G) \subseteq DOMAIN c

LEMMA DrawnMirrored ==
  ASSUME NEW c \in Listings, NEW d \in Listings, NEW pi, Permuted(pi, c, d),
         NEW raws, NEW G, NEW H, Drawn(c, raws, G), Drawn(d, raws, H)
  PROVE  Mirrored(pi, G, H) /\ Grounds(c, G) /\ Grounds(d, H)
<1>1. /\ \A j \in DOMAIN c : pi[j] \in DOMAIN d /\ d[pi[j]] = c[j]
      /\ \A i, j \in DOMAIN d : d[i].id = d[j].id => i = j
  BY ClaimsHaveHashes DEF Permuted
<1>2. DOMAIN H = DOMAIN G
  BY DEF Drawn
<1>3. ASSUME NEW k \in DOMAIN G
      PROVE  /\ H[k].from = pi[G[k].from] /\ H[k].to = pi[G[k].to]
             /\ H[k].relation = G[k].relation /\ H[k].strength = G[k].strength
  <2>1. /\ G[k].from \in DOMAIN c /\ c[G[k].from].id = raws[k].from
        /\ G[k].to \in DOMAIN c /\ c[G[k].to].id = raws[k].to
        /\ G[k].relation = raws[k].relation /\ G[k].strength = raws[k].strength
    BY DEF Drawn
  <2>2. /\ H[k].from \in DOMAIN d /\ d[H[k].from].id = raws[k].from
        /\ H[k].to \in DOMAIN d /\ d[H[k].to].id = raws[k].to
        /\ H[k].relation = raws[k].relation /\ H[k].strength = raws[k].strength
    BY <1>2 DEF Drawn
  <2>3. d[pi[G[k].from]].id = raws[k].from /\ d[pi[G[k].to]].id = raws[k].to
    BY <1>1, <2>1
  <2> QED
    BY <1>1, <2>1, <2>2, <2>3
<1>4. /\ Live(G) = {k \in DOMAIN G : Supportive(G[k])}
      /\ Live(H) = {k \in DOMAIN H : Supportive(H[k])}
      /\ Ends(G) \subseteq DOMAIN c /\ Ends(H) \subseteq DOMAIN d
  BY GeneratedIsLive
<1>5. Live(H) = Live(G)
  BY <1>2, <1>3, <1>4 DEF Supportive
<1> QED
  BY <1>2, <1>3, <1>4, <1>5 DEF Mirrored, Grounds, Drawn

(* What a claim is surrounded by is the same edges.                        *)
LEMMA SameSurroundings ==
  ASSUME NEW c \in Listings, NEW d \in Listings, NEW pi, Permuted(pi, c, d),
         NEW G, NEW H, Mirrored(pi, G, H), Grounds(c, G), NEW i \in DOMAIN c
  PROVE  /\ IncomingEdges(H, pi[i]) = IncomingEdges(G, i)
         /\ OutgoingEdges(H, pi[i]) = OutgoingEdges(G, i)
         /\ {k \in IncomingEdges(H, pi[i]) : Supportive(H[k])}
              = {k \in IncomingEdges(G, i) : Supportive(G[k])}
         /\ Contradicting(H, pi[i]) = Contradicting(G, i)
<1>1. \A j, k \in DOMAIN c : pi[j] = pi[k] => j = k
  BY DEF Permuted
<1>2. \A k \in DOMAIN G : G[k].from \in DOMAIN c /\ G[k].to \in DOMAIN c
  BY DEF Grounds, Ends
<1>3. IncomingEdges(H, pi[i]) = IncomingEdges(G, i) /\ OutgoingEdges(H, pi[i]) = OutgoingEdges(G, i)
  BY <1>1, <1>2 DEF Mirrored, IncomingEdges, OutgoingEdges
<1>4. \A k \in IncomingEdges(G, i) : /\ Supportive(H[k]) <=> Supportive(G[k])
                                     /\ H[k].relation = G[k].relation
  BY DEF Mirrored, IncomingEdges, Supportive
<1>5. /\ {k \in IncomingEdges(H, pi[i]) : Supportive(H[k])}
           = {k \in IncomingEdges(G, i) : Supportive(G[k])}
      /\ Contradicting(H, pi[i]) = Contradicting(G, i)
  BY <1>3, <1>4 DEF Contradicting
<1> QED
  BY <1>3, <1>5

(* Trust in the same claims at their permuted positions.                   *)
Mirrors(pi, c, d, t, u) ==
  /\ t \in [DOMAIN c -> Int] /\ u \in [DOMAIN d -> Int]
  /\ \A i \in DOMAIN c : u[pi[i]] = t[i]

LEMMA BaseMirrored ==
  ASSUME NEW c \in Listings, NEW d \in Listings, NEW pi, Permuted(pi, c, d),
         NEW G, NEW H, Mirrored(pi, G, H), Grounds(c, G), Grounds(d, H),
         NEW rep \in [Origins -> 0..Scale]
  PROVE  Mirrors(pi, c, d, BaseTrust(c, G, rep), BaseTrust(d, H, rep))
<1>1. Typed(c, G, rep) /\ Typed(d, H, rep)
  BY DEF Typed, Grounds, Listings
<1>2. Believed(c, G) = DOMAIN c /\ Believed(d, H) = DOMAIN d
  BY DEF Believed, Grounds
<1>3. /\ BaseTrust(c, G, rep) \in [DOMAIN c -> Int]
      /\ BaseTrust(d, H, rep) \in [DOMAIN d -> Int]
  BY <1>1, <1>2, BaseTyped
<1>4. ASSUME NEW i \in DOMAIN c
      PROVE  BaseTrust(d, H, rep)[pi[i]] = BaseTrust(c, G, rep)[i]
  <2>1. pi[i] \in DOMAIN d /\ d[pi[i]] = c[i]
    BY DEF Permuted
  <2> QED
    BY <2>1 DEF BaseTrust
<1> QED
  BY <1>3, <1>4 DEF Mirrors

LEMMA SameAuthor ==
  ASSUME NEW c, NEW d, NEW pi, Permuted(pi, c, d), NEW rep, NEW i \in DOMAIN c
  PROVE  AuthorRep(d, rep, pi[i]) = AuthorRep(c, rep, i)
BY DEF AuthorRep, Permuted

LEMMA SameShare ==
  ASSUME NEW c \in Listings, NEW d \in Listings, NEW pi, Permuted(pi, c, d),
         NEW G, NEW H, Mirrored(pi, G, H), Grounds(c, G), NEW k \in Live(G)
  PROVE  Share(H, Live(H), k) = Share(G, Live(G), k)
<1>1. k \in DOMAIN G /\ G[k].from \in DOMAIN c /\ Live(H) = Live(G)
  BY DEF Live, Grounds, Ends, Mirrored
<1>2. H[k].from = pi[G[k].from] /\ H[k].strength = G[k].strength
  BY <1>1 DEF Mirrored
<1> DEFINE K == Live(G) \cap OutgoingEdges(G, G[k].from)
<1>3. Live(H) \cap OutgoingEdges(H, H[k].from) = K
  BY <1>1, <1>2, SameSurroundings
<1>4. [l \in K |-> H[l].strength] = [l \in K |-> G[l].strength]
  <2>1. \A l \in K : H[l].strength = G[l].strength
    BY DEF OutgoingEdges, Mirrored
  <2> HIDE DEF K
  <2> QED
    BY <2>1
<1> DEFINE weights(F) == [l \in K |-> F[l].strength]
<1>5. /\ Share(H, Live(H), k) = (H[k].strength * Scale) \div AtLeast(SumFunction(weights(H)), 1)
      /\ Share(G, Live(G), k) = (G[k].strength * Scale) \div AtLeast(SumFunction(weights(G)), 1)
  BY <1>3 DEF Share, Total
<1>6. weights(H) = weights(G)
  BY <1>4
<1> HIDE DEF weights
<1> QED
  BY <1>2, <1>5, <1>6

LEMMA SameContribution ==
  ASSUME NEW c \in Listings, NEW d \in Listings, NEW pi, Permuted(pi, c, d),
         NEW G, NEW H, Mirrored(pi, G, H), Grounds(c, G), NEW k \in Live(G), NEW rep,
         NEW t, NEW u, Mirrors(pi, c, d, t, u)
  PROVE  Contribution(d, H, rep, Live(H), u, k) = Contribution(c, G, rep, Live(G), t, k)
<1>1. k \in DOMAIN G /\ G[k].from \in DOMAIN c
  BY DEF Live, Grounds, Ends
<1>2. H[k].from = pi[G[k].from]
  BY <1>1 DEF Mirrored
<1>3. u[H[k].from] = t[G[k].from]
  BY <1>1, <1>2 DEF Mirrors
<1>4. AuthorRep(d, rep, H[k].from) = AuthorRep(c, rep, G[k].from)
  BY <1>1, <1>2, SameAuthor
<1>5. Share(H, Live(H), k) = Share(G, Live(G), k)
  BY SameShare
<1> QED
  BY <1>3, <1>4, <1>5 DEF Contribution

LEMMA SupportMirrored ==
  ASSUME NEW c \in Listings, NEW d \in Listings, NEW pi, Permuted(pi, c, d),
         NEW G, NEW H, Mirrored(pi, G, H), Grounds(c, G), Grounds(d, H),
         NEW rep \in [Origins -> 0..Scale],
         NEW a, NEW b, Mirrors(pi, c, d, a, b),
         NEW t, NEW u, Mirrors(pi, c, d, t, u)
  PROVE  Mirrors(pi, c, d, Support(c, G, rep, Live(G), a, t), Support(d, H, rep, Live(H), b, u))
<1>1. Typed(c, G, rep) /\ Typed(d, H, rep)
  BY DEF Typed, Grounds, Listings
<1>2. Believed(c, G) = DOMAIN c /\ Believed(d, H) = DOMAIN d
  BY DEF Believed, Grounds
<1>3. /\ a \in [DOMAIN c -> Int] /\ t \in [DOMAIN c -> Int]
      /\ b \in [DOMAIN d -> Int] /\ u \in [DOMAIN d -> Int]
  BY DEF Mirrors
<1>4. /\ Support(c, G, rep, Live(G), a, t) \in [DOMAIN c -> Int]
      /\ Support(d, H, rep, Live(H), b, u) \in [DOMAIN d -> Int]
  BY <1>1, <1>2, <1>3, SupportTyped
<1>5. ASSUME NEW i \in DOMAIN c
      PROVE  Support(d, H, rep, Live(H), b, u)[pi[i]] = Support(c, G, rep, Live(G), a, t)[i]
  <2> DEFINE K == Live(G) \cap IncomingEdges(G, i)
             group(e, F, k) == IF F[k].from \in DOMAIN e THEN CorrelationGroup(e, F[k].from)
                               ELSE [key |-> <<"none">>, assessed |-> FALSE]
             name(e, F, k) == IF F[k].from \in DOMAIN e THEN e[F[k].from].id ELSE <<>>
             evidence(e, F, v, k) ==
               [at |-> k, lo |-> Contribution(e, F, rep, Live(F), v, k),
                id |-> name(e, F, k), group |-> group(e, F, k)]
  <2>1. pi[i] \in DOMAIN d /\ b[pi[i]] = a[i] /\ Live(H) \cap IncomingEdges(H, pi[i]) = K
    <3>1. pi[i] \in DOMAIN d /\ b[pi[i]] = a[i] /\ Live(H) = Live(G)
      BY DEF Permuted, Mirrors, Mirrored
    <3>2. IncomingEdges(H, pi[i]) = IncomingEdges(G, i)
      BY SameSurroundings
    <3> QED
      BY <3>1, <3>2
  <2>2. ASSUME NEW k \in K
        PROVE  evidence(d, H, u, k) = evidence(c, G, t, k)
    <3>1. k \in DOMAIN G /\ G[k].from \in DOMAIN c
      BY DEF Live, Grounds, Ends
    <3>2. H[k].from = pi[G[k].from] /\ H[k].from \in DOMAIN d /\ d[H[k].from] = c[G[k].from]
      BY <3>1 DEF Mirrored, Permuted
    <3>3. name(d, H, k) = name(c, G, k)
      BY <3>1, <3>2
    <3>4. group(d, H, k) = group(c, G, k)
      BY <3>1, <3>2, GroupsAgree
    <3>5. Contribution(d, H, rep, Live(H), u, k) = Contribution(c, G, rep, Live(G), t, k)
      BY SameContribution
    <3> HIDE DEF name, group
    <3> QED
      BY <3>3, <3>4, <3>5
  <2>3. /\ Incoming(d, H, rep, Live(H), u, pi[i]) = {evidence(d, H, u, k) : k \in K}
        /\ Incoming(c, G, rep, Live(G), t, i) = {evidence(c, G, t, k) : k \in K}
    BY <2>1 DEF Incoming
  <2> HIDE DEF evidence, K
  <2>4. Incoming(d, H, rep, Live(H), u, pi[i]) = Incoming(c, G, rep, Live(G), t, i)
    BY <2>2, <2>3
  <2>5. pi[i] \in DOMAIN b /\ i \in DOMAIN a
    BY <1>3, <2>1
  <2> QED
    BY <2>1, <2>4, <2>5 DEF Support, K
<1> QED
  BY <1>4, <1>5 DEF Mirrors

-----------------------------------------------------------------------------
(* Round by round, and contradiction by contradiction.                     *)
LEMMA SameChange ==
  ASSUME NEW c, NEW d, NEW pi, Permuted(pi, c, d),
         NEW t, NEW u, Mirrors(pi, c, d, t, u), NEW v, NEW w, Mirrors(pi, c, d, v, w)
  PROVE  (v # t) = (w # u)
<1>1. /\ t \in [DOMAIN c -> Int] /\ v \in [DOMAIN c -> Int]
      /\ u \in [DOMAIN d -> Int] /\ w \in [DOMAIN d -> Int]
      /\ \A i \in DOMAIN c : u[pi[i]] = t[i] /\ w[pi[i]] = v[i] /\ pi[i] \in DOMAIN d
      /\ \A j \in DOMAIN d : \E i \in DOMAIN c : pi[i] = j
  BY DEF Mirrors, Permuted
<1>2. v = t => w = u
  <2>1. SUFFICES ASSUME v = t, NEW j \in DOMAIN d PROVE w[j] = u[j]
    BY <1>1
  <2>2. PICK i \in DOMAIN c : pi[i] = j
    BY <1>1
  <2> QED
    BY <1>1, <2>1, <2>2
<1>3. w = u => v = t
  <2>1. SUFFICES ASSUME w = u, NEW i \in DOMAIN c PROVE v[i] = t[i]
    BY <1>1
  <2> QED
    BY <1>1, <2>1
<1> QED
  BY <1>2, <1>3

LEMMA StabilizedMirrored ==
  ASSUME NEW c \in Listings, NEW d \in Listings, NEW pi, Permuted(pi, c, d),
         NEW G, NEW H, Mirrored(pi, G, H), Grounds(c, G), Grounds(d, H),
         NEW rep \in [Origins -> 0..Scale]
  PROVE  Mirrors(pi, c, d, Stabilized(c, G, rep), Stabilized(d, H, rep))
<1> DEFINE M == MaxIterations
           a == BaseTrust(c, G, rep)
           b == BaseTrust(d, H, rep)
           next(t) == Support(c, G, rep, Live(G), a, t)
           other(u) == Support(d, H, rep, Live(H), b, u)
           Same(x, y) == Mirrors(pi, c, d, x.trust, y.trust) /\ x.changed = y.changed
<1>1. Typed(c, G, rep) /\ Typed(d, H, rep) /\ M \in Nat
  BY TopologyAssumption DEF Typed, Grounds, Listings
<1>2. PICK f \in TrustRounds(c, G, rep) : Stabilized(c, G, rep) = f[M].trust
  BY <1>1, RoundsExist
<1>3. PICK g \in TrustRounds(d, H, rep) : Stabilized(d, H, rep) = g[M].trust
  BY <1>1, RoundsExist
<1>4. Mirrors(pi, c, d, a, b)
  BY BaseMirrored
<1>5. ASSUME NEW t, NEW u, Mirrors(pi, c, d, t, u)
      PROVE  Mirrors(pi, c, d, next(t), other(u))
  <2> HIDE DEF a, b
  <2> QED
    BY <1>4, <1>5, SupportMirrored
<1>6. f[0] = [trust |-> a, changed |-> TRUE] /\ g[0] = [trust |-> b, changed |-> TRUE]
  BY DEF TrustRounds
<1>7. ASSUME NEW n \in 1..M
      PROVE  /\ f[n - 1].changed => /\ f[n].trust = next(f[n - 1].trust)
                                    /\ f[n].changed = (next(f[n - 1].trust) # f[n - 1].trust)
             /\ ~f[n - 1].changed => f[n] = f[n - 1]
             /\ g[n - 1].changed => /\ g[n].trust = other(g[n - 1].trust)
                                    /\ g[n].changed = (other(g[n - 1].trust) # g[n - 1].trust)
             /\ ~g[n - 1].changed => g[n] = g[n - 1]
  <2>1. f[n] = IF f[n - 1].changed
               THEN [trust |-> next(f[n - 1].trust),
                     changed |-> next(f[n - 1].trust) # f[n - 1].trust]
               ELSE f[n - 1]
    BY DEF TrustRounds
  <2>2. g[n] = IF g[n - 1].changed
               THEN [trust |-> other(g[n - 1].trust),
                     changed |-> other(g[n - 1].trust) # g[n - 1].trust]
               ELSE g[n - 1]
    BY DEF TrustRounds
  <2> HIDE DEF next, other
  <2> QED
    BY <2>1, <2>2
<1> HIDE DEF next, other, a, b
<1>8. \A n \in 0..M : n \in {k \in 0..M : Same(f[k], g[k])}
  <2> DEFINE P == {k \in 0..M : Same(f[k], g[k])}
  <2>1. 0 \in P
    <3>1. f[0].trust = a /\ g[0].trust = b /\ f[0].changed = TRUE /\ g[0].changed = TRUE
      BY <1>6
    <3>2. Same(f[0], g[0])
      BY <1>4, <3>1, Zenon
    <3> QED
      BY <1>1, <3>2
  <2>2. ASSUME NEW n \in 1..M, n - 1 \in P
        PROVE  n \in P
    <3>1. n \in 0..M
      BY <1>1, StepBefore
    <3>2. Mirrors(pi, c, d, f[n - 1].trust, g[n - 1].trust) /\ f[n - 1].changed = g[n - 1].changed
      BY <2>2
    <3>3. CASE f[n - 1].changed
      <4>1. Mirrors(pi, c, d, next(f[n - 1].trust), other(g[n - 1].trust))
        BY <1>5, <3>2
      <4>2. (next(f[n - 1].trust) # f[n - 1].trust) = (other(g[n - 1].trust) # g[n - 1].trust)
        BY <3>2, <4>1, SameChange
      <4>3. Same(f[n], g[n])
        <5>1. /\ f[n].trust = next(f[n - 1].trust) /\ g[n].trust = other(g[n - 1].trust)
              /\ f[n].changed = (next(f[n - 1].trust) # f[n - 1].trust)
              /\ g[n].changed = (other(g[n - 1].trust) # g[n - 1].trust)
          BY <1>7, <3>2, <3>3, Zenon
        <5> QED
          BY <4>1, <4>2, <5>1, Zenon
      <4> QED
        BY <3>1, <4>3
    <3>4. CASE ~f[n - 1].changed
      <4>1. f[n] = f[n - 1] /\ g[n] = g[n - 1]
        BY <1>7, <3>2, <3>4
      <4>2. Same(f[n], g[n])
        BY <3>2, <4>1
      <4> QED
        BY <3>1, <4>2
    <3> QED
      BY <3>3, <3>4
  <2> HIDE DEF P
  <2>3. \A n \in 0..M : n \in P
    BY <1>1, <2>1, <2>2, CountingInduction
  <2> QED
    BY <2>3 DEF P
<1>9. M \in 0..M
  BY <1>1
<1> QED
  BY <1>2, <1>3, <1>8, <1>9

LEMMA SameDamping ==
  ASSUME NEW c \in Listings, NEW d \in Listings, NEW pi, Permuted(pi, c, d),
         NEW G, NEW H, Mirrored(pi, G, H), Grounds(c, G), NEW i \in DOMAIN c,
         NEW t, NEW u, Mirrors(pi, c, d, t, u)
  PROVE  DynamicAlpha(H, u, pi[i]) = DynamicAlpha(G, t, i)
<1> DEFINE for == {k \in IncomingEdges(G, i) : Supportive(G[k])}
           against == Contradicting(G, i)
           voice(F, v, S) == [k \in S |-> Voiced(v[F[k].from])]
           pro(F, v) == SumFunction(voice(F, v, for))
           contra(F, v) == SumFunction(voice(F, v, against))
           alpha(F, v) ==
             AtMost((contra(F, v) * Scale) \div (pro(F, v) + contra(F, v) + 1), DampingBps)
<1>1. /\ {k \in IncomingEdges(H, pi[i]) : Supportive(H[k])} = for
      /\ Contradicting(H, pi[i]) = against
  BY SameSurroundings
<1>2. \A k \in DOMAIN G : u[H[k].from] = t[G[k].from]
  BY DEF Mirrored, Mirrors, Grounds, Ends
<1>3. ASSUME NEW S \in SUBSET (DOMAIN G)
      PROVE  voice(H, u, S) = voice(G, t, S)
  BY <1>2
<1>4. for \in SUBSET (DOMAIN G) /\ against \in SUBSET (DOMAIN G)
  BY DEF IncomingEdges, Contradicting
<1>5. DynamicAlpha(H, u, pi[i]) = alpha(H, u) /\ DynamicAlpha(G, t, i) = alpha(G, t)
  BY <1>1 DEF DynamicAlpha, Total
<1> HIDE DEF voice, for, against
<1>6. pro(H, u) = pro(G, t) /\ contra(H, u) = contra(G, t)
  BY <1>3, <1>4
<1> HIDE DEF pro, contra
<1> QED
  BY <1>5, <1>6

LEMMA SamePenalty ==
  ASSUME NEW c \in Listings, NEW d \in Listings, NEW pi, Permuted(pi, c, d),
         NEW G, NEW H, Mirrored(pi, G, H), Grounds(c, G), NEW k \in DOMAIN G, NEW rep,
         NEW t, NEW u, Mirrors(pi, c, d, t, u)
  PROVE  Penalty(d, H, rep, u, k) = Penalty(c, G, rep, t, k)
<1>1. G[k].from \in DOMAIN c /\ G[k].to \in DOMAIN c
  BY DEF Grounds, Ends
<1>2. H[k].from = pi[G[k].from] /\ H[k].to = pi[G[k].to] /\ H[k].strength = G[k].strength
  BY DEF Mirrored
<1>3. u[H[k].from] = t[G[k].from] /\ u[H[k].to] = t[G[k].to]
  BY <1>1, <1>2 DEF Mirrors
<1>4. AuthorRep(d, rep, H[k].from) = AuthorRep(c, rep, G[k].from)
  BY <1>1, <1>2, SameAuthor
<1>5. DynamicAlpha(H, u, H[k].to) = DynamicAlpha(G, t, G[k].to)
  BY <1>1, <1>2, SameDamping
<1> QED
  BY <1>2, <1>3, <1>4, <1>5 DEF Penalty

LEMMA VerdictsAgree ==
  ASSUME NEW c \in Listings, NEW d \in Listings, NEW pi, Permuted(pi, c, d),
         NEW G, NEW H, Mirrored(pi, G, H), Grounds(c, G), Grounds(d, H),
         NEW rep \in [Origins -> 0..Scale], NEW i \in DOMAIN c
  PROVE  Compute(d, H, rep)[pi[i]] = Compute(c, G, rep)[i]
<1> DEFINE t == Stabilized(c, G, rep)
           u == Stabilized(d, H, rep)
           C == Contradicting(G, i)
           penalty(e, F, v) == [k \in C |-> Penalty(e, F, rep, v, k)]
           left(e, F, v, j) == v[j] - CappedPenalty(v[j], SumFunction(penalty(e, F, v)))
<1>1. Mirrors(pi, c, d, t, u)
  BY StabilizedMirrored
<1> HIDE DEF t, u
<1>2. /\ pi[i] \in DOMAIN d /\ u[pi[i]] = t[i] /\ DOMAIN t = DOMAIN c /\ DOMAIN u = DOMAIN d
  BY <1>1 DEF Permuted, Mirrors
<1>3. Contradicting(H, pi[i]) = C
  BY SameSurroundings
<1>4. \A k \in C : k \in DOMAIN G
  BY DEF Contradicting, IncomingEdges
<1>5. penalty(d, H, u) = penalty(c, G, t)
  <2>1. \A k \in C : Penalty(d, H, rep, u, k) = Penalty(c, G, rep, t, k)
    BY <1>1, <1>4, SamePenalty
  <2> HIDE DEF C
  <2> QED
    BY <2>1
<1>6. /\ PropagateTrust(d, H, rep)[pi[i]] = left(d, H, u, pi[i])
      /\ PropagateTrust(c, G, rep)[i] = left(c, G, t, i)
  BY <1>2, <1>3 DEF PropagateTrust, Contradicted, Total, t, u
<1> HIDE DEF penalty
<1>7. PropagateTrust(d, H, rep)[pi[i]] = PropagateTrust(c, G, rep)[i]
  BY <1>2, <1>5, <1>6
<1> QED
  BY <1>2, <1>7 DEF Compute

LEMMA BeliefsAgree ==
  ASSUME NEW c \in Listings, NEW d \in Listings, NEW pi, Permuted(pi, c, d),
         NEW G, NEW H, Mirrored(pi, G, H), Grounds(c, G), Grounds(d, H),
         NEW rep \in [Origins -> 0..Scale]
  PROVE  Beliefs(c, G, rep) = Beliefs(d, H, rep)
<1> DEFINE x == Compute(c, G, rep)
           y == Compute(d, H, rep)
<1>1. \A i \in DOMAIN c : pi[i] \in DOMAIN d /\ d[pi[i]] = c[i]
  BY DEF Permuted
<1>2. \A j \in DOMAIN d : \E i \in DOMAIN c : pi[i] = j
  BY DEF Permuted
<1>3. \A i \in DOMAIN c : y[pi[i]] = x[i]
  BY VerdictsAgree
<1> HIDE DEF x, y
<1>4. \A i \in DOMAIN c : <<c[i].id, x[i]>> \in ByClaim(d, y)
  BY <1>1, <1>3 DEF ByClaim
<1>5. \A j \in DOMAIN d : <<d[j].id, y[j]>> \in ByClaim(c, x)
  <2>1. SUFFICES ASSUME NEW j \in DOMAIN d PROVE <<d[j].id, y[j]>> \in ByClaim(c, x)
    OBVIOUS
  <2>2. PICK i \in DOMAIN c : pi[i] = j
    BY <1>2
  <2> QED
    BY <1>1, <1>3, <2>2 DEF ByClaim
<1>6. ByClaim(c, x) = ByClaim(d, y)
  BY <1>4, <1>5 DEF ByClaim
<1> QED
  BY <1>6 DEF Beliefs, x, y

LEMMA TopologyAgrees ==
  ASSUME NEW c \in Listings, NEW d \in Listings, Contents(c) = Contents(d),
         NEW rep \in [Origins -> 0..Scale]
  PROVE  /\ GenerateEdges(c) = GenerateEdges(d)
         /\ GeneratedBeliefs(c, rep) = GeneratedBeliefs(d, rep)
<1> DEFINE raws == GenerateEdges(c)
           G == BuildFromClaims(c, raws)
           H == BuildFromClaims(d, raws)
<1>1. PICK pi : Permuted(pi, c, d)
  BY PermutationExists
<1>2. raws = GenerateEdges(d)
  BY <1>1, GeneratedAgrees
<1>3. raws \in Seq(RawEdges(c)) /\ RawEdges(c) = RawEdges(d)
  BY GeneratedTyped DEF RawEdges, Pairs
<1> HIDE DEF raws
<1>4. Drawn(c, raws, G) /\ Drawn(d, raws, H)
  BY <1>3, BuiltAsDrawn
<1> HIDE DEF G, H
<1>5. Mirrored(pi, G, H) /\ Grounds(c, G) /\ Grounds(d, H)
  BY <1>1, <1>4, DrawnMirrored
<1>6. Beliefs(c, G, rep) = Beliefs(d, H, rep)
  BY <1>1, <1>5, BeliefsAgree
<1> QED
  BY <1>2, <1>6 DEF GeneratedBeliefs, raws, G, H

(* insider_asymmetry.rs, "Two nodes holding the same claim SET in different*)
(* sequences must derive the same belief": with generate_edges,            *)
(* build_from_claims and compute one after the other, for any number of    *)
(* claims, embeddings and rounds, and although arena ids, groups and the   *)
(* search for cycles all go by positions in the node's own list.           *)
THEOREM TopologyIsCommutative == Spec => []SameClaimsSameTopology
<1>1. ASSUME NodesTyped, NEW n \in Nodes, NEW m \in Nodes, Held(n) = Held(m)
      PROVE  /\ GenerateEdges(node[n].claims) = GenerateEdges(node[m].claims)
             /\ GeneratedBeliefs(node[n].claims, Voices(n)) = GeneratedBeliefs(node[m].claims, Voices(n))
  <2>1. /\ node[n].claims \in Listings /\ node[m].claims \in Listings
        /\ Voices(n) \in [Origins -> 0..Scale]
    BY <1>1, NodeTyped DEF Locals, Ordered, Listings, NoRepeats, Voices
  <2>2. Contents(node[n].claims) = Contents(node[m].claims)
    BY <1>1 DEF Held, Contents
  <2> QED
    BY <2>1, <2>2, TopologyAgrees
<1>2. NodesTyped => SameClaimsSameTopology
  BY <1>1 DEF SameClaimsSameTopology
<1> QED
  BY <1>2, AlwaysTyped, PTL
=============================================================================
