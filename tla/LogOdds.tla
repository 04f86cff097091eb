------------------------------- MODULE LogOdds -------------------------------
(***************************************************************************)
(* Confidence as milli-log-odds and its aggregation (epistemic.rs): sums   *)
(* in place of Bayesian products, discounted by rank within a group of     *)
(* correlated evidence and again across groups whose independence nobody   *)
(* could check.  Integer arithmetic throughout.                            *)
(*                                                                         *)
(* A piece of evidence is a record [at, lo, group, id]: where it stands in *)
(* the list of evidence, its log-odds, the correlation group [key,         *)
(* assessed] and the hash of its claim.  A hash is the tuple of what it is *)
(* computed from: all the code does with hashes is to compare them.        *)
(***************************************************************************)
EXTENDS Integers, FiniteSets, Sequences, FiniteSetsExt

CONSTANTS
  Scale,          \* 10000 basis points
  SafeMax,        \* LogOdds::SAFE_MAX, and SAFE_MIN is its negative
  MaxDeclared,    \* LogOdds::MAX_DECLARED, and MIN_DECLARED is its negative
  DiscountBps,    \* DEFAULT_DISCOUNT_BPS
  UnassessedBps,  \* UNASSESSED_DISCOUNT_BPS
  MaxDepth        \* MAX_DISCOUNT_DEPTH

ASSUME ScaleAssumption    == Scale \in Nat \ {0}
ASSUME DiscountAssumption == DiscountBps \in 0..Scale /\ UnassessedBps \in 0..Scale
ASSUME RangeAssumption    == SafeMax \in Nat /\ MaxDeclared \in 0..SafeMax /\ MaxDepth \in Nat

AtMost(a, b)  == IF a <= b THEN a ELSE b
AtLeast(a, b) == IF a >= b THEN a ELSE b
Abs(a)        == AtLeast(a, -a)

(* Rust's integer division rounds towards zero, \div downwards.            *)
Quot(a, b) == IF a >= 0 THEN a \div b ELSE -((-a) \div b)

(* The order of hashes.                                                    *)
Below(a, b) ==
  \E k \in DOMAIN b : /\ k <= Len(a) + 1
                      /\ SubSeq(a, 1, k - 1) = SubSeq(b, 1, k - 1)
                      /\ k = Len(a) + 1 \/ a[k] < b[k]

Least(H) == CHOOSE h \in H : \A g \in H \ {h} : Below(h, g)

(* Of(x) summed over the finite set S.                                     *)
Total(Of(_), S) == SumFunction([x \in S |-> Of(x)])

Clamp(x, bound) == AtLeast(-bound, AtMost(x, bound))

(* clamp_declared                                                          *)
Declared(lo) == Clamp(lo, MaxDeclared)

(* update: posterior = prior + evidence.                                   *)
Updated(lo, evidence) == Clamp(lo + evidence, SafeMax)

(* Reputation::weight_evidence                                             *)
Weighted(rep, lo) == Quot(lo * rep, Scale)

(* aggregate.  An i64 cannot overflow with fewer than 2^32 terms, so that  *)
(* its saturation is left out.                                             *)
Aggregate(E) == Clamp(Total(LAMBDA e : e.lo, E), SafeMax)

-----------------------------------------------------------------------------
(* discount_factor: bps to the power of the rank, cut at MaxDepth.         *)
DiscountFactor(rank, bps) ==
  LET factor[r \in 0..MaxDepth] ==
        IF r = 0 THEN Scale ELSE (factor[r - 1] * bps) \div Scale
  IN  factor[AtMost(rank, MaxDepth)]

(* The claims of a group, strongest first, then by id; the sort is stable. *)
Stronger(e, f) ==
  \/ Abs(e.lo) > Abs(f.lo)
  \/ Abs(e.lo) = Abs(f.lo) /\ Below(e.id, f.id)
  \/ Abs(e.lo) = Abs(f.lo) /\ e.id = f.id /\ e.at < f.at

Discounted(E, bps) ==
  Total(LAMBDA e : Quot(e.lo * DiscountFactor(Cardinality({f \in E : Stronger(f, e)}), bps), Scale),
        E)

(* aggregate_hierarchical.  Level 1 is the discount within each group.  At *)
(* level 2, groups of which every member was assessed add up; the others   *)
(* are ranked by total, then by smallest id, discounted, and cut off.      *)
GroupSums(E) ==
  {LET members == {e \in E : e.group.key = key} IN
   [key |-> key,
    total |-> Discounted(members, DiscountBps),
    assessed |-> \A e \in members : e.group.assessed,
    anchor |-> Least({e.id : e \in members})] : key \in {e.group.key : e \in E}}

Outranks(g, h) ==
  \/ Abs(g.total) > Abs(h.total)
  \/ Abs(g.total) = Abs(h.total) /\ Below(g.anchor, h.anchor)

GroupShare(groups, g) ==
  LET rank == Cardinality({h \in groups : ~h.assessed /\ Outranks(h, g)}) IN
  IF g.assessed THEN g.total
  ELSE IF rank >= MaxDepth THEN 0
  ELSE Quot(g.total * DiscountFactor(rank, UnassessedBps), Scale)

AggregateHierarchical(E) ==
  LET groups == GroupSums(E) IN
  Clamp(Total(LAMBDA g : GroupShare(groups, g), groups), SafeMax)
=============================================================================
