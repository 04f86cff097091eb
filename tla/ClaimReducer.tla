---------------------------- MODULE ClaimReducer ----------------------------
(***************************************************************************)
(* Correlation groups of a list of claims, and ExactMatchReducer, which    *)
(* turns the claims of one bucket into a Summary (epistemic.rs).           *)
(*                                                                         *)
(* A claim is a record                                                     *)
(*   id          its hash            fp         <<primary, secondary>>     *)
(*   origin      its author          kind       "observation", "summary"   *)
(*   confidence  milli-log-odds                 or another                 *)
(*   source      evidence_source     tick       Lamport time               *)
(*   cell        {} or {a cell}      embedding  {} or {a set of bits}      *)
(*   version     embedding_version   data       what was observed          *)
(* and, when it is a summary, also window, the ticks it spans.  An Option  *)
(* is a set of at most one element.                                        *)
(***************************************************************************)
EXTENDS LogOdds, SequencesExt

CONSTANT SupportBits  \* DEFAULT_SUPPORT_THRESHOLD

ASSUME SupportAssumption == SupportBits \in Nat

(* QuantizedEmbedding::hamming_distance                                    *)
HammingDistance(a, b) == Cardinality((a \ b) \cup (b \ a))

Carried(c) == c.embedding # {}

(* Contents declared with more than one embedding.                         *)
Inconsistent(claims) ==
  {claims[i].fp[1] : i \in {k \in DOMAIN claims :
     /\ Carried(claims[k])
     /\ \E j \in DOMAIN claims : /\ Carried(claims[j])
                                 /\ claims[j].fp[1] = claims[k].fp[1]
                                 /\ claims[j].embedding # claims[k].embedding}}

Assessable(claims) ==
  {i \in DOMAIN claims : Carried(claims[i]) /\ claims[i].fp[1] \notin Inconsistent(claims)}

Near(c, d) ==
  \E e \in c.embedding, f \in d.embedding : HammingDistance(e, f) <= SupportBits

(* The union-find component of claim i: what is reached over near claims.  *)
Component(claims, i) ==
  LET A == Assessable(claims)
      reach[n \in 0..Cardinality(A)] ==
        IF n = 0 THEN {i}
        ELSE {j \in A : \E k \in reach[n - 1] : k = j \/ Near(claims[k], claims[j])}
  IN  reach[Cardinality(A)]

(* effective_correlation_cell: the declared cell, else the author.         *)
EffectiveCell(c) == IF c.cell # {} THEN <<"declared", c.cell>> ELSE <<"origin", c.origin>>

(* correlation_groups.  A component is named by its smallest hash.         *)
CorrelationGroup(claims, i) ==
  IF i \in Assessable(claims)
  THEN [key |-> <<"cluster", Least({claims[j].id : j \in Component(claims, i)})>>,
        assessed |-> TRUE]
  ELSE [key |-> EffectiveCell(claims[i]), assessed |-> FALSE]

-----------------------------------------------------------------------------
(* A list rearranged: ahead has, for every position that stays, the        *)
(* positions that go before it.  (\o makes TLC evaluate the list only once.)*)
Arranged(list, ahead) ==
  [k \in 1..Cardinality(DOMAIN ahead) |->
     list[CHOOSE i \in DOMAIN ahead : Cardinality(ahead[i]) = k - 1]] \o <<>>

(* What stands at the positions I, as it came.  In the place of ByHash it  *)
(* is a bug to catch: the claims stay in the order of arrival.             *)
Kept(list, I) == Arranged(list, [i \in I |-> {j \in I : j < i}])

(* sort_by_key(id), which is stable, of what stands at the positions I.    *)
Precedes(list, j, i) ==
  \/ Below(list[j].id, list[i].id)
  \/ list[j].id = list[i].id /\ j < i

ByHash(list, I) == Arranged(list, [i \in I |-> {j \in I : Precedes(list, j, i)}])

(* dedup_by_key(id): of claims with the same hash, the first.              *)
Firsts(claims) ==
  {i \in DOMAIN claims : \A j \in DOMAIN claims : j < i => claims[j].id # claims[i].id}

Canonical(claims) == ByHash(claims, Firsts(claims))

(* can_reduce                                                              *)
CanReduce(claims) ==
  Len(claims) >= 2 /\ \A i \in DOMAIN claims : claims[i].fp = claims[1].fp

Reducible(c) == c.kind \in {"observation", "summary"}

(* Of the authors with a voice, the first claim of each evidence source.   *)
Counted(sorted, voices) ==
  LET heard == {i \in DOMAIN sorted : sorted[i].origin \in voices}
  IN  {i \in heard : \A j \in heard : j < i => sorted[j].source # sorted[i].source}

Variance(E, aggregated) ==
  LET n == Cardinality(E)
      mean == Quot(aggregated, n)
  IN  IF n > 1 THEN Total(LAMBDA e : (e.lo - mean) * (e.lo - mean), E) \div n ELSE 0

(* The summary of the evidence E.  source_count is the length of the list  *)
(* as it came; the window spans all of its claims.                         *)
Summarised(claims, sorted, E, aggregated, data) ==
  LET ticks == {sorted[i].tick : i \in DOMAIN sorted}
      window == <<Min(ticks), Max(ticks)>>
      cell == sorted[1].cell
      variance == Variance(E, aggregated)
      hash == <<sorted[1].fp[1], Cardinality(E), window[1], window[2], aggregated, variance>>
              \o (IF cell = {} THEN <<>> ELSE <<CHOOSE c \in cell : TRUE>>)
      seen == {e.lo : e \in E}
  IN  [id |-> hash, fp |-> sorted[1].fp, origin |-> "none", kind |-> "summary",
       confidence |-> aggregated, source |-> hash, tick |-> window[2], cell |-> cell,
       embedding |-> {}, version |-> 0, data |-> data, window |-> window,
       sourceCount |-> Len(claims), uniqueSources |-> Cardinality(E),
       variance |-> variance, range |-> <<Min(seen), Max(seen)>>]

(* reduce_with_reputation_correlated                                       *)
ReduceWithReputation(claims, rep) ==
  LET sorted == Canonical(claims)
      E == {[at |-> i, id |-> sorted[i].id, group |-> CorrelationGroup(sorted, i),
             lo |-> Weighted(rep[sorted[i].origin], Declared(sorted[i].confidence))] :
            i \in Counted(sorted, {o \in DOMAIN rep : rep[o] # 0})}
  IN  IF CanReduce(claims) /\ Reducible(sorted[1]) /\ E # {}
      THEN {Summarised(claims, sorted, E, AggregateHierarchical(E), sorted[1].data)}
      ELSE {}

(* Among summaries, the data of the widest, then most confident, then last.*)
BestData(sorted) ==
  LET summaries == {i \in DOMAIN sorted : sorted[i].kind = "summary"}
      width(i) == sorted[i].window[2] - sorted[i].window[1]
      best == CHOOSE i \in summaries : \A j \in summaries \ {i} :
                \/ width(i) > width(j)
                \/ width(i) = width(j) /\ sorted[i].confidence > sorted[j].confidence
                \/ width(i) = width(j) /\ sorted[i].confidence = sorted[j].confidence /\ i > j
  IN  IF sorted[1].kind = "summary" THEN sorted[best].data ELSE sorted[1].data

(* reduce, of the trait: no reputation, no discount.                       *)
Reduce(claims) ==
  LET sorted == Canonical(claims)
      E == {[at |-> i, id |-> sorted[i].id, lo |-> Declared(sorted[i].confidence)] :
            i \in Counted(sorted, {c.origin : c \in Range(sorted)})}
  IN  IF CanReduce(claims) /\ Reducible(sorted[1])
      THEN {Summarised(claims, sorted, E, Aggregate(E), BestData(sorted))}
      ELSE {}

(* reduce_epoch_aligned: one bucket per grid window and cell, in the order *)
(* of the list; each of them is reduced by itself.                         *)
Bucket(c, grid) == <<c.tick \div grid, c.cell>>

EpochAligned(claims, grid) ==
  IF grid = 0 \/ Len(claims) < 2 THEN {}
  ELSE {Kept(claims, {i \in DOMAIN claims : Bucket(claims[i], grid) = key}) :
        key \in {Bucket(c, grid) : c \in Range(claims)}}
=============================================================================
