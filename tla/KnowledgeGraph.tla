--------------------------- MODULE KnowledgeGraph ---------------------------
(***************************************************************************)
(* The graph over a node's claims and the beliefs drawn from it            *)
(* (epistemic.rs: KnowledgeGraph, LogOddsBeliefEngine; semantic_topology.rs*)
(* for the edges generated from embeddings).                               *)
(*                                                                         *)
(* A graph G is a sequence of edges [from, to, relation, strength]; from   *)
(* and to are arena ids, that is, positions in the node's list of claims,  *)
(* counted from 1 here.  Nothing keeps them within the list.               *)
(***************************************************************************)
EXTENDS ClaimReducer

CONSTANTS
  Width,             \* bits of an embedding
  ContradictBits,    \* contradict_threshold_bits
  MaxNearest,        \* max_k_nearest
  FloorStrength,     \* the weakest generated edge, in basis points
  MaxIterations,     \* of the propagation in LogOddsBeliefEngine::compute
  DampingBps,        \* max_contradiction_damping_bps
  Threshold          \* accept_threshold; reject_threshold is its negative

ASSUME TopologyAssumption ==
  /\ {Width, ContradictBits, MaxNearest, MaxIterations, Threshold} \subseteq Nat
  /\ FloorStrength \in 0..Scale /\ DampingBps \in 0..Scale

Supportive(e) == e.relation \in {"supports", "derived"}

-----------------------------------------------------------------------------
(* generate_edges: the claims with an embedding in id order, each pair     *)
(* once, both ends of every edge counted against their cap.                *)
Embedded(claims) == {i \in DOMAIN claims : Carried(claims[i])}

Distance(c, d) == CHOOSE n \in 0..Width :
  \E e \in c.embedding, f \in d.embedding : HammingDistance(e, f) = n

Related(c, d) ==
  IF Distance(c, d) <= SupportBits THEN {"supports"}
  ELSE IF Distance(c, d) >= ContradictBits THEN {"contradicts"} ELSE {}

(* From Scale at the end of the range down to FloorStrength at the         *)
(* threshold.                                                              *)
Strength(c, d) ==
  LET slope == Scale - FloorStrength
      above == Distance(c, d) - ContradictBits
      raw == IF Distance(c, d) <= SupportBits
             THEN Scale - (Distance(c, d) * slope) \div AtLeast(SupportBits, 1)
             ELSE FloorStrength + (above * slope) \div AtLeast(Width - ContradictBits, 1)
  IN  AtLeast(FloorStrength, AtMost(raw, Scale))

Degree(raws, id) ==
  Cardinality({k \in DOMAIN raws : raws[k].from = id}) + Cardinality({k \in DOMAIN raws : raws[k].to = id})

Linkable(raws, c, d) ==
  /\ c.version = d.version
  /\ Degree(raws, c.id) < MaxNearest
  /\ Degree(raws, d.id) < MaxNearest
  /\ Related(c, d) # {}

RawEdge(c, d) ==
  [from |-> c.id, fromFp |-> c.fp, to |-> d.id, toFp |-> d.fp,
   relation |-> CHOOSE r \in Related(c, d) : TRUE, strength |-> Strength(c, d)]

GenerateEdges(claims) ==
  LET sorted == ByHash(claims, Embedded(claims))
      n == Len(sorted)
      visited[k \in 0..(n * n)] ==
        IF k = 0 THEN <<>>
        ELSE LET i == ((k - 1) \div n) + 1
                 j == ((k - 1) % n) + 1
                 raws == visited[k - 1]
             IN  IF i < j /\ Linkable(raws, sorted[i], sorted[j])
                 THEN Append(raws, RawEdge(sorted[i], sorted[j])) ELSE raws
  IN  visited[n * n]

-----------------------------------------------------------------------------
(* build_from_claims: an end is found by its hash, else by its fingerprint,*)
(* for which the last summary stands, or else the first claim.             *)
Arena(claims, hash, fp) ==
  LET byHash == {i \in DOMAIN claims : claims[i].id = hash}
      byPrint == {i \in DOMAIN claims : claims[i].fp = fp}
      summaries == {i \in byPrint : claims[i].kind = "summary"}
  IN  IF byHash # {} THEN {Max(byHash)}
      ELSE IF summaries # {} THEN {Max(summaries)}
      ELSE IF byPrint # {} THEN {Min(byPrint)} ELSE {}

BuildFromClaims(claims, raws) ==
  LET from(raw) == Arena(claims, raw.from, raw.fromFp)
      to(raw) == Arena(claims, raw.to, raw.toFp)
      resolved == Kept(raws, {k \in DOMAIN raws : from(raws[k]) # {} /\ to(raws[k]) # {}})
  IN  [k \in DOMAIN resolved |->
         [from |-> CHOOSE i \in from(resolved[k]) : TRUE,
          to |-> CHOOSE i \in to(resolved[k]) : TRUE,
          relation |-> resolved[k].relation, strength |-> resolved[k].strength]]

(* incoming_edges, and support_ratio of the two kinds that count.          *)
IncomingEdges(G, i) == {k \in DOMAIN G : G[k].to = i}

OutgoingEdges(G, i) == {k \in DOMAIN G : G[k].from = i}

Ends(G) == {G[k].from : k \in DOMAIN G} \cup {G[k].to : k \in DOMAIN G}

(* dependents: what follows from claim i, itself too if it comes back.     *)
Dependents(G, i) ==
  LET n == Cardinality(DOMAIN G)
      reached[k \in 0..n] ==
        IF k = 0 THEN {i}
        ELSE {i} \cup {G[e].to : e \in {d \in DOMAIN G : Supportive(G[d]) /\ G[d].from \in reached[k - 1]}}
  IN  {G[e].to : e \in {d \in DOMAIN G : Supportive(G[d]) /\ G[d].from \in reached[n]}}

-----------------------------------------------------------------------------
(* A bug to catch: only the edge back to where the search began is found.  *)
BackToRoot(G, path) ==
  {k \in OutgoingEdges(G, path[Len(path)]) : Supportive(G[k]) /\ G[k].to = path[1]}

(* dfs_mark_cyclic.  Roots and successors are taken in arena order; an     *)
(* edge is cyclic if its target is on the path when its source is entered. *)
BackEdges(G, path) ==
  {k \in OutgoingEdges(G, path[Len(path)]) :
     Supportive(G[k]) /\ \E p \in DOMAIN path : path[p] = G[k].to}

Enter(G, search, node) ==
  LET path == Append(search.path, node) IN
  [path |-> path, visited |-> search.visited \cup {node},
   cyclic |-> search.cyclic \cup BackEdges(G, path)]

Leave(search) == [search EXCEPT !.path = SubSeq(@, 1, Len(@) - 1)]

Successors(G, search) ==
  IF search.path = <<>> THEN Ends(G)
  ELSE {G[k].to : k \in {l \in OutgoingEdges(G, search.path[Len(search.path)]) : Supportive(G[l])}}

SearchStep(G, search) ==
  LET fresh == Successors(G, search) \ search.visited IN
  IF fresh # {} THEN Enter(G, search, Min(fresh))
  ELSE IF search.path # <<>> THEN Leave(search) ELSE search

(* Every node is entered once and left once.                               *)
CyclicEdges(G) ==
  LET search[n \in 0..(2 * Cardinality(Ends(G)))] ==
        IF n = 0 THEN [path |-> <<>>, visited |-> {}, cyclic |-> {}]
        ELSE SearchStep(G, search[n - 1])
  IN  search[2 * Cardinality(Ends(G))].cyclic

(* The edges trust flows along.                                            *)
Live(G) == {k \in DOMAIN G : Supportive(G[k])} \ CyclicEdges(G)

-----------------------------------------------------------------------------
(* propagate_trust_correlated, without the temporal decay, which compute   *)
(* turns off.  Nodes that are no claim have no author and no base trust.   *)
BaseTrust(claims, G, rep) ==
  [i \in DOMAIN claims \cup Ends(G) |->
     IF i \in DOMAIN claims
     THEN Weighted(rep[claims[i].origin], Declared(claims[i].confidence)) ELSE 0]

AuthorRep(claims, rep, i) == IF i \in DOMAIN claims THEN rep[claims[i].origin] ELSE 0

Voiced(lo) == AtLeast(lo, 0)

(* A bug to catch: an edge hands on its strength, whatever else goes out.  *)
WholeShare(G, live, k) == G[k].strength

(* The part of its source's trust an edge carries, in basis points.        *)
Share(G, live, k) ==
  (G[k].strength * Scale)
    \div AtLeast(Total(LAMBDA l : G[l].strength, live \cap OutgoingEdges(G, G[k].from)), 1)

Contribution(claims, G, rep, live, trust, k) ==
  (((Voiced(trust[G[k].from]) * Share(G, live, k)) \div Scale)
     * AuthorRep(claims, rep, G[k].from)) \div Scale

Incoming(claims, G, rep, live, trust, i) ==
  {[at |-> k, lo |-> Contribution(claims, G, rep, live, trust, k),
    id |-> IF G[k].from \in DOMAIN claims THEN claims[G[k].from].id ELSE <<>>,
    group |-> IF G[k].from \in DOMAIN claims THEN CorrelationGroup(claims, G[k].from)
              ELSE [key |-> <<"none">>, assessed |-> FALSE]] :
   k \in live \cap IncomingEdges(G, i)}

(* Pass 1: base trust plus what flows in, from the trust of the round      *)
(* before, until nothing changes or the iterations are used up.            *)
Support(claims, G, rep, live, base, trust) ==
  [i \in DOMAIN base |->
     IF live \cap IncomingEdges(G, i) = {} THEN base[i]
     ELSE Updated(base[i], AggregateHierarchical(Incoming(claims, G, rep, live, trust, i)))]

Stabilized(claims, G, rep) ==
  LET live == Live(G)
      base == BaseTrust(claims, G, rep)
      next(trust) == Support(claims, G, rep, live, base, trust)
      round[n \in 0..MaxIterations] ==
        IF n = 0 THEN [trust |-> base, changed |-> TRUE]
        ELSE LET last == round[n - 1]
                 new == next(last.trust)
             IN  IF last.changed THEN [trust |-> new, changed |-> new # last.trust] ELSE last
  IN  round[MaxIterations].trust

(* Pass 2: contradictions subtract, from a snapshot.  How much one edge    *)
(* may take of a positive trust depends on the balance of the voices.      *)
Contradicting(G, i) == {k \in IncomingEdges(G, i) : G[k].relation = "contradicts"}

DynamicAlpha(G, trust, i) ==
  LET voices(S) == Total(LAMBDA k : Voiced(trust[G[k].from]), S)
      for == voices({k \in IncomingEdges(G, i) : Supportive(G[k])})
      against == voices(Contradicting(G, i))
  IN  AtMost((against * Scale) \div (for + against + 1), DampingBps)

Penalty(claims, G, rep, trust, k) ==
  LET weight == (G[k].strength * AuthorRep(claims, rep, G[k].from)) \div Scale
      raw == (Voiced(trust[G[k].from]) * weight) \div Scale
      target == trust[G[k].to]
  IN  IF target > 0 THEN AtMost(raw, (target * DynamicAlpha(G, trust, G[k].to)) \div Scale)
      ELSE raw

(* A bug to catch: only each edge is capped, not all of them together.     *)
SummedPenalty(target, penalty) == penalty

CappedPenalty(target, penalty) ==
  IF target > 0 THEN AtMost(penalty, (target * DampingBps) \div Scale) ELSE penalty

Contradicted(claims, G, rep, trust) ==
  [i \in DOMAIN trust |->
     trust[i] - CappedPenalty(trust[i],
       Total(LAMBDA k : Penalty(claims, G, rep, trust, k), Contradicting(G, i)))]

PropagateTrust(claims, G, rep) ==
  Contradicted(claims, G, rep, Stabilized(claims, G, rep))

(* LogOddsBeliefEngine::compute                                            *)
Verdict(lo) ==
  IF lo >= Threshold THEN "accepted" ELSE IF lo <= -Threshold THEN "rejected" ELSE "uncertain"

Compute(claims, G, rep) ==
  LET trust == PropagateTrust(claims, G, rep) IN [i \in DOMAIN claims |-> Verdict(trust[i])]
=============================================================================
