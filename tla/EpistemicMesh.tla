--------------------------- MODULE EpistemicMesh ----------------------------
(***************************************************************************)
(* L3 nodes that gossip claims and edges, as examples/bench_l3_netem.rs    *)
(* runs them over the library: every node keeps its claims in the order in *)
(* which they arrived, the edges between them by arena id, and a tracker   *)
(* of its own; beliefs, summaries and the generated topology are computed  *)
(* from these.                                                             *)
(***************************************************************************)
EXTENDS KnowledgeGraph

CONSTANTS
  NumNodes,       \* L3 nodes, synchronised in the order of their number
  Claims,         \* the claims there are to make
  Edges,          \* the edges there are to add
  Base,           \* the claims all nodes hold at first, a sequence
  Writers,        \* the nodes that add edges; the others copy theirs
  Anchor,         \* the origin every tracker trusts at first
  Granted,        \* what the anchor delegates to a claim's author
  Grid,           \* grid_size of the epoch-aligned reduction
  MaxEdges        \* bound: edges of a graph, different edges added in the mesh

ASSUME MeshAssumption ==
  /\ NumNodes \in Nat \ {0} /\ MaxEdges \in Nat /\ Grid \in Nat \ {0}
  /\ Granted \in 0..Scale
  /\ Base \in Seq(Claims) /\ \A i, j \in DOMAIN Base : Base[i] = Base[j] => i = j
  /\ Writers \subseteq 1..NumNodes
  /\ \A c, d \in Claims : c.id = d.id => c = d
  /\ \A c \in Claims : /\ c.id \in Seq(Nat) /\ c.confidence \in Int
                        /\ c.embedding \subseteq SUBSET (1..Width)
  /\ \A e \in Edges : e.strength \in 0..Scale /\ {e.from, e.to} \subseteq Nat

VARIABLE node  \* of each L3 node, its [claims, graph, tracker]

Nodes   == 1..NumNodes
Origins == {c.origin : c \in Claims} \cup {Anchor}

(* L3Node::new                                                             *)
Fresh == [claims |-> <<>>, graph |-> <<>>,
          tracker |-> [o \in Origins |-> IF o = Anchor THEN Scale ELSE 0]]

Holds(local, c) == \E i \in DOMAIN local.claims : local.claims[i].id = c.id

Linked(local, e) ==
  \E k \in DOMAIN local.graph :
    /\ local.graph[k].from = e.from /\ local.graph[k].to = e.to
    /\ local.graph[k].relation = e.relation

Given(local) == {local.graph[k] : k \in DOMAIN local.graph}

(* ReputationTracker::delegate by the anchor: every claim that arrives     *)
(* resets its author's score, to what the anchor can still afford.         *)
Delegated(tracker, origin) ==
  LET capped == AtMost(Granted, tracker[Anchor]) IN
  IF tracker[Anchor] = 0 THEN tracker
  ELSE [tracker EXCEPT ![origin] = capped,
                       ![Anchor] = AtLeast(tracker[Anchor] - capped \div 2, 0)]

(* L3Node::add_claim                                                       *)
WithClaim(local, c) ==
  [local EXCEPT !.claims = Append(@, c), !.tracker = Delegated(@, c.origin)]

(* L3Node::add_edge                                                        *)
WithEdge(local, e) == [local EXCEPT !.graph = Append(@, e)]

(* The scenarios start from nodes that share their first claims.           *)
Init == node = [n \in Nodes |-> FoldLeft(WithClaim, Fresh, Base)]

(* l3_sync: the claims and edges of a source that are not held yet.  Edges *)
(* are copied as they are, although an arena id may name another claim.    *)
AddMissing(local, c)  == IF Holds(local, c) THEN local ELSE WithClaim(local, c)
LinkMissing(local, e) == IF Linked(local, e) THEN local ELSE WithEdge(local, e)

(* A bug to catch: what arrives is appended without a look at what is held.*)
AbsorbAll(local, source) ==
  FoldLeft(LinkMissing, FoldLeft(WithClaim, local, source.claims), source.graph)

Absorb(local, source) ==
  FoldLeft(LinkMissing, FoldLeft(AddMissing, local, source.claims), source.graph)

-----------------------------------------------------------------------------
AddClaim(n, c) ==
  /\ ~Holds(node[n], c)
  /\ node' = [node EXCEPT ![n] = WithClaim(@, c)]

(* An edge may be added again: only l3_sync looks at what is held.         *)
AddEdge(n, e) ==
  /\ Len(node[n].graph) < MaxEdges
  /\ Cardinality({e} \cup UNION {Given(node[m]) : m \in Nodes}) <= MaxEdges
  /\ node' = [node EXCEPT ![n] = WithEdge(@, e)]

(* l3_sync_round: every node sends what it had at the beginning of the     *)
(* round to every other; the pairs in lost are skipped.                    *)
Channels == {p \in Nodes \X Nodes : p[1] # p[2]}

Received(nodes, j, lost) ==
  FoldLeft(LAMBDA local, i : IF <<i, j>> \in Channels \ lost THEN Absorb(local, nodes[i])
                             ELSE local,
           nodes[j], [i \in Nodes |-> i])

SyncRound(lost) == node' = [j \in Nodes |-> Received(node, j, lost)]

Next ==
  \/ \E n \in Nodes, c \in Claims : AddClaim(n, c)
  \/ \E n \in Writers, e \in Edges : AddEdge(n, e)
  \/ \E lost \in SUBSET Channels : SyncRound(lost)

Spec == Init /\ [][Next]_node

-----------------------------------------------------------------------------
(* What a node computes from its state.                                    *)
Voices(n) == node[n].tracker

Held(n) == {node[n].claims[i] : i \in DOMAIN node[n].claims}

(* Summaries with and without reputation.                                  *)
Summaries(claims, rep) ==
  <<UNION {ReduceWithReputation(bucket, rep) : bucket \in EpochAligned(claims, Grid)},
    UNION {Reduce(bucket) : bucket \in EpochAligned(claims, Grid)}>>

(* Beliefs, and the edges of a graph, by claim instead of by arena id.     *)
ByClaim(claims, verdicts) == {<<claims[i].id, verdicts[i]>> : i \in DOMAIN claims}

Beliefs(claims, G, rep) == ByClaim(claims, Compute(claims, G, rep))

GeneratedBeliefs(claims, rep) ==
  Beliefs(claims, BuildFromClaims(claims, GenerateEdges(claims)), rep)

Named(claims, G) ==
  {<<claims[G[k].from].id, claims[G[k].to].id, G[k].relation, G[k].strength>> : k \in DOMAIN G}

Grounded(claims, G) == Ends(G) \subseteq DOMAIN claims

-----------------------------------------------------------------------------
(* A claim is held once; a tracker gives nobody more than everything.      *)
TypeOK ==
  \A n \in Nodes :
    /\ node[n].claims \in Seq(Claims)
    /\ \A i, j \in DOMAIN node[n].claims : node[n].claims[i] = node[n].claims[j] => i = j
    /\ node[n].graph \in Seq(Edges)
    /\ node[n].tracker \in [Origins -> 0..Scale]

(* epistemic.rs, "Commutativity: reduce([A, B]) == reduce([B, A])": nodes  *)
(* that hold the same claims fold them into the same summaries, whatever   *)
(* the order of arrival, if they trust the authors alike.                  *)
SameClaimsSameSummaries ==
  \A n, m \in Nodes : Held(n) = Held(m) =>
    Summaries(node[n].claims, Voices(n)) = Summaries(node[m].claims, Voices(n))

(* insider_asymmetry.rs, "Two nodes holding the same claim SET in different*)
(* sequences must derive the same belief": over the topology generated from*)
(* the embeddings, whose edges all point up the order of the hashes.       *)
SameClaimsSameTopology ==
  \A n, m \in Nodes : Held(n) = Held(m) =>
    /\ GenerateEdges(node[n].claims) = GenerateEdges(node[m].claims)
    /\ GeneratedBeliefs(node[n].claims, Voices(n)) = GeneratedBeliefs(node[m].claims, Voices(n))

(* Nobody is among those whose support rests on it over the edges left.    *)
NothingComesBack(G) == \A i \in Ends(G) : i \notin Dependents([k \in Live(G) |-> G[k]], i)

(* epistemic.rs, "These edges are EXCLUDED from trust propagation": trust  *)
(* that leaves a claim never comes back to it, so that support settles     *)
(* within as many rounds as the claims can be chained.                     *)
SupportSettles ==
  \A n \in Nodes :
    LET claims == node[n].claims
        G == node[n].graph
        settled == Stabilized(claims, G, Voices(n))
    IN  /\ NothingComesBack(G)
        /\ Cardinality(Ends(G)) <= MaxIterations =>
             Support(claims, G, Voices(n), Live(G), BaseTrust(claims, G, Voices(n)), settled)
               = settled

(* A claim gives away no more trust than it has, however many claims it    *)
(* supports and whichever of its edges the cycle cut leaves.               *)
GivenAway(claims, G, rep, trust, i) ==
  Total(LAMBDA k : Contribution(claims, G, rep, Live(G), trust, k),
        Live(G) \cap OutgoingEdges(G, i))

TrustIsShared ==
  \A n \in Nodes :
    LET claims == node[n].claims
        G == node[n].graph
        trust == Stabilized(claims, G, Voices(n))
    IN  \A i \in DOMAIN claims : GivenAway(claims, G, Voices(n), trust, i) <= Voiced(trust[i])

(* README, ContradictionSafety: contradictions, however many, leave a      *)
(* trusted claim the part of its trust that the damping protects, so that  *)
(* they make nothing rejected that was trusted.                            *)
ContradictionSafety ==
  \A n \in Nodes :
    LET claims == node[n].claims
        before == Stabilized(claims, node[n].graph, Voices(n))
        after == PropagateTrust(claims, node[n].graph, Voices(n))
    IN  \A i \in DOMAIN claims : before[i] > 0 =>
          /\ Scale * after[i] >= (Scale - DampingBps) * before[i]
          /\ Verdict(after[i]) # "rejected"

(* README, BeliefDeterminism, "Same claims + graph -> identical BeliefState*)
(* on all nodes": also over edges the nodes were given.                    *)
BeliefDeterminism ==
  \A n, m \in Nodes :
    /\ Held(n) = Held(m)
    /\ Grounded(node[n].claims, node[n].graph) /\ Grounded(node[m].claims, node[m].graph)
    /\ Named(node[n].claims, node[n].graph) = Named(node[m].claims, node[m].graph)
    => Beliefs(node[n].claims, node[n].graph, Voices(n))
         = Beliefs(node[m].claims, node[m].graph, Voices(n))
=============================================================================
