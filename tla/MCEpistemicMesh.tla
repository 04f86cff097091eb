-------------------------- MODULE MCEpistemicMesh ---------------------------
(***************************************************************************)
(* Instances of EpistemicMesh: embeddings of four bits, of which one may   *)
(* differ for support and three must for a contradiction.                  *)
(***************************************************************************)
EXTENDS EpistemicMesh

Observation(n, content, author, lo, evidence, tick, bits) ==
  [id |-> <<n>>, fp |-> <<content, 1>>, origin |-> author, kind |-> "observation",
   confidence |-> lo, source |-> <<evidence>>, tick |-> tick, cell |-> {},
   embedding |-> {bits}, version |-> 0, data |-> content]

(* Two authors report the same evidence.                                   *)
First  == Observation(1, 1, "o1", 7000, 1, 0, {1})
Second == Observation(2, 1, "o2", 12000, 1, 1, {1})

(* Two reports of one content whose embeddings do not agree: one is near   *)
(* the claims above, the other opposed to all of them.                     *)
Third  == Observation(3, 2, "o1", 5000, 2, 2, {1, 2})
Fourth == Observation(4, 2, "o2", 7000, 3, 3, {3, 4})

MeshClaims == {First, Second, Third, Fourth}
MeshBase   == <<Third, Fourth>>

Edge(i, j, r) == [from |-> i, to |-> j, relation |-> r, strength |-> 10000]

(* A cycle behind a way in, a claim that supports two others, and a claim  *)
(* with two contradictions; arena ids 3 and 4 are there before their       *)
(* claims.                                                                 *)
MeshEdges ==
  {Edge(1, 3, "supports"), Edge(3, 4, "supports"), Edge(4, 3, "supports"),
   Edge(1, 4, "derived"), Edge(1, 4, "contradicts"), Edge(3, 4, "contradicts")}
=============================================================================
