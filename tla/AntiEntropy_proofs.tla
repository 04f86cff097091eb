------------------------- MODULE AntiEntropy_proofs -------------------------
(***************************************************************************)
(* Proofs about the rounds of anti-entropy, for every number of engines,   *)
(* partition, fan-out, history depth and number of DAG nodes: an equal     *)
(* merkle root means an equal history, and one round without losses is     *)
(* enough, as long as no history is longer than get_vdiff walks.           *)
(***************************************************************************)
EXTENDS AntiEntropy, MerkleDag_proofs

Hashes == 1..MaxNodes
Held(n) == DOMAIN arena[n]

(* No exchange has cut a history off: nothing is missing below a node.     *)
Unbroken    == strategy = "full" \/ Shallow
ParentsHeld == \A n \in Nodes : \A h \in Held(n) : arena[n][h] \subseteq Held(n)

Typed ==
  /\ arena = [n \in Nodes |-> arena[n]]
  /\ \A n \in Nodes : \E held \in SUBSET Hashes : arena[n] \in [held -> SUBSET Hashes]
  /\ heads \in [Nodes -> SUBSET Hashes]

LoopTyped ==
  /\ strategy \in Strategies /\ lossy \in BOOLEAN
  /\ row \in Nodes /\ peers \in Seq(Nodes) /\ round \in Nat

(* Histories grow together: names are given out in order, a name means the *)
(* same node everywhere, and the heads are those of what is held.          *)
HistoryInv ==
  /\ \E k \in 0..MaxNodes : Created = 1..k
  /\ \A n \in Nodes : ParentsPrecede(arena[n]) /\ heads[n] = Frontier(arena[n])
  /\ \A i, j \in Nodes : \A h \in Held(i) \cap Held(j) : arena[i][h] = arena[j][h]
  /\ Unbroken => ParentsHeld

ToServe == {peers[k] : k \in 1..Len(peers)}

(* The first round, row by row.  Who served before row holds no more than  *)
(* row, who was served by row no less, and who served before row and is    *)
(* still to be served now holds no more than anybody.                      *)
RoundInv ==
  /\ round = 1
  /\ \A a, b \in 1..Len(peers) : peers[a] = peers[b] => a = b
  /\ \A j \in Nodes \ {row} : j \notin ToServe => Held(row) \subseteq Held(j)
  /\ \A i \in Nodes : i < row =>
        /\ Held(i) \subseteq Held(row)
        /\ i \in ToServe => \A j \in Nodes : Held(i) \subseteq Held(j)

Lossless == ~lossy /\ (strategy = "full" \/ (strategy = "delta" /\ Shallow))

IInv ==
  /\ Typed /\ LoopTyped
  /\ HistoryInv
  /\ phase \in {"shared", "apart"} => row = 1
  /\ Lossless /\ phase = "sync" => RoundInv
  /\ Lossless /\ phase \in {"converged", "stalled"} => phase = "converged" /\ round = 1

-----------------------------------------------------------------------------
LEMMA ArenasAreDags ==
  ASSUME Typed, NEW n \in Nodes, ParentsPrecede(arena[n])
  PROVE  IsDag(arena[n]) /\ Held(n) \in SUBSET Hashes
<1>1. PICK held \in SUBSET Hashes : arena[n] \in [held -> SUBSET Hashes]
  BY DEF Typed
<1>2. MaxNodes \in Nat
  BY MeshAssumption
<1>3. IsFiniteSet(Hashes) /\ Hashes \in SUBSET Nat
  BY <1>2, FS_Interval DEF Hashes
<1>4. Held(n) \in SUBSET Hashes
  BY <1>1 DEF Held
<1>5. IsFiniteSet(Held(n))
  BY <1>3, <1>4, FS_Subset
<1> QED
  BY <1>3, <1>4, <1>5 DEF IsDag, Held

(* Histories only grow, so chains that are short now were short before.    *)
LEMMA ShallowBefore ==
  ASSUME Typed, Typed',
         \A n \in Nodes : ParentsPrecede(arena[n]) /\ ParentsPrecede(arena'[n]),
         \A n \in Nodes : Held(n) \subseteq DOMAIN arena'[n],
         \A n \in Nodes : \A h \in Held(n) : arena'[n][h] = arena[n][h],
         Shallow'
  PROVE  Shallow
<1> SUFFICES ASSUME NEW n \in Nodes, NEW h \in Held(n)
             PROVE  Deepest(arena[n])[h] <= HistoryDepth
  BY DEF Shallow, Held
<1>1. IsDag(arena[n]) /\ IsDag(arena'[n])
  <2>1. IsDag(arena[n])
    BY ArenasAreDags
  <2>2. IsDag(arena'[n])
    <3>1. PICK held \in SUBSET Hashes : arena'[n] \in [held -> SUBSET Hashes]
      BY DEF Typed, Hashes
    <3>2. MaxNodes \in Nat
      BY MeshAssumption
    <3>3. IsFiniteSet(Hashes) /\ Hashes \in SUBSET Nat
      BY <3>2, FS_Interval DEF Hashes
    <3>4. DOMAIN arena'[n] \in SUBSET Hashes
      BY <3>1
    <3>5. IsFiniteSet(DOMAIN arena'[n])
      BY <3>3, <3>4, FS_Subset
    <3> QED
      BY <3>3, <3>4, <3>5 DEF IsDag
  <2> QED
    BY <2>1, <2>2
<1>2. Held(n) = DOMAIN arena[n]
  BY DEF Held
<1>3. Deepest(arena[n])[h] <= Deepest(arena'[n])[h]
  BY <1>1, <1>2, DeepestGrows
<1>4. h \in DOMAIN arena'[n] /\ Deepest(arena'[n])[h] <= HistoryDepth
  BY DEF Shallow
<1>5. Deepest(arena[n])[h] \in Nat /\ Deepest(arena'[n])[h] \in Nat
  BY <1>1, <1>2, <1>4, DeepestIs
<1>6. HistoryDepth \in Nat
  BY MeshAssumption
<1> QED
  BY <1>3, <1>4, <1>5, <1>6

(* What Receive does, when the nodes D of the history of src go to the     *)
(* engines in to.                                                          *)
LEMMA ReceiveAdds ==
  ASSUME Typed, HistoryInv, NEW to \in SUBSET Nodes, NEW src \in Nodes,
         NEW D \in SUBSET Held(src), Receive(to, Retain(arena[src], D))
  PROVE  /\ arena' = [n \in Nodes |-> arena'[n]]
         /\ \A n \in Nodes : Held(n)' = IF n \in to THEN Held(n) \cup D ELSE Held(n)
         /\ \A n \in Nodes : arena'[n] = [h \in DOMAIN arena'[n] |-> arena'[n][h]]
         /\ \A n \in Nodes : \A h \in Held(n) : arena'[n][h] = arena[n][h]
         /\ \A n \in to : \A h \in D : arena'[n][h] = arena[src][h]
         /\ heads' = [n \in Nodes |-> Frontier(arena'[n])]
<1> DEFINE delta == Retain(arena[src], D)
           new == [n \in Nodes |-> IF n \in to THEN WithNodes(arena[n], delta) ELSE arena[n]]
<1>1. DOMAIN delta = D /\ \A h \in D : delta[h] = arena[src][h]
  BY DEF Retain, Held
<1>2. \A n \in Nodes : arena[n] = [h \in Held(n) |-> arena[n][h]]
  BY DEF Typed, Held
<1>3. \A n \in Nodes : \A h \in Held(n) \cap D : arena[n][h] = arena[src][h]
  BY DEF HistoryInv
<1>4. /\ arena' = new
      /\ heads' = [n \in Nodes |-> IF new[n] = arena[n] THEN heads[n]
                                   ELSE Recomputed(new[n], heads[n])]
  BY DEF Receive
<1> HIDE DEF delta
<1>5. \A n \in to : arena'[n] = [h \in Held(n) \cup D |->
                                   IF h \in Held(n) THEN arena[n][h] ELSE delta[h]]
  BY <1>1, <1>4 DEF WithNodes, Held
<1>6. \A n \in Nodes \ to : arena'[n] = arena[n]
  BY <1>4
<1>7. \A n \in Nodes : heads'[n] = Frontier(arena'[n])
  BY <1>4 DEF Recomputed, HistoryInv
<1>8. arena' = [n \in Nodes |-> arena'[n]] /\ heads' = [n \in Nodes |-> Frontier(arena'[n])]
  <2>1. arena' = [n \in Nodes |-> arena'[n]]
    BY <1>4
  <2>2. heads' = [n \in Nodes |-> heads'[n]]
    BY <1>4
  <2> QED
    BY <1>7, <2>1, <2>2
<1>9. \A n \in Nodes : Held(n)' = IF n \in to THEN Held(n) \cup D ELSE Held(n)
  BY <1>5, <1>6 DEF Held
<1>10. \A n \in Nodes : arena'[n] = [h \in DOMAIN arena'[n] |-> arena'[n][h]]
  <2> TAKE n \in Nodes
  <2>1. CASE n \in to
    BY <1>5, <2>1
  <2>2. CASE n \notin to
    BY <1>2, <1>6, <2>2 DEF Held
  <2> QED
    BY <2>1, <2>2
<1>11. \A n \in Nodes : \A h \in Held(n) : arena'[n][h] = arena[n][h]
  BY <1>5, <1>6
<1>12. ASSUME NEW n \in to, NEW h \in D
       PROVE  arena'[n][h] = arena[src][h]
  <2>1. arena'[n][h] = IF h \in Held(n) THEN arena[n][h] ELSE delta[h]
    BY <1>5
  <2> QED
    BY <1>1, <1>3, <2>1
<1> QED
  BY <1>8, <1>9, <1>10, <1>11, <1>12, Zenon

(* Content addressing, the heads and the closure of every history survive  *)
(* a Receive; closure needs that the parents of what came came too, or     *)
(* were there.                                                             *)
LEMMA ReceiveHistory ==
  ASSUME Typed, HistoryInv, NEW to \in SUBSET Nodes, NEW src \in Nodes,
         NEW D \in SUBSET Held(src), Receive(to, Retain(arena[src], D)),
         strategy' = strategy,
         Unbroken => \A n \in to : \A h \in D : arena[src][h] \subseteq D \cup Held(n)
  PROVE  Typed' /\ HistoryInv' /\ (Shallow' => Shallow)
<1>1. /\ arena' = [n \in Nodes |-> arena'[n]]
      /\ \A n \in Nodes : Held(n)' = IF n \in to THEN Held(n) \cup D ELSE Held(n)
      /\ \A n \in Nodes : arena'[n] = [h \in DOMAIN arena'[n] |-> arena'[n][h]]
      /\ \A n \in Nodes : \A h \in Held(n) : arena'[n][h] = arena[n][h]
      /\ \A n \in to : \A h \in D : arena'[n][h] = arena[src][h]
      /\ heads' = [n \in Nodes |-> Frontier(arena'[n])]
  BY ReceiveAdds
<1>2. \A n \in Nodes : Held(n)' = DOMAIN arena'[n]
  BY DEF Held
<1>3. \A n \in Nodes : Held(n) \in SUBSET Hashes /\ \A h \in Held(n) : arena[n][h] \in SUBSET Hashes
  BY DEF Typed, Held
(* Every node of a history after the step is one of some history before.   *)
<1>4. ASSUME NEW n \in Nodes, NEW h \in DOMAIN arena'[n]
      PROVE  \E m \in Nodes : h \in Held(m) /\ arena'[n][h] = arena[m][h]
  <2>1. CASE h \in Held(n)
    BY <1>1, <2>1
  <2>2. CASE h \notin Held(n)
    <3>1. n \in to /\ h \in D
      BY <1>1, <1>2, <1>4, <2>2
    <3> QED
      BY <1>1, <3>1
  <2> QED
    BY <2>1, <2>2
<1>5. Typed'
  <2>1. ASSUME NEW n \in Nodes
        PROVE  /\ \E held \in SUBSET Hashes : arena'[n] \in [held -> SUBSET Hashes]
               /\ heads'[n] \in SUBSET Hashes
    <3>1. DOMAIN arena'[n] \in SUBSET Hashes
      BY <1>3, <1>4
    <3>2. \A h \in DOMAIN arena'[n] : arena'[n][h] \in SUBSET Hashes
      BY <1>3, <1>4
    <3>3. arena'[n] \in [DOMAIN arena'[n] -> SUBSET Hashes]
      BY <1>1, <3>2
    <3>4. heads'[n] \in SUBSET Hashes
      BY <1>1, <3>1 DEF Frontier
    <3> QED
      BY <3>1, <3>3, <3>4
  <2>2. heads' \in [Nodes -> SUBSET Hashes]
    BY <1>1, <2>1
  <2> QED
    BY <1>1, <2>1, <2>2 DEF Typed, Hashes
<1>6. \A n \in Nodes : ParentsPrecede(arena[n]) /\ ParentsPrecede(arena'[n])
  <2>1. \A n \in Nodes : \A h \in Held(n) : \A p \in arena[n][h] : p < h
    BY DEF HistoryInv, ParentsPrecede, Held
  <2>2. \A n \in Nodes : \A h \in DOMAIN arena'[n] : \A p \in arena'[n][h] : p < h
    BY <1>4, <2>1
  <2> QED
    BY <2>1, <2>2 DEF ParentsPrecede, Held
<1>7. \A i, j \in Nodes : \A h \in DOMAIN arena'[i] \cap DOMAIN arena'[j] :
         arena'[i][h] = arena'[j][h]
  BY <1>4 DEF HistoryInv
<1>8. Created' = Created
  <2>1. \A n \in Nodes : Held(n) \subseteq DOMAIN arena'[n]
    BY <1>1, <1>2
  <2>2. Created = UNION {Held(n) : n \in Nodes}
    BY DEF Created, Held
  <2>3. Created' = UNION {DOMAIN arena'[n] : n \in Nodes}
    BY DEF Created
  <2> QED
    BY <1>4, <2>1, <2>2, <2>3
<1>9. Shallow' => Shallow
  <2>1. \A n \in Nodes : Held(n) \subseteq DOMAIN arena'[n]
    BY <1>1, <1>2
  <2> QED
    BY <1>1, <1>5, <1>6, <2>1, ShallowBefore
<1>10. (Unbroken => ParentsHeld)'
  <2> SUFFICES ASSUME Unbroken', NEW n \in Nodes, NEW h \in DOMAIN arena'[n]
               PROVE  arena'[n][h] \subseteq DOMAIN arena'[n]
    BY <1>2 DEF ParentsHeld, Held
  <2>1. Unbroken /\ ParentsHeld
    BY <1>9 DEF Unbroken, HistoryInv
  <2>2. CASE h \in Held(n)
    BY <1>1, <1>2, <2>1, <2>2 DEF ParentsHeld
  <2>3. CASE h \notin Held(n)
    <3>1. n \in to /\ h \in D
      BY <1>1, <1>2, <2>3
    <3> QED
      BY <1>1, <1>2, <2>1, <3>1
  <2> QED
    BY <2>2, <2>3
<1>11. HistoryInv'
  <2>1. (\E k \in 0..MaxNodes : Created = 1..k)'
    BY <1>8 DEF HistoryInv
  <2>2. \A n \in Nodes : heads'[n] = Frontier(arena'[n])
    BY <1>1
  <2> QED
    BY <1>2, <1>6, <1>7, <1>10, <2>1, <2>2 DEF HistoryInv
<1> QED
  BY <1>5, <1>9, <1>11

(* What an engine is served completes what it holds to the history of the  *)
(* one that serves it, and brings the parents of all it brings.            *)
LEMMA DeltaCloses ==
  ASSUME Typed, HistoryInv, NEW i \in Nodes, NEW j \in Nodes,
         NEW delta \in Deltas(i, j)
  PROVE  /\ delta \in SUBSET Held(i)
         /\ Unbroken => /\ \A h \in delta : arena[i][h] \subseteq delta \cup Held(j)
                        /\ Held(i) \subseteq delta \cup Held(j)
<1>1. CASE strategy = "full"
  <2>1. delta = Held(i)
    BY <1>1 DEF Deltas, Everything, Held
  <2> QED
    BY <2>1 DEF HistoryInv, ParentsHeld
<1>2. CASE strategy # "full"
  <2> DEFINE A == arena[i]
  <2>1. PICK level : level \in Walks(A, heads[i], heads[j], HistoryDepth) /\ delta = DOMAIN level
    BY <1>2 DEF Deltas
  <2>2. heads[i] = Frontier(A) /\ ParentsPrecede(A)
    BY DEF HistoryInv
  <2>3. IsWalk(A, Frontier(A), heads[j], HistoryDepth, level) /\ delta \subseteq DOMAIN A
    BY <2>1, <2>2 DEF Walks, IsWalk
  <2>4. IsDag(A) /\ HistoryDepth \in Nat
    BY <2>2, ArenasAreDags, MeshAssumption
  <2>5. heads[j] \subseteq Held(j)
    BY DEF HistoryInv, Frontier, Held
  <2>6. ASSUME Unbroken, NEW h \in delta, NEW p \in A[h]
        PROVE  p \in delta \cup Held(j)
    <3>1. Shallow /\ ParentsHeld
      BY <1>2, <2>6 DEF Unbroken, HistoryInv
    <3>2. h \in DOMAIN A /\ p \in DOMAIN A /\ h \in Children(A, p)
      BY <2>3, <3>1 DEF ParentsHeld, Held, Children
    <3>3. /\ level[h] \in Nat /\ level[h] <= Deepest(A)[h]
          /\ Deepest(A) \in [DOMAIN A -> Nat] /\ Deepest(A)[h] < Deepest(A)[p]
      <4> HIDE DEF A
      <4>1. level[h] \in Nat /\ h \in DOMAIN level
        BY <2>1, <2>3, <2>4 DEF IsWalk
      <4>2. level[h] <= Deepest(A)[h]
        BY <2>3, <2>4, <4>1, WalkDepths
      <4> QED
        BY <2>4, <3>2, <4>1, <4>2, DeepestIs
    <3>4. Deepest(A)[p] <= HistoryDepth
      BY <3>1, <3>2 DEF Shallow
    <3>5. level[h] < HistoryDepth
      BY <2>4, <3>2, <3>3, <3>4
    <3> QED
      BY <2>1, <2>3, <2>5, <3>2, <3>5 DEF IsWalk
  <2>7. ASSUME Unbroken, NEW g \in Held(i)
        PROVE  g \in delta \cup Held(j)
    <3>1. Shallow /\ ParentsHeld
      BY <1>2, <2>7 DEF Unbroken, HistoryInv
    <3>2. g \in DOMAIN A /\ Deepest(A)[g] <= HistoryDepth
      BY <3>1 DEF Shallow, Held
    <3>3. g \in delta \cup Ancestry(A, heads[j])
      BY <2>1, <2>3, <2>4, <3>2, WalkReachesShallow
    <3>4. \A h \in Held(j) \cap DOMAIN A : A[h] \cap DOMAIN A \subseteq Held(j)
      BY <3>1 DEF HistoryInv, ParentsHeld, Held
    <3>5. Ancestry(A, heads[j]) \subseteq Held(j)
      <4>1. heads[j] \cap DOMAIN A \subseteq Held(j)
        BY <2>5
      <4> HIDE DEF A
      <4> QED
        BY <2>4, <3>4, <4>1, AncestryIs
    <3> QED
      BY <3>3, <3>5
  <2> QED
    BY <2>3, <2>6, <2>7 DEF Held
<1> QED
  BY <1>1, <1>2

(* append_mutation: the new node has all the heads for parents and is the  *)
(* only head left.                                                         *)
LEMMA CreateHistory ==
  ASSUME Typed, HistoryInv, NEW n \in Nodes, CreateMutation(n)
  PROVE  Typed' /\ HistoryInv'
<1>1. PICK k \in 0..MaxNodes : Created = 1..k
  BY DEF HistoryInv
<1>2. MaxNodes \in Nat /\ k \in Nat
  BY MeshAssumption
<1>3. Cardinality(Created) = k
  BY <1>1, <1>2, FS_Interval
<1> DEFINE h == k + 1
<1>4. /\ h \in Hashes
      /\ arena' = [arena EXCEPT ![n] = [g \in DOMAIN @ \cup {h} |->
                                          IF g = h THEN heads[n] ELSE @[g]]]
      /\ heads' = [heads EXCEPT ![n] = {h}]
      /\ strategy' = strategy
  BY <1>2, <1>3 DEF CreateMutation, Hashes
<1>5. \A m \in Nodes : Held(m) \subseteq 1..k
  BY <1>1 DEF Created, Held
<1>6. \A m \in Nodes : h \notin Held(m)
  BY <1>2, <1>5
<1>7. /\ \A m \in Nodes : Held(m) \in SUBSET Hashes /\ \A g \in Held(m) : arena[m][g] \in SUBSET Hashes
      /\ \A m \in Nodes : arena[m] = [g \in Held(m) |-> arena[m][g]]
      /\ arena = [m \in Nodes |-> arena[m]]
  BY DEF Typed, Held
<1>8. heads[n] \subseteq Held(n) /\ heads[n] = Frontier(arena[n])
  BY DEF HistoryInv, Frontier, Held
<1> HIDE DEF h
<1>9. /\ arena'[n] = [g \in Held(n) \cup {h} |-> IF g = h THEN heads[n] ELSE arena[n][g]]
      /\ \A m \in Nodes \ {n} : arena'[m] = arena[m]
      /\ arena' = [m \in Nodes |-> arena'[m]]
  BY <1>4, <1>7 DEF Held
<1>10. /\ DOMAIN arena'[n] = Held(n) \cup {h} /\ arena'[n][h] = heads[n]
       /\ \A g \in Held(n) : arena'[n][g] = arena[n][g]
       /\ \A m \in Nodes \ {n} : DOMAIN arena'[m] = Held(m)
  BY <1>6, <1>9 DEF Held
<1>11. Typed'
  <2>1. ASSUME NEW m \in Nodes
        PROVE  \E held \in SUBSET Hashes : arena'[m] \in [held -> SUBSET Hashes]
    <3>1. CASE m = n
      <4>1. Held(n) \cup {h} \in SUBSET Hashes
        BY <1>4, <1>7
      <4>2. heads[n] \in SUBSET Hashes /\ \A g \in Held(n) : arena[n][g] \in SUBSET Hashes
        BY <1>7, <1>8
      <4>3. arena'[n] \in [Held(n) \cup {h} -> SUBSET Hashes]
        BY <1>9, <4>2
      <4> QED
        BY <3>1, <4>1, <4>3
    <3>2. CASE m # n
      <4>1. \E held \in SUBSET Hashes : arena[m] \in [held -> SUBSET Hashes]
        BY DEF Typed
      <4> QED
        BY <1>9, <3>2, <4>1
    <3> QED
      BY <3>1, <3>2
  <2>2. heads' \in [Nodes -> SUBSET Hashes]
    BY <1>4 DEF Typed
  <2> QED
    BY <1>9, <2>1, <2>2 DEF Typed, Hashes
<1>12. \A m \in Nodes : ParentsPrecede(arena[m]) /\ ParentsPrecede(arena'[m])
  <2>1. \A m \in Nodes : \A g \in Held(m) : \A p \in arena[m][g] : p < g
    BY DEF HistoryInv, ParentsPrecede, Held
  <2>2. \A p \in heads[n] : p < h
    BY <1>2, <1>5, <1>8 DEF h
  <2>3. \A m \in Nodes : \A g \in DOMAIN arena'[m] : \A p \in arena'[m][g] : p < g
    BY <1>9, <1>10, <2>1, <2>2
  <2> QED
    BY <2>1, <2>3 DEF ParentsPrecede, Held
<1>13. \A m \in Nodes : heads'[m] = Frontier(arena'[m])
  <2>1. \A m \in Nodes \ {n} : heads'[m] = heads[m] /\ heads[m] = Frontier(arena[m])
    BY <1>4 DEF HistoryInv, Typed
  <2>2. heads'[n] = {h}
    BY <1>4 DEF Typed
  <2>3. \A c \in DOMAIN arena'[n] : h \notin arena'[n][c]
    <3>1. \A c \in DOMAIN arena'[n] : c \in Nat /\ c <= h
      BY <1>2, <1>5, <1>10 DEF h
    <3>2. h \in Nat
      BY <1>2 DEF h
    <3> QED
      BY <1>12, <3>1, <3>2 DEF ParentsPrecede
  <2>4. \A g \in Held(n) : \E c \in DOMAIN arena'[n] : g \in arena'[n][c]
    <3> TAKE g \in Held(n)
    <3>1. CASE g \in heads[n]
      BY <1>10, <3>1
    <3>2. CASE g \notin heads[n]
      <4>1. PICK c \in Held(n) : g \in arena[n][c]
        BY <1>8, <3>2 DEF Frontier, Children, Held
      <4> QED
        BY <1>10, <4>1
    <3> QED
      BY <3>1, <3>2
  <2>5. Frontier(arena'[n]) = {h}
    BY <1>6, <1>10, <2>3, <2>4 DEF Frontier, Children
  <2> QED
    BY <1>9, <2>1, <2>2, <2>5
<1>14. \A i, j \in Nodes : \A g \in DOMAIN arena'[i] \cap DOMAIN arena'[j] :
          arena'[i][g] = arena'[j][g]
  <2>1. \A i, j \in Nodes : \A g \in Held(i) \cap Held(j) : arena[i][g] = arena[j][g]
    BY DEF HistoryInv
  <2> QED
    BY <1>6, <1>9, <1>10, <2>1
<1>15. \E l \in 0..MaxNodes : Created' = 1..l
  <2>1. Created' = UNION {DOMAIN arena'[m] : m \in Nodes}
    BY DEF Created
  <2>2. Created = UNION {Held(m) : m \in Nodes}
    BY DEF Created, Held
  <2>3. Created' = Created \cup {h}
    BY <1>10, <2>1, <2>2
  <2>4. Created' = 1..h /\ h \in 0..MaxNodes
    BY <1>1, <1>2, <1>4, <2>3 DEF h, Hashes
  <2> QED
    BY <2>4
<1>16. (Unbroken => ParentsHeld)'
  <2>1. \A m \in Nodes : Held(m) \subseteq DOMAIN arena'[m]
    BY <1>10
  <2>2. \A m \in Nodes : \A g \in Held(m) : arena'[m][g] = arena[m][g]
    BY <1>9, <1>10
  <2>3. Shallow' => Shallow
    BY <1>11, <1>12, <2>1, <2>2, ShallowBefore
  <2> SUFFICES ASSUME Unbroken', NEW m \in Nodes, NEW g \in DOMAIN arena'[m]
               PROVE  arena'[m][g] \subseteq DOMAIN arena'[m]
    BY DEF ParentsHeld, Held
  <2>4. \A i \in Nodes : \A x \in Held(i) : arena[i][x] \subseteq Held(i)
    BY <1>4, <2>3 DEF Unbroken, HistoryInv, ParentsHeld
  <2>5. CASE g \in Held(m)
    BY <2>1, <2>2, <2>4, <2>5
  <2>6. CASE g \notin Held(m)
    BY <1>8, <1>10, <2>6
  <2> QED
    BY <2>5, <2>6
<1> QED
  <2>1. \A m \in Nodes : Held(m)' = DOMAIN arena'[m]
    BY DEF Held
  <2> QED
    BY <1>11, <1>12, <1>13, <1>14, <1>15, <1>16, <2>1 DEF HistoryInv

-----------------------------------------------------------------------------
(* Whom an engine serves: nobody twice, and outside a fan-out everybody    *)
(* else.                                                                   *)
LEMMA PeersAre ==
  ASSUME NEW i \in Nodes, NEW s \in Peers(i)
  PROVE  /\ s \in Seq(Nodes)
         /\ \A a, b \in 1..Len(s) : s[a] = s[b] => a = b
         /\ strategy # "gossip" => \A j \in Nodes \ {i} : \E k \in 1..Len(s) : s[k] = j
<1>1. NumNodes \in Nat \ {0} /\ Fanout \in Nat
  BY MeshAssumption
<1>2. CASE strategy # "gossip"
  <2>1. s = [k \in 1..(NumNodes - 1) |-> IF k < i THEN k ELSE k + 1]
    BY <1>2 DEF Peers
  <2>2. s \in [1..(NumNodes - 1) -> Nodes] /\ NumNodes - 1 \in Nat
    BY <1>1, <2>1 DEF Nodes
  <2>3. s \in Seq(Nodes) /\ Len(s) = NumNodes - 1
    BY <2>2
  <2>4. \A a, b \in 1..Len(s) : s[a] = s[b] => a = b
    BY <1>1, <2>1, <2>3 DEF Nodes
  <2>5. ASSUME NEW j \in Nodes \ {i}
        PROVE  \E k \in 1..Len(s) : s[k] = j
    <3>1. CASE j < i
      <4>1. j \in 1..Len(s) /\ s[j] = j
        BY <1>1, <2>1, <2>3, <3>1 DEF Nodes
      <4> QED
        BY <4>1
    <3>2. CASE j > i
      <4>1. j - 1 \in 1..Len(s) /\ s[j - 1] = j
        BY <1>1, <2>1, <2>3, <3>2 DEF Nodes
      <4> QED
        BY <4>1
    <3> QED
      BY <1>1, <3>1, <3>2 DEF Nodes
  <2> QED
    BY <2>3, <2>4, <2>5
<1>3. CASE strategy = "gossip"
  <2>1. PICK k \in Nat : /\ s \in [1..k -> Nodes \ {i}]
                         /\ \A a, b \in 1..k : s[a] = s[b] => a = b
    <3> DEFINE k == IF Fanout < NumNodes THEN Fanout ELSE NumNodes - 1
    <3>1. k \in Nat
      BY <1>1
    <3>2. s \in [1..k -> Nodes \ {i}] /\ \A a, b \in 1..k : s[a] = s[b] => a = b
      BY <1>3 DEF Peers
    <3> QED
      BY <3>1, <3>2
  <2>2. s \in [1..k -> Nodes]
    BY <2>1
  <2>3. s \in Seq(Nodes) /\ Len(s) = k
    BY <2>2
  <2> QED
    BY <1>3, <2>1, <2>3
<1> QED
  BY <1>2, <1>3

LEMMA SameHeldSameArena ==
  ASSUME Typed, HistoryInv, NEW i \in Nodes, NEW j \in Nodes, Held(i) = Held(j)
  PROVE  arena[i] = arena[j] /\ heads[i] = heads[j]
<1>1. arena[i] = [h \in Held(i) |-> arena[i][h]] /\ arena[j] = [h \in Held(j) |-> arena[j][h]]
  BY DEF Typed, Held
<1>2. \A h \in Held(i) : arena[i][h] = arena[j][h]
  BY DEF HistoryInv
<1>3. arena[i] = arena[j]
  BY <1>1, <1>2
<1> QED
  BY <1>3 DEF HistoryInv

(* When the last row is done without losses everybody holds the same.      *)
LEMMA RoundEndsConverged ==
  ASSUME Typed, LoopTyped, HistoryInv, RoundInv, peers = << >>, row = NumNodes
  PROVE  Converged
<1>1. ToServe = {}
  BY DEF ToServe
<1>2. \A j \in Nodes : Held(row) \subseteq Held(j)
  BY <1>1 DEF RoundInv
<1>3. \A i \in Nodes : Held(i) \subseteq Held(row)
  BY MeshAssumption DEF RoundInv, Nodes
<1>4. \A i, j \in Nodes : Held(i) = Held(j)
  BY <1>2, <1>3, Zenon DEF LoopTyped
<1> QED
  BY <1>4, SameHeldSameArena DEF Converged

LEMMA InitIInv == Init => IInv
<1> SUFFICES ASSUME Init PROVE IInv
  OBVIOUS
<1>0. NumNodes \in Nat \ {0} /\ MaxNodes \in Nat /\ 1 \in Nodes
  BY MeshAssumption DEF Nodes
<1>1. arena = [n \in Nodes |-> << >>] /\ heads = [n \in Nodes |-> {}]
  BY DEF Init
<1>2. DOMAIN << >> = {} /\ << >> \in [{} -> SUBSET Hashes]
  OBVIOUS
<1>3. Typed
  BY <1>1, <1>2 DEF Typed
<1>4. LoopTyped
  <2>1. lossy \in BOOLEAN
    <3>1. lossy \in IF strategy = "full" THEN BOOLEAN ELSE {FALSE}
      BY DEF Init
    <3>2. CASE strategy = "full"
      BY <3>1, <3>2
    <3>3. CASE strategy # "full"
      BY <3>1, <3>3
    <3> QED
      BY <3>2, <3>3
  <2>2. row \in Nodes /\ peers \in Seq(Nodes) /\ round \in Nat
    BY <1>0 DEF Init
  <2> QED
    BY <2>1, <2>2 DEF Init, LoopTyped
<1>5. \A n \in Nodes : Held(n) = {} /\ arena[n] = << >>
  BY <1>1, <1>2 DEF Held
<1>6. HistoryInv
  <2>1. Created = 1..0
    BY <1>1, <1>2 DEF Created
  <2>2. 0 \in 0..MaxNodes
    BY <1>0
  <2>3. \A n \in Nodes : ParentsPrecede(arena[n]) /\ heads[n] = Frontier(arena[n])
    BY <1>1, <1>2 DEF ParentsPrecede, Frontier
  <2>4. ParentsHeld
    BY <1>5 DEF ParentsHeld
  <2> QED
    BY <1>5, <2>1, <2>2, <2>3, <2>4 DEF HistoryInv
<1> QED
  BY <1>3, <1>4, <1>6 DEF Init, IInv

(* Every step keeps the histories in order and adds nothing to what was    *)
(* short.                                                                  *)
LEMMA NextHistory ==
  ASSUME IInv, [Next]_vars
  PROVE  Typed' /\ HistoryInv' /\ (Lossless' => Lossless)
<1>0. Typed /\ HistoryInv /\ LoopTyped
  BY DEF IInv
<1>1. \A n \in Nodes : arena[n] = Retain(arena[n], Held(n))
  BY <1>0 DEF Typed, Held, Retain
<1>2. strategy' = strategy /\ lossy' = lossy
  BY DEF Next, vars, CreateMutation, CopyWithin, Share, Heal, Lose, Serve, NextRow,
         Stop, NextRound
<1>3. SUFFICES Typed' /\ HistoryInv' /\ (Shallow' => Shallow)
  BY <1>2 DEF Lossless
<1>4. ASSUME UNCHANGED engines
      PROVE  Typed' /\ HistoryInv' /\ (Shallow' => Shallow)
  <2>1. arena' = arena /\ heads' = heads
    BY <1>4 DEF engines
  <2>2. Typed' /\ (Shallow' <=> Shallow)
    BY <1>0, <2>1 DEF Typed, Shallow, Hashes
  <2>3. HistoryInv'
    BY <1>0, <1>2, <2>1, <2>2 DEF HistoryInv, Unbroken, ParentsHeld, Created, Held
  <2> QED
    BY <2>2, <2>3
<1>5. ASSUME NEW n \in Nodes, CreateMutation(n)
      PROVE  Typed' /\ HistoryInv' /\ (Shallow' => Shallow)
  <2>1. Typed' /\ HistoryInv'
    BY <1>0, <1>5, CreateHistory
  <2>2. \A m \in Nodes : /\ Held(m) \subseteq DOMAIN arena'[m]
                         /\ \A h \in Held(m) : arena'[m][h] = arena[m][h]
    <3> DEFINE h == Cardinality(Created) + 1
    <3>1. h \notin Created
      <4>1. PICK k \in 0..MaxNodes : Created = 1..k
        BY <1>0 DEF HistoryInv
      <4>2. k \in Nat
        BY MeshAssumption
      <4>3. Cardinality(Created) = k
        BY <4>1, <4>2, FS_Interval
      <4> QED
        BY <4>1, <4>2, <4>3
    <3>2. h \notin Held(n)
      BY <3>1 DEF Created, Held
    <3>3. arena' = [arena EXCEPT ![n] = [g \in DOMAIN @ \cup {h} |->
                                           IF g = h THEN heads[n] ELSE @[g]]]
      BY <1>5 DEF CreateMutation
    <3> HIDE DEF h
    <3>4. arena'[n] = [g \in DOMAIN arena[n] \cup {h} |-> IF g = h THEN heads[n] ELSE arena[n][g]]
      BY <1>0, <3>3 DEF Typed
    <3>5. \A m \in Nodes \ {n} : arena'[m] = arena[m]
      BY <1>0, <3>3 DEF Typed
    <3> QED
      BY <3>2, <3>4, <3>5 DEF Held
  <2>3. \A m \in Nodes : ParentsPrecede(arena[m]) /\ ParentsPrecede(arena'[m])
    BY <1>0, <2>1 DEF HistoryInv
  <2> QED
    BY <1>0, <2>1, <2>2, <2>3, ShallowBefore
<1>6. ASSUME NEW to \in SUBSET Nodes, NEW src \in Nodes, Receive(to, arena[src])
      PROVE  Typed' /\ HistoryInv' /\ (Shallow' => Shallow)
  <2>1. Receive(to, Retain(arena[src], Held(src)))
    BY <1>1, <1>6
  <2>2. Unbroken => \A n \in to : \A h \in Held(src) : arena[src][h] \subseteq Held(src) \cup Held(n)
    BY <1>0 DEF HistoryInv, ParentsHeld
  <2> QED
    BY <1>0, <1>2, <2>1, <2>2, ReceiveHistory
<1>7. CASE Share
  <2>1. 1 \in Nodes
    BY MeshAssumption DEF Nodes
  <2> QED
    BY <1>6, <1>7, <2>1 DEF Share
<1>8. ASSUME NEW n \in Nodes, CopyWithin(n)
      PROVE  Typed' /\ HistoryInv' /\ (Shallow' => Shallow)
  <2>1. Leader[n] \in Nodes
    BY MeshAssumption
  <2> QED
    BY <1>6, <1>8, <2>1 DEF CopyWithin
<1>9. CASE Serve
  <2>1. row \in Nodes /\ Head(peers) \in Nodes
    BY <1>0, <1>9 DEF Serve, LoopTyped
  <2>2. PICK delta \in Deltas(row, Head(peers)) :
           Receive({Head(peers)}, Retain(arena[row], delta))
    BY <1>9 DEF Serve
  <2>3. /\ delta \in SUBSET Held(row)
        /\ Unbroken => \A h \in delta : arena[row][h] \subseteq delta \cup Held(Head(peers))
    BY <1>0, <2>1, DeltaCloses
  <2>4. {Head(peers)} \in SUBSET Nodes
    BY <2>1
  <2>5. Unbroken => \A n \in {Head(peers)} : \A h \in delta :
                       arena[row][h] \subseteq delta \cup Held(n)
    BY <2>3
  <2> QED
    BY <1>0, <1>2, <2>1, <2>2, <2>3, <2>4, <2>5, ReceiveHistory
<1>10. CASE Heal \/ Lose \/ NextRow \/ Stop \/ NextRound \/ UNCHANGED vars
  BY <1>4, <1>10 DEF Heal, Lose, NextRow, Stop, NextRound, vars, engines
<1> QED
  BY <1>5, <1>7, <1>8, <1>9, <1>10 DEF Next

(* Serving one more peer in the first round.                               *)
LEMMA ServeRound ==
  ASSUME IInv, Serve, Lossless, RoundInv
  PROVE  RoundInv'
<1> DEFINE j == Head(peers)
<1>0. Typed /\ HistoryInv /\ LoopTyped
  BY DEF IInv
<1>1. /\ row \in Nodes /\ j \in Nodes /\ peers # << >> /\ peers \in Seq(Nodes)
      /\ peers' = Tail(peers) /\ row' = row /\ round' = round
  BY <1>0 DEF Serve, LoopTyped
<1>2. PICK D \in Deltas(row, j) : Receive({j}, Retain(arena[row], D))
  BY DEF Serve
<1>3. Unbroken
  BY DEF Lossless, Unbroken
<1>4. D \in SUBSET Held(row) /\ Held(row) \subseteq D \cup Held(j)
  BY <1>0, <1>1, <1>3, DeltaCloses
<1>5. \A n \in Nodes : Held(n)' = IF n = j THEN Held(n) \cup D ELSE Held(n)
  <2>1. {j} \in SUBSET Nodes
    BY <1>1
  <2>2. \A n \in Nodes : Held(n)' = IF n \in {j} THEN Held(n) \cup D ELSE Held(n)
    BY <1>0, <1>1, <1>2, <1>4, <2>1, ReceiveAdds
  <2> QED
    BY <2>2
<1>6. /\ \A a \in 1..Len(peers') : a + 1 \in 1..Len(peers) /\ peers'[a] = peers[a + 1]
      /\ j = peers[1] /\ 1 \in 1..Len(peers)
      /\ \A a \in 1..Len(peers) : a = 1 \/ (a - 1 \in 1..Len(peers') /\ peers'[a - 1] = peers[a])
      /\ Len(peers) \in Nat
  BY <1>1
<1>7. \A a, b \in 1..Len(peers) : peers[a] = peers[b] => a = b
  BY DEF RoundInv
<1>8. \A a, b \in 1..Len(peers') : peers'[a] = peers'[b] => a = b
  <2> SUFFICES ASSUME NEW a \in 1..Len(peers'), NEW b \in 1..Len(peers'), peers'[a] = peers'[b]
               PROVE  a = b
    OBVIOUS
  <2>1. a + 1 = b + 1
    BY <1>6, <1>7
  <2> QED
    BY <2>1
<1>9. ToServe' = {peers'[k] : k \in 1..Len(peers')}
  BY DEF ToServe
<1>10. ToServe = ToServe' \cup {j}
  BY <1>6, <1>9 DEF ToServe
<1>11. j \notin ToServe'
  <2> SUFFICES ASSUME NEW a \in 1..Len(peers'), peers'[a] = j PROVE FALSE
    BY <1>9
  <2>1. a + 1 = 1
    BY <1>6, <1>7
  <2> QED
    BY <2>1
<1> HIDE DEF j
<1>12. Held(row)' = Held(row)
  BY <1>1, <1>4, <1>5
<1>13. ASSUME NEW n \in Nodes \ {row}, n \notin ToServe'
       PROVE  Held(row) \subseteq Held(n)'
  BY <1>4, <1>5, <1>10, <1>13 DEF RoundInv
<1>14. ASSUME NEW i \in Nodes, i < row
       PROVE  Held(i)' \subseteq Held(row)
  BY <1>4, <1>5, <1>14 DEF RoundInv
<1>15. ASSUME NEW i \in Nodes, i < row, i \in ToServe', NEW n \in Nodes
       PROVE  Held(i)' \subseteq Held(n)'
  BY <1>5, <1>10, <1>11, <1>15 DEF RoundInv
<1>16. round' = 1
  BY <1>1 DEF RoundInv
<1> QED
  <2>1. \A n \in Nodes \ {row'} : n \notin ToServe' => Held(row)' \subseteq Held(n)'
    BY <1>1, <1>12, <1>13
  <2>2. \A i \in Nodes : i < row' =>
           /\ Held(i)' \subseteq Held(row)'
           /\ i \in ToServe' => \A n \in Nodes : Held(i)' \subseteq Held(n)'
    BY <1>1, <1>12, <1>14, <1>15
  <2> QED
    BY <1>8, <1>16, <2>1, <2>2 DEF RoundInv

(* The loops keep to their types and, without losses, to the first round.  *)
LEMMA NextLoopTyped ==
  ASSUME IInv, [Next]_vars
  PROVE  LoopTyped' /\ (phase' \in {"shared", "apart"} => row' = 1)
<1>0. LoopTyped /\ (phase \in {"shared", "apart"} => row = 1)
  BY DEF IInv
<1>1. NumNodes \in Nat \ {0} /\ 1 \in Nodes
  BY MeshAssumption DEF Nodes
<1>2. CASE \E n \in Nodes : CreateMutation(n) \/ CopyWithin(n)
  BY <1>0, <1>2 DEF CreateMutation, CopyWithin, LoopTyped, loop
<1>3. CASE Share
  BY <1>0, <1>3 DEF Share, LoopTyped, loop
<1>4. CASE Heal
  <2>1. peers' \in Seq(Nodes)
    BY <1>1, <1>4, PeersAre DEF Heal
  <2> QED
    BY <1>0, <1>4, <2>1 DEF Heal, LoopTyped
<1>5. CASE Lose \/ Serve
  <2>1. peers' \in Seq(Nodes) /\ row' = row /\ round' = round /\ phase' = phase
        /\ phase = "sync" /\ UNCHANGED <<strategy, lossy>>
    BY <1>0, <1>5 DEF Lose, Serve, LoopTyped
  <2> QED
    BY <1>0, <2>1 DEF LoopTyped
<1>6. CASE NextRow
  <2>1. row + 1 \in Nodes
    BY <1>0, <1>1, <1>6 DEF NextRow, LoopTyped, Nodes
  <2>2. peers' \in Seq(Nodes)
    BY <1>6, <2>1, PeersAre DEF NextRow
  <2> QED
    BY <1>0, <1>6, <2>1, <2>2 DEF NextRow, LoopTyped
<1>7. CASE Stop
  BY <1>0, <1>7 DEF Stop, LoopTyped, loop
<1>8. CASE NextRound
  <2>1. peers' \in Seq(Nodes)
    BY <1>1, <1>8, PeersAre DEF NextRound
  <2> QED
    BY <1>0, <1>1, <1>8, <2>1 DEF NextRound, LoopTyped
<1>9. CASE UNCHANGED vars
  BY <1>0, <1>9 DEF vars, LoopTyped
<1> QED
  BY <1>2, <1>3, <1>4, <1>5, <1>6, <1>7, <1>8, <1>9 DEF Next

(* A row begins: everybody else is still to be served.                     *)
LEMMA NewRow ==
  ASSUME NEW i \in Nodes, peers' \in Peers(i), strategy # "gossip"
  PROVE  /\ \A a, b \in 1..Len(peers') : peers'[a] = peers'[b] => a = b
         /\ \A j \in Nodes \ {i} : j \in ToServe'
<1>1. ToServe' = {peers'[k] : k \in 1..Len(peers')}
  BY DEF ToServe
<1>2. /\ \A a, b \in 1..Len(peers') : peers'[a] = peers'[b] => a = b
      /\ \A j \in Nodes \ {i} : \E k \in 1..Len(peers') : peers'[k] = j
  BY PeersAre
<1> QED
  BY <1>1, <1>2

LEMMA NextRoundInv ==
  ASSUME IInv, [Next]_vars, Lossless, phase' = "sync"
  PROVE  RoundInv'
<1>0. /\ phase = "sync" => RoundInv
      /\ ~lossy /\ strategy # "gossip"
      /\ Typed /\ HistoryInv /\ LoopTyped
  BY DEF IInv, Lossless
<1>1. NumNodes \in Nat \ {0} /\ 1 \in Nodes
  BY MeshAssumption DEF Nodes
<1>2. CASE Heal
  <2>1. row = 1 /\ row' = 1 /\ round' = 1 /\ peers' \in Peers(1)
    BY <1>2 DEF Heal, IInv
  <2>2. ~\E i \in Nodes : i < row'
    BY <2>1 DEF Nodes
  <2> QED
    BY <1>0, <1>1, <2>1, <2>2, NewRow DEF RoundInv
<1>3. CASE Serve
  BY <1>0, <1>3, ServeRound DEF Serve
<1>4. CASE NextRow
  <2>1. /\ peers = << >> /\ row' = row + 1 /\ peers' \in Peers(row + 1)
        /\ round' = round /\ arena' = arena /\ row < NumNodes
    BY <1>4 DEF NextRow, engines
  <2>2. RoundInv /\ row \in Nodes /\ row + 1 \in Nodes
    BY <1>0, <1>1, <1>4, <2>1 DEF NextRow, LoopTyped, Nodes
  <2>3. ToServe = {}
    BY <2>1 DEF ToServe
  <2>4. \A j \in Nodes : Held(row) \subseteq Held(j)
    BY <2>2, <2>3 DEF RoundInv
  <2>5. \A i \in Nodes : i < row + 1 => i < row \/ i = row
    BY <2>2 DEF Nodes
  <2>6. \A i \in Nodes : i < row + 1 => \A j \in Nodes : Held(i) \subseteq Held(j)
    BY <2>2, <2>4, <2>5 DEF RoundInv
  <2>7. \A n \in Nodes : Held(n)' = Held(n)
    BY <2>1 DEF Held
  <2>8. \A j \in Nodes \ {row + 1} : j \in ToServe'
    BY <1>0, <2>1, <2>2, NewRow
  <2>9. \A a, b \in 1..Len(peers') : peers'[a] = peers'[b] => a = b
    BY <1>0, <2>1, <2>2, NewRow
  <2>10. \A i \in Nodes : i < row' => Held(i)' \subseteq Held(row)'
    <3> PICK r \in Nodes : r = row + 1 /\ r = row'
      BY <2>1, <2>2
    <3>1. \A i \in Nodes : i < r => Held(i)' \subseteq Held(r)'
      BY <2>6, <2>7
    <3> QED
      BY <3>1
  <2>11. \A i \in Nodes : i < row' => \A j \in Nodes : Held(i)' \subseteq Held(j)'
    BY <2>1, <2>6, <2>7
  <2>12. round' = 1
    BY <2>1, <2>2 DEF RoundInv
  <2> QED
    BY <2>1, <2>8, <2>9, <2>10, <2>11, <2>12 DEF RoundInv
<1>5. CASE NextRound
  <2>1. RoundInv /\ peers = << >> /\ row = NumNodes /\ ~Converged
    BY <1>0, <1>5 DEF NextRound
  <2> QED
    BY <1>0, <2>1, RoundEndsConverged
<1>6. CASE UNCHANGED vars
  BY <1>0, <1>6 DEF vars, RoundInv, ToServe, Held
<1> QED
  BY <1>0, <1>2, <1>3, <1>4, <1>5, <1>6
  DEF Next, CreateMutation, CopyWithin, Share, Lose, Stop

LEMMA NextIInv == IInv /\ [Next]_vars => IInv'
<1> SUFFICES ASSUME IInv, [Next]_vars PROVE IInv'
  OBVIOUS
<1>1. Typed' /\ HistoryInv' /\ (Lossless' => Lossless)
  BY NextHistory
<1>2. LoopTyped' /\ (phase' \in {"shared", "apart"} => row' = 1)
  BY NextLoopTyped
<1>3. Lossless' /\ phase' = "sync" => RoundInv'
  BY <1>1, NextRoundInv
<1>4. ASSUME Lossless', phase' \in {"converged", "stalled"}
      PROVE  phase' = "converged" /\ round' = 1
  <2>1. Lossless
    BY <1>1, <1>4
  <2>2. CASE Stop
    <3>1. RoundInv /\ peers = << >> /\ row = NumNodes /\ round' = round
      BY <2>1, <2>2 DEF Stop, IInv, loop
    <3>2. Converged
      BY <3>1, RoundEndsConverged DEF IInv
    <3> QED
      BY <2>2, <3>1, <3>2 DEF Stop, RoundInv
  <2>3. CASE ~Stop
    <3>1. UNCHANGED <<phase, round>>
      BY <1>4, <2>3 DEF Next, vars, CreateMutation, CopyWithin, Share, Heal, Lose,
                        Serve, NextRow, NextRound, loop
    <3> QED
      BY <1>4, <2>1, <3>1 DEF IInv
  <2> QED
    BY <2>2, <2>3
<1> QED
  BY <1>1, <1>2, <1>3, <1>4 DEF IInv

LEMMA Invariant == Spec => []IInv
<1> QED
  BY InitIInv, NextIInv, PTL DEF Spec

-----------------------------------------------------------------------------
(* The merkle root is computed over the heads only, and every check of     *)
(* convergence compares roots: engines with the same heads hold the same   *)
(* DAG, for any number of engines and nodes, unless get_vdiff has had to   *)
(* cut a history deeper than HistoryDepth.                                 *)
THEOREM RootsIdentifyHistories == Spec => []SameRootSameHistory
<1>1. IInv => SameRootSameHistory
  <2> SUFFICES ASSUME IInv, NEW i \in Nodes, NEW j \in Nodes,
                      heads[i] = heads[j], strategy = "full" \/ Shallow
               PROVE  arena[i] = arena[j]
    BY DEF SameRootSameHistory
  <2>0. Typed /\ HistoryInv /\ ParentsHeld
    BY DEF IInv, HistoryInv, Unbroken
  <2>1. /\ \A n \in Nodes : ParentsPrecede(arena[n]) /\ heads[n] = Frontier(arena[n])
        /\ \A m, n \in Nodes : \A h \in Held(m) \cap Held(n) : arena[m][h] = arena[n][h]
        /\ \A n \in Nodes : \A h \in Held(n) : arena[n][h] \subseteq Held(n)
    BY <2>0 DEF HistoryInv, ParentsHeld
  <2>2. ASSUME NEW m \in Nodes, NEW n \in Nodes, heads[m] = heads[n]
        PROVE  Held(m) \subseteq Held(n)
    <3>1. IsDag(arena[m]) /\ IsDag(arena[n])
      BY <2>0, <2>1, ArenasAreDags
    <3>2. Frontier(arena[m]) \subseteq DOMAIN arena[n]
      BY <2>1, <2>2 DEF Frontier
    <3>3. \A h \in DOMAIN arena[m] \cap DOMAIN arena[n] : arena[m][h] = arena[n][h]
      BY <2>1 DEF Held
    <3>4. \A h \in DOMAIN arena[n] : arena[n][h] \subseteq DOMAIN arena[n]
      BY <2>1 DEF Held
    <3> QED
      BY <3>1, <3>2, <3>3, <3>4, SameFrontierSameNodes DEF Held
  <2>3. Held(i) = Held(j)
    BY <2>2
  <2> QED
    BY <2>0, <2>3, SameHeldSameArena
<1> QED
  BY <1>1, Invariant, PTL

(* bench_convergence.rs and bench_delta_sync.rs count the rounds until the *)
(* roots agree: without losses, and with no chain longer than HistoryDepth *)
(* for the delta, the engines served one after the other converge in the   *)
(* first round, and never stall.                                           *)
THEOREM FirstRoundConverges == Spec => []OneRoundSuffices
<1>1. IInv => OneRoundSuffices
  BY DEF IInv, OneRoundSuffices, Lossless
<1> QED
  BY <1>1, Invariant, PTL
=============================================================================
