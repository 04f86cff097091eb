------------------------- MODULE CrdtReplicas_proofs -------------------------
(***************************************************************************)
(* Proofs about the replicas: for every set of replicas, every GC          *)
(* threshold and history depth, whichever replicas have a failing store,   *)
(* and for every order in which batches arrive.                            *)
(***************************************************************************)
EXTENDS CrdtReplicas, SequenceTheorems, TLAPS

(* The frontier of some nodes, in terms of the global content.             *)
Tips(S) == {h \in S : \A c \in S : h \notin dag[c]}

IInv == TypeOK /\ HeadsAreFrontier /\ CacheCoherent

-----------------------------------------------------------------------------
LEMMA FrontierIsTips == \A S : Frontier(Nodes(S)) = Tips(S)
BY DEF Frontier, Children, Nodes, Tips

(* A node created now is no node's parent, and contents do not change.     *)
LEMMA Creation ==
  ASSUME TypeOK, NEW r \in Replicas, dag' = Append(dag, heads[r])
  PROVE  /\ NewHash = Len(dag) + 1 /\ NewHash \in Nat /\ NewHash \notin Created
         /\ Created' = Created \cup {NewHash}
         /\ dag' \in Seq(SUBSET Nat)
         /\ \A h \in Created : dag'[h] = dag[h] /\ NewHash \notin dag[h]
         /\ dag'[NewHash] = heads[r] /\ NewHash \notin heads[r]
         /\ \A h \in Created' : dag'[h] \subseteq 1..(h - 1)
<1>1. Len(dag) \in Nat /\ dag \in Seq(SUBSET Nat) /\ heads[r] \subseteq 1..Len(dag)
  BY DEF TypeOK, Created
<1>2. heads[r] \in SUBSET Nat
  BY <1>1
<1>3. /\ Len(dag') = Len(dag) + 1 /\ dag' \in Seq(SUBSET Nat)
      /\ \A h \in 1..Len(dag) : dag'[h] = dag[h]
      /\ dag'[Len(dag) + 1] = heads[r]
  BY <1>1, <1>2
<1>4. \A h \in 1..Len(dag) : dag[h] \subseteq 1..(h - 1)
  BY DEF TypeOK, Created
<1>5. \A h \in 1..Len(dag) : Len(dag) + 1 \notin dag[h]
  BY <1>1, <1>4
<1>6. 1..(Len(dag) + 1) = 1..Len(dag) \cup {Len(dag) + 1}
  BY <1>1
<1>7. \A h \in 1..(Len(dag) + 1) : dag'[h] \subseteq 1..(h - 1)
  BY <1>1, <1>3, <1>4, <1>6
<1> QED
  BY <1>1, <1>3, <1>5, <1>6, <1>7 DEF NewHash, Created

(* What an append leaves, whether or not it closes an epoch: the new node  *)
(* alone on top of what is kept of the arena.                              *)
LEMMA AppendEffect ==
  ASSUME IInv, NEW r \in Replicas, AppendMutation(r)
  PROVE  /\ NewHash \in held'[r] /\ held'[r] \subseteq held[r] \cup {NewHash}
         /\ heads'[r] = {NewHash} /\ headsSoa'[r] = {NewHash}
         /\ cachedRoot'[r] \subseteq {{NewHash}}
         /\ Tips(held[r])' = {NewHash}
         /\ \/ mutations'[r] = 0
            \/ mutations'[r] = mutations[r] + 1 /\ mutations[r] + 1 < GcThreshold
         /\ \A s \in Replicas \ {r} :
               /\ held'[s] = held[s] /\ heads'[s] = heads[s]
               /\ headsSoa'[s] = headsSoa[s] /\ cachedRoot'[s] = cachedRoot[s]
               /\ mutations'[s] = mutations[s]
<1> USE ThresholdAssumption, DepthAssumption
<1>1. TypeOK /\ dag' = Append(dag, heads[r]) /\ heads[r] = Tips(held[r])
  BY FrontierIsTips DEF IInv, HeadsAreFrontier, AppendMutation
<1>2. /\ held \in [Replicas -> SUBSET Created] /\ heads \in [Replicas -> SUBSET Created]
      /\ headsSoa \in [Replicas -> SUBSET Created]
      /\ cachedRoot \in [Replicas -> SUBSET SUBSET Created]
      /\ mutations \in [Replicas -> 0..(GcThreshold - 1)]
  BY <1>1 DEF TypeOK
<1>3. /\ NewHash \in Nat /\ NewHash \notin held[r]
      /\ \A h \in held[r] : dag'[h] = dag[h] /\ NewHash \notin dag[h]
      /\ dag'[NewHash] = heads[r] /\ NewHash \notin heads[r]
  BY <1>1, <1>2, Creation
<1>4. CASE AppendOnly(r)
  <2>1. held'[r] = held[r] \cup {NewHash}
    BY <1>2, <1>4 DEF AppendOnly, InvalidateRoot
  <2>2. Tips(held[r])' = {NewHash}
    <3>1. Tips(held[r])' = {h \in held[r] \cup {NewHash} :
                               \A c \in held[r] \cup {NewHash} : h \notin dag'[c]}
      BY <2>1 DEF Tips
    <3>2. \A c \in held[r] \cup {NewHash} : NewHash \notin dag'[c]
      BY <1>3
    <3>3. \A h \in held[r] : \E c \in held[r] \cup {NewHash} : h \in dag'[c]
      BY <1>1, <1>3 DEF Tips
    <3> QED
      BY <1>3, <3>1, <3>2, <3>3
  <2>3. mutations'[r] = mutations[r] + 1 /\ mutations[r] + 1 < GcThreshold
    BY <1>2, <1>4 DEF AppendOnly, InvalidateRoot, GcDue
  <2> QED
    BY <1>2, <1>4, <2>1, <2>2, <2>3 DEF AppendOnly, InvalidateRoot
<1>5. CASE AppendAndCompact(r)
  <2>1. PICK level \in Walks(Grown(r), {NewHash}, {}, HistoryDepth) :
          LET left == {NewHash} \cap DOMAIN level IN
            /\ held' = [held EXCEPT ![r] = DOMAIN level]
            /\ heads' = [heads EXCEPT ![r] = left]
            /\ headsSoa' = [headsSoa EXCEPT ![r] = left]
            /\ cachedRoot' = [cachedRoot EXCEPT ![r] = {left}]
    BY <1>5 DEF AppendAndCompact, FinalizeEpoch
  <2>2. IsWalk(Grown(r), {NewHash}, {}, HistoryDepth, level)
    BY <2>1 DEF Walks
  <2>3. /\ DOMAIN Grown(r) = held[r] \cup {NewHash}
        /\ \A h \in held[r] \cup {NewHash} : Grown(r)[h] = dag'[h]
    BY <1>3 DEF Grown
  <2>4. /\ NewHash \in DOMAIN level /\ DOMAIN level \subseteq held[r] \cup {NewHash}
        /\ \A h \in DOMAIN level \ {NewHash} : \E c \in DOMAIN level : h \in dag'[c]
    BY <2>2, <2>3 DEF IsWalk
  <2>5. /\ held'[r] = DOMAIN level /\ heads'[r] = {NewHash} /\ headsSoa'[r] = {NewHash}
        /\ cachedRoot'[r] = {{NewHash}}
    BY <1>2, <2>1, <2>4
  <2>6. Tips(held[r])' = {NewHash}
    <3>1. Tips(held[r])' = {h \in DOMAIN level : \A c \in DOMAIN level : h \notin dag'[c]}
      BY <2>5 DEF Tips
    <3>2. \A c \in DOMAIN level : NewHash \notin dag'[c]
      BY <1>3, <2>4
    <3> QED
      BY <2>4, <3>1, <3>2
  <2>7. /\ mutations'[r] = 0
        /\ \A s \in Replicas \ {r} : mutations'[s] = mutations[s]
    BY <1>2, <1>5 DEF AppendAndCompact, FinalizeEpoch
  <2>8. \A s \in Replicas \ {r} :
               /\ held'[s] = held[s] /\ heads'[s] = heads[s]
               /\ headsSoa'[s] = headsSoa[s] /\ cachedRoot'[s] = cachedRoot[s]
    BY <1>2, <2>1
  <2> QED
    BY <2>4, <2>5, <2>6, <2>7, <2>8
<1> QED
  BY <1>4, <1>5 DEF AppendMutation

(* What saving leaves in the store: entries of the hashes saved, under the *)
(* key of this boot, and what was there.                                   *)
LEMMA SaveEffect ==
  ASSUME TypeOK, NEW r \in Replicas, NEW C, Created \subseteq C,
         NEW S \in SUBSET C, Save(r, S)
  PROVE  /\ store' \in [Replicas -> SUBSET (C \X Nat)]
         /\ \A s \in Replicas \ {r} : store'[s] = store[s]
         /\ \A e \in store'[r] : e \in store[r] \/ e[1] \in S
<1>1. store \in [Replicas -> SUBSET (C \X Nat)] /\ KeyAt(boots[r]) \in Nat
  BY DEF TypeOK, KeyAt
<1>2. PICK saved \in IF r \in FaultyStores THEN SUBSET S ELSE {S} :
        store' = [store EXCEPT ![r] =
          {e \in @ : e[1] \notin saved} \cup {<<h, KeyAt(boots[r])>> : h \in saved}]
  BY DEF Save
<1>3. saved \in SUBSET S
  BY <1>2
<1>4. /\ \A s \in Replicas \ {r} : store'[s] = store[s]
      /\ store'[r] = {e \in store[r] : e[1] \notin saved}
                      \cup {<<h, KeyAt(boots[r])>> : h \in saved}
  BY <1>1, <1>2
<1>5. {<<h, KeyAt(boots[r])>> : h \in saved} = saved \X {KeyAt(boots[r])}
  OBVIOUS
<1>6. saved \X {KeyAt(boots[r])} \subseteq C \X Nat
  BY <1>1, <1>3
<1>7. store' \in [Replicas -> SUBSET (C \X Nat)]
  <2>1. store'[r] \in SUBSET (C \X Nat)
    BY <1>1, <1>4, <1>5, <1>6
  <2>2. store' = [store EXCEPT ![r] = store'[r]]
    BY <1>1, <1>2
  <2> QED
    BY <1>1, <2>1, <2>2
<1> QED
  BY <1>3, <1>4, <1>5, <1>7

-----------------------------------------------------------------------------
LEMMA InitIInv == Init => IInv
<1> SUFFICES ASSUME Init PROVE IInv
  OBVIOUS
<1> USE ThresholdAssumption
<1>1. Created = {} /\ dag \in Seq(SUBSET Nat)
  BY DEF Init, Created
<1>2. TypeOK
  BY <1>1 DEF Init, TypeOK
<1>3. HeadsAreFrontier /\ CacheCoherent
  BY FrontierIsTips DEF Init, HeadsAreFrontier, CacheCoherent, Tips
<1> QED
  BY <1>2, <1>3 DEF IInv

LEMMA AppendIInv ==
  ASSUME IInv, NEW r \in Replicas, AppendMutation(r)
  PROVE  IInv'
<1> USE ThresholdAssumption
<1>1. TypeOK /\ HeadsAreFrontier /\ CacheCoherent /\ dag' = Append(dag, heads[r])
  BY DEF IInv, AppendMutation
<1>2. /\ NewHash \in Created' /\ Created \subseteq Created'
      /\ \A h \in Created : dag'[h] = dag[h]
      /\ dag' \in Seq(SUBSET Nat) /\ \A h \in Created' : dag'[h] \subseteq 1..(h - 1)
  BY <1>1, Creation
<1>3. /\ held'[r] \subseteq held[r] \cup {NewHash}
      /\ heads'[r] = {NewHash} /\ headsSoa'[r] = {NewHash}
      /\ cachedRoot'[r] \subseteq {{NewHash}}
      /\ Tips(held[r])' = {NewHash}
      /\ mutations'[r] \in 0..(GcThreshold - 1)
      /\ \A s \in Replicas \ {r} :
            /\ held'[s] = held[s] /\ heads'[s] = heads[s]
            /\ headsSoa'[s] = headsSoa[s] /\ cachedRoot'[s] = cachedRoot[s]
            /\ mutations'[s] = mutations[s]
  <2>1. mutations[r] \in 0..(GcThreshold - 1)
    BY <1>1 DEF TypeOK
  <2> QED
    BY <2>1, AppendEffect
<1>4. /\ DOMAIN held' = Replicas /\ DOMAIN heads' = Replicas /\ DOMAIN headsSoa' = Replicas
      /\ DOMAIN cachedRoot' = Replicas /\ DOMAIN mutations' = Replicas
      /\ held' = [s \in Replicas |-> held'[s]] /\ heads' = [s \in Replicas |-> heads'[s]]
      /\ headsSoa' = [s \in Replicas |-> headsSoa'[s]]
      /\ cachedRoot' = [s \in Replicas |-> cachedRoot'[s]]
      /\ mutations' = [s \in Replicas |-> mutations'[s]]
  <2>1. CASE AppendOnly(r)
    BY <1>1, <2>1 DEF TypeOK, AppendOnly, InvalidateRoot
  <2>2. CASE AppendAndCompact(r)
    BY <1>1, <2>2 DEF TypeOK, AppendAndCompact, FinalizeEpoch
  <2> QED
    BY <2>1, <2>2 DEF AppendMutation
<1>5. /\ epoch' \in [Replicas -> Nat]
      /\ finalizedRoot' \in [Replicas -> SUBSET SUBSET Created']
  <2>1. CASE AppendOnly(r)
    BY <1>1, <1>2, <2>1 DEF TypeOK, AppendOnly, InvalidateRoot, epochs
  <2>2. CASE AppendAndCompact(r)
    <3>1. PICK left \in SUBSET {NewHash} :
            finalizedRoot' = [finalizedRoot EXCEPT ![r] = {left}]
      BY <2>2 DEF AppendAndCompact, FinalizeEpoch
    <3>2. {left} \in SUBSET SUBSET Created'
      BY <1>2, <3>1
    <3>3. epoch' = [epoch EXCEPT ![r] = @ + 1]
      BY <2>2 DEF AppendAndCompact, FinalizeEpoch
    <3> QED
      BY <1>1, <1>2, <3>1, <3>2, <3>3 DEF TypeOK
  <2> QED
    BY <2>1, <2>2 DEF AppendMutation
<1>6. store' \in [Replicas -> SUBSET (Created' \X Nat)]
  <2>1. {NewHash} \in SUBSET Created' /\ Save(r, {NewHash})
    BY <1>2 DEF AppendMutation
  <2> QED
    BY <1>1, <1>2, <2>1, SaveEffect
<1>7. boots' \in [Replicas -> Nat] /\ received' \in [Replicas -> SUBSET Created']
  BY <1>1, <1>2 DEF TypeOK, AppendMutation
<1>8. TypeOK'
  <2>1. ASSUME NEW s \in Replicas
        PROVE  /\ held'[s] \in SUBSET Created' /\ heads'[s] \in SUBSET Created'
               /\ headsSoa'[s] \in SUBSET Created'
               /\ cachedRoot'[s] \in SUBSET SUBSET Created'
               /\ mutations'[s] \in 0..(GcThreshold - 1)
    <3>1. /\ held[s] \in SUBSET Created /\ heads[s] \in SUBSET Created
          /\ headsSoa[s] \in SUBSET Created
          /\ cachedRoot[s] \in SUBSET SUBSET Created
          /\ mutations[s] \in 0..(GcThreshold - 1)
      BY <1>1 DEF TypeOK
    <3>2. CASE s = r
      BY <1>2, <1>3, <3>1, <3>2
    <3>3. CASE s # r
      BY <1>2, <1>3, <3>1, <3>3
    <3> QED
      BY <3>2, <3>3
  <2>2. /\ held' \in [Replicas -> SUBSET Created'] /\ heads' \in [Replicas -> SUBSET Created']
        /\ headsSoa' \in [Replicas -> SUBSET Created']
        /\ cachedRoot' \in [Replicas -> SUBSET SUBSET Created']
        /\ mutations' \in [Replicas -> 0..(GcThreshold - 1)]
    BY <1>4, <2>1
  <2> QED
    BY <1>2, <1>5, <1>6, <1>7, <2>2 DEF TypeOK
<1>9. HeadsAreFrontier'
  <2>1. ASSUME NEW s \in Replicas
        PROVE  heads'[s] = Tips(held[s])'
    <3>1. CASE s = r
      BY <1>3, <3>1
    <3>2. CASE s # r
      <4>1. held[s] \subseteq Created /\ heads[s] = Tips(held[s])
        BY <1>1, FrontierIsTips DEF TypeOK, HeadsAreFrontier
      <4> QED
        BY <1>2, <1>3, <3>2, <4>1 DEF Tips
    <3> QED
      BY <3>1, <3>2
  <2>2. \A s \in Replicas : Frontier(Nodes(held[s]))' = Tips(held[s])'
    BY DEF Frontier, Children, Nodes, Tips
  <2> QED
    BY <2>1, <2>2 DEF HeadsAreFrontier
<1>10. CacheCoherent'
  BY <1>1, <1>3 DEF CacheCoherent
<1> QED
  BY <1>8, <1>9, <1>10 DEF IInv

LEMMA MergeIInv ==
  ASSUME IInv, NEW r \in Replicas, NEW batch \in Batches, Merge(r, batch)
  PROVE  IInv'
<1> DEFINE added == batch \ held[r]
           grown == held[r] \cup added
<1>1. TypeOK /\ HeadsAreFrontier /\ CacheCoherent
  BY DEF IInv
<1>2. /\ dag' = dag /\ Created' = Created
      /\ held' = [held EXCEPT ![r] = grown]
      /\ heads' = [heads EXCEPT ![r] = Tips(grown)]
      /\ headsSoa' = [headsSoa EXCEPT ![r] = Tips(grown)]
      /\ cachedRoot' = [cachedRoot EXCEPT ![r] = {}]
      /\ received' = [received EXCEPT ![r] = @ \cup added]
      /\ Save(r, added)
      /\ UNCHANGED <<mutations, epoch, finalizedRoot, boots>>
  BY FrontierIsTips DEF Merge, InvalidateRoot, RecomputedHeads, epochs, Created
<1>3. grown \in SUBSET Created /\ added \in SUBSET Created /\ Tips(grown) \in SUBSET Created
  BY <1>1 DEF TypeOK, Batches, Tips
<1>4. store' \in [Replicas -> SUBSET (Created \X Nat)]
  BY <1>1, <1>2, <1>3, SaveEffect
<1> HIDE DEF added, grown
<1>5. TypeOK'
  BY <1>1, <1>2, <1>3, <1>4 DEF TypeOK
<1>6. HeadsAreFrontier'
  <2>1. ASSUME NEW s \in Replicas
        PROVE  heads'[s] = Tips(held'[s])
    BY <1>1, <1>2, FrontierIsTips DEF TypeOK, HeadsAreFrontier
  <2>2. \A s \in Replicas : Frontier(Nodes(held[s]))' = Tips(held'[s])
    BY <1>2 DEF Frontier, Children, Nodes, Tips
  <2> QED
    BY <2>1, <2>2 DEF HeadsAreFrontier
<1>7. CacheCoherent'
  BY <1>1, <1>2 DEF TypeOK, CacheCoherent
<1> QED
  BY <1>5, <1>6, <1>7 DEF IInv

LEMMA GetRootIInv ==
  ASSUME IInv, NEW r \in Replicas, GetRoot(r)
  PROVE  IInv'
<1>1. TypeOK /\ HeadsAreFrontier /\ CacheCoherent
  BY DEF IInv
<1>2. RootOf(r) = heads[r] /\ heads[r] \in SUBSET Created
  BY <1>1 DEF CacheCoherent, RootOf, TypeOK
<1>3. /\ cachedRoot' = [cachedRoot EXCEPT ![r] = {heads[r]}]
      /\ Created' = Created
      /\ UNCHANGED <<dag, held, heads, headsSoa, mutations, epoch, finalizedRoot, store,
                     boots, received>>
  BY <1>2 DEF GetRoot, epochs, Created
<1>4. TypeOK'
  BY <1>1, <1>2, <1>3 DEF TypeOK
<1>5. HeadsAreFrontier'
  BY <1>1, <1>3 DEF HeadsAreFrontier, Frontier, Children, Nodes
<1>6. CacheCoherent'
  BY <1>1, <1>2, <1>3 DEF CacheCoherent, TypeOK
<1> QED
  BY <1>4, <1>5, <1>6 DEF IInv

LEMMA RestartIInv ==
  ASSUME IInv, NEW r \in Replicas, Restart(r)
  PROVE  IInv'
<1> USE ThresholdAssumption
<1>1. TypeOK /\ HeadsAreFrontier /\ CacheCoherent
  BY DEF IInv
<1>2. Loadable(r, KeyAt(boots[r] + 1)) \in SUBSET Created
  BY <1>1 DEF TypeOK, Loadable
<1>3. PICK loaded \in SUBSET Created :
        /\ held' = [held EXCEPT ![r] = loaded]
        /\ heads' = [heads EXCEPT ![r] = Tips(loaded)]
        /\ headsSoa' = [headsSoa EXCEPT ![r] = Tips(loaded)]
        /\ received' = [received EXCEPT ![r] = loaded]
  <2>1. PICK loaded \in {{}, Loadable(r, KeyAt(boots[r] + 1))} :
          /\ held' = [held EXCEPT ![r] = loaded]
          /\ heads' = [heads EXCEPT ![r] = Frontier(Nodes(loaded))]
          /\ headsSoa' = [headsSoa EXCEPT ![r] = Frontier(Nodes(loaded))]
          /\ received' = [received EXCEPT ![r] = loaded]
    BY DEF Restart, RecomputedHeads
  <2>2. loaded \in SUBSET Created
    BY <1>2, <2>1
  <2> QED
    BY <2>1, <2>2, FrontierIsTips
<1>4. /\ boots' = [boots EXCEPT ![r] = @ + 1]
      /\ cachedRoot' = [cachedRoot EXCEPT ![r] = {}]
      /\ mutations' = [mutations EXCEPT ![r] = 0]
      /\ epoch' = [epoch EXCEPT ![r] = 0]
      /\ finalizedRoot' = [finalizedRoot EXCEPT ![r] = {}]
      /\ dag' = dag /\ Created' = Created /\ store' = store
      /\ Tips(loaded) \in SUBSET Created
  BY DEF Restart, RecomputedHeads, Created, Tips
<1>5. TypeOK'
  BY <1>1, <1>3, <1>4 DEF TypeOK
<1>6. HeadsAreFrontier'
  <2>1. ASSUME NEW s \in Replicas
        PROVE  heads'[s] = Tips(held'[s])
    BY <1>1, <1>3, FrontierIsTips DEF TypeOK, HeadsAreFrontier
  <2>2. \A s \in Replicas : Frontier(Nodes(held[s]))' = Tips(held'[s])
    BY <1>4 DEF Frontier, Children, Nodes, Tips
  <2> QED
    BY <2>1, <2>2 DEF HeadsAreFrontier
<1>7. CacheCoherent'
  BY <1>1, <1>3, <1>4 DEF TypeOK, CacheCoherent
<1> QED
  BY <1>5, <1>6, <1>7 DEF IInv

LEMMA NextIInv == IInv /\ [Next]_vars => IInv'
<1> SUFFICES ASSUME IInv, [Next]_vars PROVE IInv'
  OBVIOUS
<1>1. ASSUME NEW r \in Replicas, AppendMutation(r)
      PROVE  IInv'
  BY <1>1, AppendIInv
<1>2. ASSUME NEW r \in Replicas, NEW batch \in Batches, Merge(r, batch)
      PROVE  IInv'
  BY <1>2, MergeIInv
<1>3. ASSUME NEW r \in Replicas, GetRoot(r)
      PROVE  IInv'
  BY <1>3, GetRootIInv
<1>4. ASSUME NEW r \in Replicas, Restart(r)
      PROVE  IInv'
  BY <1>4, RestartIInv
<1>5. CASE UNCHANGED vars
  <2>1. /\ Created' = Created
        /\ UNCHANGED <<dag, held, heads, headsSoa, cachedRoot, mutations, epoch,
                       finalizedRoot, store, boots, received>>
    BY <1>5 DEF vars, engine, epochs, Created
  <2>2. TypeOK'
    BY <2>1 DEF IInv, TypeOK
  <2>3. HeadsAreFrontier'
    BY <2>1 DEF IInv, HeadsAreFrontier, Frontier, Children, Nodes
  <2>4. CacheCoherent'
    BY <2>1 DEF IInv, CacheCoherent
  <2> QED
    BY <2>2, <2>3, <2>4 DEF IInv
<1> QED
  BY <1>1, <1>2, <1>3, <1>4, <1>5 DEF Next

LEMMA Invariant == Spec => []IInv
<1>1. Init => IInv
  BY InitIInv
<1>2. IInv /\ [Next]_vars => IInv'
  BY NextIInv
<1> QED
  BY <1>1, <1>2, PTL DEF Spec

-----------------------------------------------------------------------------
(* The fields have their types in every reachable state; the parents of a  *)
(* node are always older than the node.                                    *)
THEOREM TypeCorrect == Spec => []TypeOK
<1>1. IInv => TypeOK
  BY DEF IInv
<1> QED
  BY <1>1, Invariant, PTL

(* Append in place, recomputation after a merge, filtering by GC and the   *)
(* rebuild at a boot agree on what a head is.                              *)
THEOREM HeadsStayFrontier == Spec => []HeadsAreFrontier
<1>1. IInv => HeadsAreFrontier
  BY DEF IInv
<1> QED
  BY <1>1, Invariant, PTL

(* The cached root is never stale.                                         *)
THEOREM CacheStaysCoherent == Spec => []CacheCoherent
<1>1. IInv => CacheCoherent
  BY DEF IInv
<1> QED
  BY <1>1, Invariant, PTL

(* Two replicas with the same arena answer the same Merkle root, whatever  *)
(* the histories that led them there.                                      *)
THEOREM ReplicasConverge == Spec => []Convergence
<1>1. IInv => Convergence
  <2> SUFFICES ASSUME IInv, NEW r \in Replicas, NEW s \in Replicas, held[r] = held[s]
               PROVE  RootOf(r) = RootOf(s)
    BY DEF Convergence
  <2>1. heads[r] = heads[s]
    BY DEF IInv, HeadsAreFrontier
  <2>2. RootOf(r) = heads[r] /\ RootOf(s) = heads[s]
    BY DEF IInv, CacheCoherent, RootOf
  <2> QED
    BY <2>1, <2>2
<1> QED
  BY <1>1, Invariant, PTL

(* Nodes leave a running replica only in the step that closes an epoch,    *)
(* and the heads it finalizes stay.                                        *)
THEOREM PruningClosesEpoch == Spec => PruningOnlyAtEpoch
<1> DEFINE Step(r) ==
      /\ boots'[r] = boots[r]
      /\ ~(held[r] \subseteq held'[r])
      => /\ epoch'[r] = epoch[r] + 1
         /\ finalizedRoot'[r] = {heads'[r]}
         /\ heads'[r] # {}
         /\ heads'[r] \subseteq held'[r]
<1>1. ASSUME IInv, Next, NEW s \in Replicas
      PROVE  Step(s)
  <2>0. TypeOK
    BY <1>1 DEF IInv
  <2>1. ASSUME NEW r \in Replicas, AppendMutation(r)
        PROVE  Step(s)
    <3>1. CASE s # r
      BY <1>1, <2>1, <3>1, AppendEffect
    <3>2. CASE s = r /\ AppendOnly(r)
      BY <2>0, <3>2 DEF AppendOnly, InvalidateRoot, TypeOK
    <3>3. CASE s = r /\ AppendAndCompact(r)
      <4>1. NewHash \in held'[r] /\ heads'[r] = {NewHash}
        BY <1>1, <2>1, AppendEffect
      <4>2. epoch'[r] = epoch[r] + 1 /\ finalizedRoot'[r] = {heads'[r]}
        BY <2>0, <3>3 DEF AppendAndCompact, FinalizeEpoch, TypeOK
      <4> QED
        BY <3>3, <4>1, <4>2
    <3> QED
      BY <2>1, <3>1, <3>2, <3>3 DEF AppendMutation
  <2>2. ASSUME NEW r \in Replicas, NEW batch \in Batches, Merge(r, batch)
        PROVE  Step(s)
    BY <2>0, <2>2 DEF Merge, InvalidateRoot, RecomputedHeads, TypeOK
  <2>3. ASSUME NEW r \in Replicas, GetRoot(r)
        PROVE  Step(s)
    BY <2>3 DEF GetRoot
  <2>4. ASSUME NEW r \in Replicas, Restart(r)
        PROVE  Step(s)
    <3>1. CASE s = r
      BY <2>0, <2>4, <3>1 DEF Restart, RecomputedHeads, TypeOK
    <3>2. CASE s # r
      <4>1. PICK loaded : held' = [held EXCEPT ![r] = loaded]
        BY <2>4 DEF Restart, RecomputedHeads
      <4> QED
        BY <2>0, <3>2, <4>1 DEF TypeOK
    <3> QED
      BY <3>1, <3>2
  <2> QED
    BY <1>1, <2>1, <2>2, <2>3, <2>4 DEF Next
<1>2. IInv /\ [Next]_vars => [\A r \in Replicas : Step(r)]_vars
  BY <1>1
<1> QED
  BY <1>2, Invariant, PTL DEF Spec, PruningOnlyAtEpoch

-----------------------------------------------------------------------------
(* Durability, where no write fails.  The second conjunct is why a restart *)
(* brings no pruned node back as a head: what is stored and is not a head  *)
(* has a child in the store, which is never emptied.                       *)
Stored(r) == Loadable(r, KeyAt(boots[r]))

Sound == Replicas \ FaultyStores

DInv ==
  /\ DurableArena
  /\ \A r \in Sound : Tips(Stored(r)) \subseteq heads[r]

(* A save by one replica does not show in the store of another.            *)
LEMMA SaveElsewhere ==
  ASSUME TypeOK, NEW r \in Replicas, NEW S, Save(r, S), boots' = boots
  PROVE  \A s \in Replicas \ {r} : Stored(s)' = Stored(s)
<1>1. \A s \in Replicas \ {r} : store'[s] = store[s]
  BY DEF TypeOK, Save
<1> QED
  BY <1>1 DEF Stored, Loadable, KeyAt

(* One successful save, from the point of view of the next recovery.       *)
LEMMA SaveStores ==
  ASSUME TypeOK, NEW r \in Replicas, r \notin FaultyStores,
         NEW S, Save(r, S), boots' = boots
  PROVE  Stored(r)' = Stored(r) \cup S
<1> DEFINE key == KeyAt(boots[r])
<1>1. store'[r] = {e \in store[r] : e[1] \notin S} \cup {<<h, key>> : h \in S}
  BY DEF Save, TypeOK
<1>2. Stored(r)' = {e[1] : e \in {x \in store'[r] : x[2] = KeyAt(boots[r])}}
  BY DEF Stored, Loadable, KeyAt
<1>3. \A h \in S : <<h, key>> \in store'[r] /\ <<h, key>>[1] = h /\ <<h, key>>[2] = key
  BY <1>1
<1>4. \A e \in store'[r] : (e \in store[r] /\ e[1] \notin S) \/ e[1] \in S
  BY <1>1
<1>5. \A e \in store[r] : e[1] \notin S => e \in store'[r]
  BY <1>1
<1> HIDE DEF key
<1>6. Stored(r) = {e[1] : e \in {x \in store[r] : x[2] = key}}
  BY DEF Stored, Loadable, key
<1>7. Stored(r)' = {e[1] : e \in {x \in store'[r] : x[2] = key}}
  BY <1>2 DEF key
<1>8. ASSUME NEW h \in Stored(r)'
      PROVE  h \in Stored(r) \cup S
  <2>1. PICK e \in store'[r] : e[2] = key /\ h = e[1]
    BY <1>7
  <2> QED
    BY <1>4, <1>6, <2>1
<1>9. ASSUME NEW h \in Stored(r)
      PROVE  h \in Stored(r)' \cup S
  <2>1. PICK e \in store[r] : e[2] = key /\ h = e[1]
    BY <1>6
  <2> QED
    BY <1>5, <1>7, <2>1
<1>10. ASSUME NEW h \in S
       PROVE  h \in Stored(r)'
  <2>1. PICK e \in store'[r] : e[2] = key /\ h = e[1]
    BY <1>3
  <2> QED
    BY <1>7, <2>1
<1> QED
  BY <1>8, <1>9, <1>10

LEMMA InitDInv == Init => DInv
BY DEF Init, DInv, DurableArena, Loadable, Stored, Tips, Sound

LEMMA NextDInv == IInv /\ DInv /\ [Next]_vars => DInv'
<1> SUFFICES ASSUME IInv, DInv, [Next]_vars PROVE DInv'
  OBVIOUS
<1>0. /\ TypeOK /\ HeadsAreFrontier
      /\ \A s \in Sound : held[s] \subseteq Stored(s) /\ Tips(Stored(s)) \subseteq heads[s]
      /\ \A s \in Replicas : heads[s] = Tips(held[s])
      /\ Sound \subseteq Replicas
  BY FrontierIsTips DEF IInv, DInv, DurableArena, Stored, HeadsAreFrontier, Sound
<1>1. ASSUME NEW r \in Replicas, AppendMutation(r)
      PROVE  DInv'
  <2>1. /\ NewHash \in Created' /\ Created \subseteq Created' /\ NewHash \notin Created
        /\ \A h \in Created : dag'[h] = dag[h]
        /\ dag'[NewHash] = heads[r]
    BY <1>0, <1>1, Creation DEF AppendMutation
  <2>2. /\ held'[r] \subseteq held[r] \cup {NewHash} /\ heads'[r] = {NewHash}
        /\ \A s \in Replicas \ {r} : held'[s] = held[s] /\ heads'[s] = heads[s]
    BY <1>1, AppendEffect
  <2>3. /\ r \in Sound => Stored(r)' = Stored(r) \cup {NewHash}
        /\ \A s \in Replicas \ {r} : Stored(s)' = Stored(s)
    <3>1. {NewHash} \in SUBSET Created' /\ Save(r, {NewHash}) /\ boots' = boots
      BY <1>1, <2>1 DEF AppendMutation
    <3> QED
      BY <1>0, <2>1, <3>1, SaveStores, SaveElsewhere DEF Sound
  <2>4. \A s \in Replicas : Stored(s) \subseteq Created
    BY <1>0 DEF Stored, Loadable, TypeOK
  <2>5. ASSUME NEW s \in Sound
        PROVE  held'[s] \subseteq Stored(s)'
    BY <1>0, <2>2, <2>3
  <2>6. ASSUME NEW s \in Sound
        PROVE  Tips(Stored(s))' \subseteq heads'[s]
    <3>1. CASE s = r
      <4>0. r \in Sound
        BY <3>1
      <4>1. ASSUME NEW h \in Tips(Stored(r))', h # NewHash
            PROVE  FALSE
        <5>1. h \in Stored(r) /\ \A c \in Stored(r) \cup {NewHash} : h \notin dag'[c]
          BY <2>3, <4>0, <4>1 DEF Tips
        <5>2. h \in Tips(Stored(r))
          BY <2>1, <2>4, <5>1 DEF Tips
        <5> QED
          BY <1>0, <2>1, <4>0, <5>1, <5>2
      <4> QED
        BY <2>2, <3>1, <4>1
    <3>2. CASE s # r
      BY <1>0, <2>1, <2>2, <2>3, <2>4, <3>2 DEF Tips
    <3> QED
      BY <3>1, <3>2
  <2> QED
    BY <2>5, <2>6 DEF DInv, DurableArena, Stored, Sound
<1>2. ASSUME NEW r \in Replicas, NEW batch \in Batches, Merge(r, batch)
      PROVE  DInv'
  <2> DEFINE added == batch \ held[r]
  <2>1. /\ dag' = dag /\ Created' = Created
        /\ held' = [held EXCEPT ![r] = held[r] \cup added]
        /\ heads' = [heads EXCEPT ![r] = Tips(held[r] \cup added)]
        /\ Save(r, added) /\ boots' = boots
    BY <1>2, FrontierIsTips DEF Merge, InvalidateRoot, RecomputedHeads, Created
  <2>2. added \in SUBSET Created
    BY DEF Batches
  <2>3. /\ r \in Sound => Stored(r)' = Stored(r) \cup added
        /\ \A s \in Replicas \ {r} : Stored(s)' = Stored(s)
    BY <1>0, <2>1, <2>2, SaveStores, SaveElsewhere DEF Sound
  <2> HIDE DEF added
  <2>4. /\ held'[r] = held[r] \cup added /\ heads'[r] = Tips(held[r] \cup added)
        /\ \A s \in Replicas \ {r} : held'[s] = held[s] /\ heads'[s] = heads[s]
    BY <1>0, <2>1 DEF TypeOK
  <2>5. ASSUME NEW s \in Sound
        PROVE  held'[s] \subseteq Stored(s)'
    BY <1>0, <2>3, <2>4
  <2>6. ASSUME NEW s \in Sound
        PROVE  Tips(Stored(s))' \subseteq heads'[s]
    <3>1. CASE s = r
      <4>0. r \in Sound
        BY <3>1
      <4>1. ASSUME NEW h \in Tips(Stored(r))'
            PROVE  h \in Tips(held[r] \cup added)
        <5>1. /\ h \in Stored(r) \cup added
              /\ \A c \in Stored(r) \cup added : h \notin dag[c]
          BY <2>1, <2>3, <4>0, <4>1 DEF Tips
        <5>2. h \in held[r] \cup added
          BY <1>0, <4>0, <5>1 DEF Tips
        <5> QED
          BY <1>0, <4>0, <5>1, <5>2 DEF Tips
      <4> QED
        BY <2>4, <3>1, <4>1
    <3>2. CASE s # r
      BY <1>0, <2>1, <2>3, <2>4, <3>2 DEF Tips
    <3> QED
      BY <3>1, <3>2
  <2> QED
    BY <2>5, <2>6 DEF DInv, DurableArena, Stored, Sound
<1>3. ASSUME NEW r \in Replicas, GetRoot(r)
      PROVE  DInv'
  BY <1>3 DEF GetRoot, DInv, DurableArena, Stored, Loadable, KeyAt, Tips, Sound
<1>4. ASSUME NEW r \in Replicas, Restart(r)
      PROVE  DInv'
  <2> DEFINE loaded == Loadable(r, KeyAt(boots[r] + 1))
  <2>1. PICK got \in {loaded} \cup (IF r \in FaultyStores THEN {{}} ELSE {}) :
          /\ held' = [held EXCEPT ![r] = got]
          /\ heads' = [heads EXCEPT ![r] = Tips(got)]
          /\ boots' = [boots EXCEPT ![r] = @ + 1] /\ UNCHANGED <<dag, store>>
    <3>1. PICK got \in {loaded} \cup (IF r \in FaultyStores THEN {{}} ELSE {}) :
            /\ held' = [held EXCEPT ![r] = got]
            /\ heads' = [heads EXCEPT ![r] = RecomputedHeads(r, got)]
      BY <1>4 DEF Restart
    <3>2. RecomputedHeads(r, got) = Tips(got)
      BY FrontierIsTips DEF RecomputedHeads
    <3> QED
      BY <1>4, <3>1, <3>2 DEF Restart
  <2>0. r \in Sound => got = loaded
    BY <2>1 DEF Sound
  <2>2. Stored(r)' = loaded /\ \A s \in Replicas \ {r} : Stored(s)' = Stored(s)
    BY <1>0, <2>1 DEF TypeOK, Stored, Loadable, KeyAt
  <2>3. ASSUME NEW s \in Sound
        PROVE  held'[s] \subseteq Stored(s)' /\ Tips(Stored(s))' \subseteq heads'[s]
    <3> HIDE DEF loaded
    <3> QED
      BY <1>0, <2>0, <2>1, <2>2 DEF TypeOK, Tips
  <2> QED
    BY <2>3 DEF DInv, DurableArena, Stored, Sound
<1>5. CASE UNCHANGED vars
  BY <1>5 DEF vars, engine, epochs, DInv, DurableArena, Stored, Loadable, KeyAt, Tips, Sound
<1> QED
  BY <1>1, <1>2, <1>3, <1>4, <1>5 DEF Next

LEMMA DurableInvariant == Spec => [](IInv /\ DInv)
<1>1. Init => IInv /\ DInv
  BY InitIInv, InitDInv
<1>2. (IInv /\ DInv) /\ [Next]_vars => (IInv /\ DInv)'
  BY NextIInv, NextDInv
<1> QED
  BY <1>1, <1>2, PTL DEF Spec

(* Where no write fails, a node is in the store before anyone can see it   *)
(* in the arena, whatever the stores of the other replicas do.             *)
THEOREM ArenaIsDurable == Spec => []DurableArena
<1>1. DInv => DurableArena
  BY DEF DInv
<1> QED
  BY <1>1, DurableInvariant, PTL

(* With the same secret at every boot, a restart gives the whole arena     *)
(* back, and pruned nodes come back only below the heads there were.       *)
THEOREM RecoveryIsComplete ==
  ASSUME StableIdentity
  PROVE  Spec => RestartRecovers
<1> DEFINE Step(r) ==
      boots'[r] # boots[r] =>
         /\ held[r] \subseteq held'[r]
         /\ heads'[r] \subseteq heads[r]
         /\ \A h \in heads[r] \ heads'[r] : \E c \in held'[r] : h \in dag[c]
<1>1. ASSUME IInv, DInv, Next, NEW s \in Sound
      PROVE  Step(s)
  <2> USE DEF Sound
  <2>0. TypeOK /\ \A r \in Replicas : heads[r] = Tips(held[r])
    BY <1>1, FrontierIsTips DEF IInv, HeadsAreFrontier
  <2>1. ASSUME NEW r \in Replicas, AppendMutation(r)
        PROVE  Step(s)
    BY <2>1 DEF AppendMutation
  <2>2. ASSUME NEW r \in Replicas, NEW batch \in Batches, Merge(r, batch)
        PROVE  Step(s)
    BY <2>2 DEF Merge, InvalidateRoot, RecomputedHeads
  <2>3. ASSUME NEW r \in Replicas, GetRoot(r)
        PROVE  Step(s)
    BY <2>3 DEF GetRoot
  <2>4. ASSUME NEW r \in Replicas, Restart(r)
        PROVE  Step(s)
    <3>1. CASE s # r
      BY <2>0, <2>4, <3>1 DEF Restart, RecomputedHeads, TypeOK
    <3>2. CASE s = r
      <4>1. Loadable(r, KeyAt(boots[r] + 1)) = Stored(r)
        BY <1>1 DEF Stored, KeyAt
      <4>2. held'[r] = Stored(r) /\ heads'[r] = Tips(Stored(r))
        <5>1. r \notin FaultyStores
          BY <3>2
        <5>2. /\ held' = [held EXCEPT ![r] = Stored(r)]
              /\ heads' = [heads EXCEPT ![r] = RecomputedHeads(r, Stored(r))]
          BY <2>4, <4>1, <5>1 DEF Restart
        <5>3. RecomputedHeads(r, Stored(r)) = Tips(Stored(r))
          BY FrontierIsTips DEF RecomputedHeads
        <5>4. DOMAIN held = Replicas /\ DOMAIN heads = Replicas
          BY <2>0 DEF TypeOK
        <5> QED
          BY <5>2, <5>3, <5>4
      <4>3. held[r] \subseteq Stored(r) /\ Tips(Stored(r)) \subseteq heads[r]
        BY <1>1, <3>2 DEF DInv, DurableArena, Stored
      <4> QED
        BY <2>0, <3>2, <4>2, <4>3 DEF Tips
    <3> QED
      BY <3>1, <3>2
  <2> QED
    BY <1>1, <2>1, <2>2, <2>3, <2>4 DEF Next
<1>2. (IInv /\ DInv) /\ [Next]_vars
        => [\A r \in Sound : Step(r)]_vars
  BY <1>1
<1> QED
  BY <1>2, DurableInvariant, PTL DEF Spec, RestartRecovers, Sound
=============================================================================
