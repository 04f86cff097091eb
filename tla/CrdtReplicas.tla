---------------------------- MODULE CrdtReplicas -----------------------------
(***************************************************************************)
(* Replicas of the Merkle-DAG: one CrdtActor (crdt/actor.rs) with its      *)
(* engine (crdt/merkle_dag.rs), its epochs (crdt/gc.rs) and its store      *)
(* (crdt/store.rs) per replica.  An actor handles one message at a time,   *)
(* so every handler is one action.                                         *)
(*                                                                         *)
(* Nodes travel between replicas as batches nobody orders: a batch may     *)
(* come late, twice, never, without the parents of its nodes, or after its *)
(* nodes were pruned at their origin.  Merge therefore takes any batch of  *)
(* nodes that were ever created.                                           *)
(*                                                                         *)
(* dag is the content behind every hash: hash i names the i-th node        *)
(* created anywhere, and dag[i] is its parents.  (Two appends never make   *)
(* the same node: the vector clock holds a fresh tick of the author.)  The *)
(* Merkle root, a hash over the sorted heads, is represented by the set of *)
(* heads; an Option<Hash32> is a set with at most one root in it.          *)
(***************************************************************************)
EXTENDS MerkleDag, Sequences

CONSTANTS
  Replicas,
  GcThreshold,     \* gc_mutation_threshold
  HistoryDepth,    \* DAG_HISTORY_DEPTH
  StableIdentity,  \* TRUE: every boot derives the store key from the same secret
                   \* FALSE: main.rs, which makes a new Identity at every boot
  FaultyStores,    \* replicas where save_node may fail (its error is dropped),
                   \* and the store may fail to open at a boot
  MaxNodes,        \* bound: nodes created
  MaxBatch,        \* bound: nodes in one Merge
  MaxBoots         \* bound: restarts of a replica

ASSUME ThresholdAssumption == GcThreshold \in Nat \ {0}
ASSUME DepthAssumption     == HistoryDepth \in Nat
ASSUME SwitchAssumption    == StableIdentity \in BOOLEAN /\ FaultyStores \subseteq Replicas
ASSUME BoundsAssumption    == MaxNodes \in Nat /\ MaxBatch \in Nat /\ MaxBoots \in Nat

VARIABLES
  dag,            \* parents of every node created, in order of creation
  held,           \* hashes in engine.arena
  heads,          \* engine.heads
  headsSoa,       \* engine.heads_soa, the copy the root is computed from
  cachedRoot,     \* engine.cached_root
  mutations,      \* engine.mutations_since_gc
  epoch,          \* epochs.current_epoch
  finalizedRoot,  \* epochs.finalized_root
  store,          \* redb table: <<hash, key it was encrypted with>>
  boots,          \* restarts so far
  received        \* history: every node this run of the process took in

engine == <<held, heads, headsSoa, cachedRoot, mutations>>
epochs == <<epoch, finalizedRoot>>
vars == <<dag, engine, epochs, store, boots, received>>

Created == 1..Len(dag)

(* The nodes with hashes in S, as an arena.                                *)
Nodes(S) == [h \in S |-> dag[h]]

Init ==
  /\ dag = << >>
  /\ held = [r \in Replicas |-> {}]
  /\ heads = [r \in Replicas |-> {}]
  /\ headsSoa = [r \in Replicas |-> {}]
  /\ cachedRoot = [r \in Replicas |-> {}]
  /\ mutations = [r \in Replicas |-> 0]
  /\ epoch = [r \in Replicas |-> 0]
  /\ finalizedRoot = [r \in Replicas |-> {}]
  /\ store = [r \in Replicas |-> {}]
  /\ boots = [r \in Replicas |-> 0]
  /\ received = [r \in Replicas |-> {}]

-----------------------------------------------------------------------------
(* The key of the store after b restarts.                                  *)
KeyAt(b) == IF StableIdentity THEN 0 ELSE b

(* A bug to catch: only the first node of a batch reaches the store.       *)
SaveFirst(r, S) ==
  \E h \in S : store' = [store EXCEPT ![r] =
                  {e \in @ : e[1] # h} \cup {<<h, KeyAt(boots[r])>>}]

(* save_node for each node of S, errors dropped.  An entry is replaced,    *)
(* so a node saved again is encrypted with the key of today.               *)
Save(r, S) ==
  \E saved \in IF r \in FaultyStores THEN SUBSET S ELSE {S} :
    store' = [store EXCEPT ![r] =
      {e \in @ : e[1] \notin saved} \cup {<<h, KeyAt(boots[r])>> : h \in saved}]

(* A bug to catch: the scan of the table stops one entry early.            *)
LoadableButLast(r, key) ==
  {e[1] : e \in {x \in store[r] : x[2] = key /\ \E y \in store[r] : y[1] > x[1]}}

(* load_batched: an entry the key of this boot does not decrypt is skipped *)
(* without an error.                                                       *)
Loadable(r, key) == {e[1] : e \in {x \in store[r] : x[2] = key}}

-----------------------------------------------------------------------------
(* Bugs to catch: the update of the heads that takes each node of a batch  *)
(* to be newer than the arena, and one that skips the links of nodes with  *)
(* a parent missing.                                                       *)
IncrementalHeads(r, S) ==
  (heads[r] \cup (S \ held[r])) \ UNION {dag[h] : h \in S \ held[r]}

ResolvedHeads(r, S) == {h \in S : \A c \in S : h \in dag[c] => dag[c] \ S # {}}

(* The heads of an arena that holds S, recomputed from all its nodes: by   *)
(* Merge and by the recovery at boot.                                      *)
RecomputedHeads(r, S) == Frontier(Nodes(S))

(* Bugs to catch: the root outlives the heads, or the copy does.           *)
KeepRoot(r, front) ==
  headsSoa' = [headsSoa EXCEPT ![r] = front] /\ UNCHANGED cachedRoot

KeepCopy(r, front) ==
  cachedRoot' = [cachedRoot EXCEPT ![r] = {}] /\ UNCHANGED headsSoa

(* invalidate_root, once the heads are front.                              *)
InvalidateRoot(r, front) ==
  /\ headsSoa' = [headsSoa EXCEPT ![r] = front]
  /\ cachedRoot' = [cachedRoot EXCEPT ![r] = {}]

(* A bug to catch: the epoch is closed on the root of before the append.   *)
FinalizeEarly(r, root) ==
  /\ epoch' = [epoch EXCEPT ![r] = @ + 1]
  /\ finalizedRoot' = [finalizedRoot EXCEPT ![r] = {heads[r]}]

(* finalize_epoch                                                          *)
FinalizeEpoch(r, root) ==
  /\ epoch' = [epoch EXCEPT ![r] = @ + 1]
  /\ finalizedRoot' = [finalizedRoot EXCEPT ![r] = {root}]

-----------------------------------------------------------------------------
(* CrdtMsg::Append: the new node takes all heads as its parents and        *)
(* becomes the only head.                                                  *)
NewHash == Len(dag) + 1

Grown(r) == [h \in held[r] \cup {NewHash} |-> IF h = NewHash THEN heads[r] ELSE dag[h]]

(* A bug to catch: collection starts one mutation late.                    *)
GcOverdue(r) == mutations[r] + 1 > GcThreshold

GcDue(r) == mutations[r] + 1 >= GcThreshold

(* append_mutation without garbage collection.                             *)
AppendOnly(r) ==
  /\ ~GcDue(r)
  /\ held' = [held EXCEPT ![r] = @ \cup {NewHash}]
  /\ heads' = [heads EXCEPT ![r] = {NewHash}]
  /\ InvalidateRoot(r, {NewHash})
  /\ mutations' = [mutations EXCEPT ![r] = @ + 1]
  /\ UNCHANGED epochs

(* append_mutation, then compact_history, then finalize_epoch with the     *)
(* root the compaction left, which get_merkle_root caches.                 *)
AppendAndCompact(r) ==
  /\ GcDue(r)
  /\ \E level \in Walks(Grown(r), {NewHash}, {}, HistoryDepth) :
       LET left == {NewHash} \cap DOMAIN level IN
         /\ held' = [held EXCEPT ![r] = DOMAIN level]
         /\ heads' = [heads EXCEPT ![r] = left]
         /\ headsSoa' = [headsSoa EXCEPT ![r] = left]
         /\ cachedRoot' = [cachedRoot EXCEPT ![r] = {left}]
         /\ FinalizeEpoch(r, left)
  /\ mutations' = [mutations EXCEPT ![r] = 0]

AppendMutation(r) ==
  /\ Len(dag) < MaxNodes
  /\ dag' = Append(dag, heads[r])
  /\ AppendOnly(r) \/ AppendAndCompact(r)
  /\ Save(r, {NewHash})
  /\ received' = [received EXCEPT ![r] = @ \cup {NewHash}]
  /\ UNCHANGED boots

(* CrdtMsg::Merge: nodes the arena lacks are added and saved; if there was *)
(* one, the heads are recomputed from the whole arena.                     *)
Merge(r, batch) ==
  LET added == batch \ held[r]
      front == RecomputedHeads(r, held[r] \cup added)
  IN
  /\ added # {}
  /\ held' = [held EXCEPT ![r] = @ \cup added]
  /\ heads' = [heads EXCEPT ![r] = front]
  /\ InvalidateRoot(r, front)
  /\ Save(r, added)
  /\ received' = [received EXCEPT ![r] = @ \cup added]
  /\ UNCHANGED <<dag, mutations, epochs, boots>>

(* CrdtMsg::GetRoot                                                        *)
RootOf(r) == IF cachedRoot[r] = {} THEN headsSoa[r] ELSE CHOOSE x \in cachedRoot[r] : TRUE

GetRoot(r) ==
  /\ cachedRoot' = [cachedRoot EXCEPT ![r] = {RootOf(r)}]
  /\ UNCHANGED <<dag, held, heads, headsSoa, mutations, epochs, store, boots, received>>

(* The process dies and comes back: CrdtActor::new reloads what the store  *)
(* yields and recomputes the frontier; everything else starts afresh.      *)
Restart(r) ==
  /\ boots[r] < MaxBoots
  /\ boots' = [boots EXCEPT ![r] = @ + 1]
  /\ \E loaded \in {Loadable(r, KeyAt(boots[r] + 1))} \cup (IF r \in FaultyStores THEN {{}} ELSE {}) :
       /\ held' = [held EXCEPT ![r] = loaded]
       /\ heads' = [heads EXCEPT ![r] = RecomputedHeads(r, loaded)]
       /\ headsSoa' = [headsSoa EXCEPT ![r] = RecomputedHeads(r, loaded)]
       /\ received' = [received EXCEPT ![r] = loaded]
  /\ cachedRoot' = [cachedRoot EXCEPT ![r] = {}]
  /\ mutations' = [mutations EXCEPT ![r] = 0]
  /\ epoch' = [epoch EXCEPT ![r] = 0]
  /\ finalizedRoot' = [finalizedRoot EXCEPT ![r] = {}]
  /\ UNCHANGED <<dag, store>>

Batches == {b \in SUBSET Created : Cardinality(b) \in 1..MaxBatch}

Next ==
  \E r \in Replicas :
    \/ AppendMutation(r)
    \/ \E batch \in Batches : Merge(r, batch)
    \/ GetRoot(r)
    \/ Restart(r)

Spec == Init /\ [][Next]_vars

-----------------------------------------------------------------------------
(* The fields have their types, and no node names a parent younger than    *)
(* itself.                                                                 *)
TypeOK ==
  /\ dag \in Seq(SUBSET Nat)
  /\ \A h \in Created : dag[h] \subseteq 1..(h - 1)
  /\ held \in [Replicas -> SUBSET Created]
  /\ heads \in [Replicas -> SUBSET Created]
  /\ headsSoa \in [Replicas -> SUBSET Created]
  /\ cachedRoot \in [Replicas -> SUBSET SUBSET Created]
  /\ mutations \in [Replicas -> 0..(GcThreshold - 1)]
  /\ epoch \in [Replicas -> Nat]
  /\ finalizedRoot \in [Replicas -> SUBSET SUBSET Created]
  /\ store \in [Replicas -> SUBSET (Created \X Nat)]
  /\ boots \in [Replicas -> Nat]
  /\ received \in [Replicas -> SUBSET Created]

(* actor.rs, "A node is a head iff no other node lists it as a parent",    *)
(* over the nodes the arena holds, however they came and went: append      *)
(* updates the heads in place, merge recomputes them, GC filters them and  *)
(* recovery rebuilds them.                                                 *)
HeadsAreFrontier == \A r \in Replicas : heads[r] = Frontier(Nodes(held[r]))

(* invalidate_root "must be called whenever heads change": the cached root *)
(* and the copy it is computed from never fall behind the heads.           *)
CacheCoherent ==
  \A r \in Replicas : headsSoa[r] = heads[r] /\ cachedRoot[r] \subseteq {heads[r]}

(* README, Convergence: "If two nodes possess the same store, they compute *)
(* the same Merkle heads" - whatever the order in which they got there.    *)
Convergence ==
  \A r, s \in Replicas : held[r] = held[s] => RootOf(r) = RootOf(s)

(* A running replica lets go of nodes only when it closes an epoch, and    *)
(* then never of the one it has just finalized.                            *)
PruningOnlyAtEpoch ==
  [][\A r \in Replicas :
       /\ boots'[r] = boots[r]
       /\ ~(held[r] \subseteq held'[r])
       => /\ epoch'[r] = epoch[r] + 1
          /\ finalizedRoot'[r] = {heads'[r]}
          /\ heads'[r] # {}
          /\ heads'[r] \subseteq held'[r]]_vars

(* Where no write fails, a crash at any moment finds every node of the     *)
(* arena in the store under the key of the running process, nodes from     *)
(* replicas with a failing store included.                                 *)
DurableArena ==
  \A r \in Replicas \ FaultyStores : held[r] \subseteq Loadable(r, KeyAt(boots[r]))

(* README, "Durable persistence": a restart gives back at least the arena  *)
(* the process had, and no head it did not have - although the store still *)
(* holds what GC pruned - and a head is only given up for a child of it.   *)
RestartRecovers ==
  [][\A r \in Replicas \ FaultyStores :
       boots'[r] # boots[r] =>
         /\ held[r] \subseteq held'[r]
         /\ heads'[r] \subseteq heads[r]
         /\ \A h \in heads[r] \ heads'[r] : \E c \in held'[r] : h \in dag[c]]_vars

(* ADR 002, "Determinism": "all honest nodes with the same history perform *)
(* the same pruning".                                                      *)
SameHistorySamePruning ==
  \A r, s \in Replicas :
    received[r] = received[s] => held[r] = held[s]
=============================================================================
