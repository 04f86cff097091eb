------------------------------ MODULE MerkleDag ------------------------------
(***************************************************************************)
(* The Merkle-DAG as data (crdt/merkle_dag.rs, crdt/arena.rs).             *)
(*                                                                         *)
(* A node is named by its content hash.  Hashes are naturals here: a node  *)
(* is hashed over the hashes of its parents (compute_hash), so a parent    *)
(* exists before its child and the order of creation is a topological      *)
(* order.  An arena is a function from the hashes it holds to the set of   *)
(* parent hashes in the node; a parent need not be in the arena (it was    *)
(* pruned, or the node overtook it on the network).                        *)
(***************************************************************************)
EXTENDS Integers, FiniteSets

(* The children of h that the arena holds.                                 *)
Children(arena, h) == {c \in DOMAIN arena : h \in arena[c]}

(* "A node is a head iff no other node lists it as a parent."              *)
Frontier(arena) == {h \in DOMAIN arena : Children(arena, h) = {}}

(* DagArena::retain                                                        *)
Retain(arena, keep) == [h \in DOMAIN arena \cap keep |-> arena[h]]

(* Content addressing: a node's parents were hashed before it.             *)
ParentsPrecede(arena) == \A h \in DOMAIN arena : \A p \in arena[h] : p < h

-----------------------------------------------------------------------------
(***************************************************************************)
(* What one depth-bounded walk from the heads visits, whatever the order   *)
(* in which it takes nodes off its worklist.  level[h] is the depth at     *)
(* which h was visited: heads at 0, every other node one level below a     *)
(* visited child, and every node above the depth limit has had its         *)
(* parents visited, unless they are in stop.                               *)
(***************************************************************************)
IsWalk(arena, heads, stop, limit, level) ==
  /\ DOMAIN level \subseteq DOMAIN arena \ stop
  /\ level \in [DOMAIN level -> 0..limit]
  /\ \A h \in (heads \cap DOMAIN arena) \ stop :
        h \in DOMAIN level /\ level[h] = 0
  /\ \A h \in DOMAIN level \ heads :
        \E c \in DOMAIN level : h \in arena[c] /\ level[h] = level[c] + 1
  /\ \A c \in DOMAIN level :
        level[c] < limit =>
           arena[c] \cap DOMAIN arena \subseteq DOMAIN level \cup stop

(* The possible walks, and the sets of arena nodes they visit.             *)
Walks(arena, heads, stop, limit) ==
  {level \in UNION {[V -> 0..limit] : V \in SUBSET (DOMAIN arena \ stop)} :
     IsWalk(arena, heads, stop, limit, level)}

-----------------------------------------------------------------------------
(***************************************************************************)
(* Reference notions of depth, for arenas whose heads are their frontier:  *)
(* the length of the shortest and of the longest chain of children from a  *)
(* head down to a node.                                                    *)
(***************************************************************************)
Least(S)    == CHOOSE x \in S : \A y \in S : x <= y
Greatest(S) == CHOOSE x \in S : \A y \in S : x >= y

Nearest(arena) ==
  LET near[h \in DOMAIN arena] ==
        IF Children(arena, h) = {} THEN 0
        ELSE 1 + Least({near[c] : c \in Children(arena, h)})
  IN  near

Deepest(arena) ==
  LET deep[h \in DOMAIN arena] ==
        IF Children(arena, h) = {} THEN 0
        ELSE 1 + Greatest({deep[c] : c \in Children(arena, h)})
  IN  deep

(* h and everything the arena knows below it.                              *)
Ancestry(arena, S) ==
  LET below[h \in DOMAIN arena] ==
        {h} \cup UNION {below[p] : p \in arena[h] \cap DOMAIN arena}
  IN  UNION {below[h] : h \in S \cap DOMAIN arena}
=============================================================================
