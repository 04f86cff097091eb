---------------------------- MODULE HistorySweep -----------------------------
(***************************************************************************)
(* The worklist loop of MerkleCrdtEngine::compact_history (mark and sweep) *)
(* and MerkleCrdtEngine::get_vdiff (delta against a peer's heads), one     *)
(* iteration per step.  Both loops take the LAST entry of a vector, skip   *)
(* it if it was seen, is a stop point, or lies below the history depth,    *)
(* and otherwise mark it and push the parents the arena knows.             *)
(*                                                                         *)
(* The order in which heads and parents are pushed is the iteration order  *)
(* of a hash set when the worklist was filled or the node was created: any *)
(* order.                                                                  *)
(***************************************************************************)
EXTENDS MerkleDag, Sequences

CONSTANTS
  Hashes,        \* the content hashes there are
  HistoryDepth,  \* DAG_HISTORY_DEPTH
  Ops            \* which of the two loops runs

ASSUME HashesAssumption == Hashes \in SUBSET Nat /\ IsFiniteSet(Hashes)
ASSUME DepthAssumption  == HistoryDepth \in Nat
ASSUME OpsAssumption    == Ops \subseteq {"compact_history", "get_vdiff"}

VARIABLES
  op,      \* the call being executed
  arena,   \* engine.arena: hash -> parents
  heads,   \* engine.heads
  remote,  \* remote_set (empty for compact_history)
  queue,   \* the worklist of <<hash, depth>>, last entry first
  level,   \* keep / visited, with the depth each hash was marked at
  done     \* the call has returned

vars == <<op, arena, heads, remote, queue, level, done>>

Marked == DOMAIN level

(* Every order in which the elements of S can be pushed.                   *)
Orders(S) ==
  {s \in [1..Cardinality(S) -> S] : \A x \in S : \E i \in DOMAIN s : s[i] = x}

(* The worklist entries for the hashes of s at one depth.                  *)
At(s, depth) == [i \in DOMAIN s |-> <<s[i], depth>>]

(* An arena any merge history can leave: nodes whose parents precede them, *)
(* parents missing or not.                                                 *)
Init ==
  /\ op \in Ops
  /\ \E held \in SUBSET Hashes :
       \E link \in SUBSET {e \in held \X Hashes : e[2] < e[1]} :
         arena = [h \in held |-> {p \in Hashes : <<h, p>> \in link}]
  /\ heads = Frontier(arena)
  /\ remote \in IF op = "get_vdiff" THEN SUBSET Hashes ELSE {{}}
  /\ \E s \in Orders(heads) : queue = At(s, 0)
  /\ level = << >>
  /\ done = FALSE

Top  == queue[Len(queue)]
Rest == SubSeq(queue, 1, Len(queue) - 1)

(* Bugs to catch: the depth limit one level too far or too near, and the   *)
(* peer's heads forgotten.                                                 *)
IsSkippedLate(h, depth)  == h \in Marked \/ h \in remote \/ depth > HistoryDepth + 1
IsSkippedEarly(h, depth) == h \in Marked \/ h \in remote \/ depth >= HistoryDepth
IsSkippedAlone(h, depth) == h \in Marked \/ depth > HistoryDepth

IsSkipped(h, depth) == h \in Marked \/ h \in remote \/ depth > HistoryDepth

(* A bug to catch: a skipped entry is looked at, not taken off.            *)
SkipInPlace ==
  /\ queue # << >> /\ IsSkipped(Top[1], Top[2])
  /\ UNCHANGED vars

(* continue                                                                *)
Skip ==
  /\ queue # << >>
  /\ IsSkipped(Top[1], Top[2])
  /\ queue' = Rest
  /\ UNCHANGED <<op, arena, heads, remote, level, done>>

(* A bug to catch: the parents replace the worklist.                       *)
VisitOneChain ==
  /\ queue # << >> /\ ~IsSkipped(Top[1], Top[2])
  /\ level' = [h \in Marked \cup {Top[1]} |->
                 IF h = Top[1] THEN Top[2] ELSE level[h]]
  /\ IF Top[1] \in DOMAIN arena /\ arena[Top[1]] # {}
     THEN \E s \in Orders(arena[Top[1]]) : queue' = At(s, Top[2] + 1)
     ELSE queue' = Rest
  /\ UNCHANGED <<op, arena, heads, remote, done>>

(* Mark the node and push its parents one level deeper.                    *)
Visit ==
  /\ queue # << >>
  /\ ~IsSkipped(Top[1], Top[2])
  /\ level' = [h \in Marked \cup {Top[1]} |->
                 IF h = Top[1] THEN Top[2] ELSE level[h]]
  /\ IF Top[1] \in DOMAIN arena
     THEN \E s \in Orders(arena[Top[1]]) : queue' = Rest \o At(s, Top[2] + 1)
     ELSE queue' = Rest
  /\ UNCHANGED <<op, arena, heads, remote, done>>

(* Bugs to catch: the arena, or the heads, keep what was not marked.       *)
SweepMarked ==
  /\ queue = << >> /\ ~done /\ op = "compact_history"
  /\ arena' = Retain(arena, DOMAIN arena \ Marked)
  /\ heads' = IF arena' # arena THEN heads \cap Marked ELSE heads
  /\ done' = TRUE
  /\ UNCHANGED <<op, remote, queue, level>>

SweepHeads ==
  /\ queue = << >> /\ ~done /\ op = "compact_history"
  /\ arena' = Retain(arena, Marked)
  /\ heads' = IF arena' # arena THEN heads \ Marked ELSE heads
  /\ done' = TRUE
  /\ UNCHANGED <<op, remote, queue, level>>

(* compact_history: arena.retain(keep), then heads.retain(keep) if         *)
(* anything was removed.                                                   *)
Sweep ==
  /\ queue = << >> /\ ~done /\ op = "compact_history"
  /\ arena' = Retain(arena, Marked)
  /\ heads' = IF arena' # arena THEN heads \cap Marked ELSE heads
  /\ done' = TRUE
  /\ UNCHANGED <<op, remote, queue, level>>

(* get_vdiff: the nodes visited that the arena holds are the delta.        *)
Delta == Marked \cap DOMAIN arena

Return ==
  /\ queue = << >> /\ ~done /\ op = "get_vdiff"
  /\ done' = TRUE
  /\ UNCHANGED <<op, arena, heads, remote, queue, level>>

Next == Skip \/ Visit \/ Sweep \/ Return

Spec == Init /\ [][Next]_vars

(* The loop runs to its end inside one call of the actor.                  *)
FairSpec == Spec /\ WF_vars(Next)

-----------------------------------------------------------------------------
(* Types of the engine's fields and of the loop's locals.                  *)
TypeOK ==
  /\ op \in Ops
  /\ \E held \in SUBSET Hashes : arena \in [held -> SUBSET Hashes]
  /\ ParentsPrecede(arena)
  /\ heads \in SUBSET Hashes
  /\ remote \in SUBSET Hashes
  /\ queue \in Seq(Hashes \X Nat)
  /\ Marked \subseteq Hashes
  /\ level \in [Marked -> 0..HistoryDepth]
  /\ done \in BOOLEAN

(* The heads are the frontier of the arena, before the sweep and after it: *)
(* compact_history filters the heads it had instead of recomputing them,   *)
(* so removing a child while keeping its parent would leave a node without *)
(* children outside heads.                                                 *)
HeadsAreFrontier == heads = Frontier(arena)

(* ADR 002, "Frontier Preservation: Always keep all Heads".                *)
FrontierPreserved == [][heads' = heads]_vars

(* README, "Max DAG depth retained after GC": what is kept (or sent) is    *)
(* never further than HistoryDepth from a head, even along the shortest    *)
(* chain.                                                                  *)
WithinDepth ==
  [][done' # done =>
       \A h \in Marked \cap DOMAIN arena : Nearest(arena)[h] <= HistoryDepth]_vars

(* A node no chain puts below HistoryDepth survives the sweep.             *)
ShallowSurvives ==
  [][op = "compact_history" /\ done' # done =>
       \A h \in DOMAIN arena :
          Deepest(arena)[h] <= HistoryDepth => h \in DOMAIN arena']_vars

(* get_vdiff: nothing the peer names is sent back, and with the whole      *)
(* history within HistoryDepth, a peer that holds its heads and what is    *)
(* below them ends up with all this arena holds.                           *)
DeltaCompletes ==
  done /\ op = "get_vdiff" =>
    /\ Delta \cap remote = {}
    /\ (\A h \in DOMAIN arena : Deepest(arena)[h] <= HistoryDepth)
          => Delta \cup Ancestry(arena, remote) = DOMAIN arena

(* The comment on compact_history (and ADR 002's levels "behind the        *)
(* frontier"): a breadth-first search would keep every node a chain of at  *)
(* most HistoryDepth links reaches.  The code takes the newest worklist    *)
(* entry first, so a node can be marked at a depth greater than its        *)
(* distance and its parents be skipped for good.                           *)
KeepsConfiguredDepth ==
  [][op = "compact_history" /\ done' # done =>
       \A h \in DOMAIN arena :
          Nearest(arena)[h] <= HistoryDepth => h \in DOMAIN arena']_vars

(* The loop ends, although one hash may be pushed once per child.          *)
Terminates == <>done

(* The loop answers what the atomic walk promises.                         *)
Walk == INSTANCE BoundedWalk
          WITH visited <- IF done THEN Delta ELSE {}
RefinesBoundedWalk == Walk!Spec
=============================================================================
