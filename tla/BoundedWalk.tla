----------------------------- MODULE BoundedWalk -----------------------------
(***************************************************************************)
(* What compact_history and get_vdiff promise, as one atomic step: the     *)
(* arena is walked from its heads down to HistoryDepth levels, stopping at *)
(* the nodes of remote, and                                                *)
(*   compact_history  keeps exactly the nodes visited,                     *)
(*   get_vdiff        answers exactly the nodes visited.                   *)
(* Which of two levels a node is visited at, when chains of different      *)
(* length lead to it, is left open.                                        *)
(***************************************************************************)
EXTENDS MerkleDag

CONSTANT HistoryDepth
VARIABLES op, arena, heads, remote, done, visited

vars == <<op, arena, heads, remote, done, visited>>

Init ==
  /\ op \in {"compact_history", "get_vdiff"}
  /\ heads = Frontier(arena)
  /\ done = FALSE
  /\ visited = {}

Answer ==
  /\ ~done
  /\ \E level \in Walks(arena, heads, remote, HistoryDepth) :
       /\ visited' = DOMAIN level
       /\ arena' = IF op = "compact_history"
                   THEN Retain(arena, DOMAIN level) ELSE arena
  /\ done' = TRUE
  /\ UNCHANGED <<op, heads, remote>>

Spec == Init /\ [][Answer]_vars
=============================================================================
