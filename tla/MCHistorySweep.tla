--------------------------- MODULE MCHistorySweep ----------------------------
(***************************************************************************)
(* Instances of HistorySweep: five hashes give every DAG in which a node   *)
(* has chains of several lengths to a head and a parent of its own.        *)
(***************************************************************************)
EXTENDS HistorySweep

FourHashes == 1..4
FiveHashes == 1..5
SweepOnly  == {"compact_history"}
BothLoops  == {"compact_history", "get_vdiff"}

(* Bound: deltas run over four hashes only, times every set of remote      *)
(* heads.                                                                  *)
SmallDelta ==
  op = "get_vdiff" => DOMAIN arena \cup UNION {arena[h] : h \in DOMAIN arena} \cup remote
                        \subseteq FourHashes

BoundedInit == Init /\ SmallDelta
BoundedSpec == BoundedInit /\ [][Next]_vars /\ WF_vars(Next)
=============================================================================
