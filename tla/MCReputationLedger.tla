------------------------- MODULE MCReputationLedger --------------------------
(***************************************************************************)
(* Instances of ReputationLedger, on a scale of a few points: what the     *)
(* halving gives away by rounding is the same on any scale.                *)
(***************************************************************************)
EXTENDS ReputationLedger, TLC

PeerSymmetry == Permutations(Peers)
=============================================================================
