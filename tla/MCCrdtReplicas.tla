--------------------------- MODULE MCCrdtReplicas ----------------------------
(***************************************************************************)
(* Instances of CrdtReplicas.                                              *)
(***************************************************************************)
EXTENDS CrdtReplicas, TLC

ReplicaSymmetry == Permutations(Replicas)
=============================================================================
