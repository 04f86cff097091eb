--------------------------- MODULE MCAntiEntropy ----------------------------
(***************************************************************************)
(* Three engines, of which the second copies the first in the partition.   *)
(***************************************************************************)
EXTENDS AntiEntropy

TwoGroups == <<1, 1, 3>>
=============================================================================
