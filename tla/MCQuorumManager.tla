--------------------------- MODULE MCQuorumManager ---------------------------
(***************************************************************************)
(* A mesh of four authors that answer the prompt "p", and one of them also *)
(* "q".  Bob forks: two answers at his tick 1.  Alice answers the same     *)
(* request twice (one Ed25519 signature) across a reload of the rules, and *)
(* answers another request for the same prompt (a signature of its own).   *)
(***************************************************************************)
EXTENDS QuorumManager

Node(id, sig, origin, tick, prompt, decision) ==
  [id |-> id, signature |-> sig, vclock |-> << <<origin, tick>> >>,
   data |-> decision,
   evidence |-> {[prompt |-> prompt, decision |-> decision]}]

Silent(id, sig, origin, tick, data) ==
  [id |-> id, signature |-> sig, vclock |-> << <<origin, tick>> >>,
   data |-> data, evidence |-> {}]

AliceX      == Node(1, "sa1", "alice", 1, "p", "X")
AliceY      == Node(2, "sa1", "alice", 2, "p", "Y")
AliceXAgain == Node(3, "sa2", "alice", 3, "p", "X")
BobX        == Node(4, "sb1", "bob", 1, "p", "X")
BobForked   == Node(5, "sb2", "bob", 1, "p", "Y")
CarolY      == Node(6, "sc1", "carol", 1, "p", "Y")
CarolQ      == Node(7, "sc2", "carol", 2, "q", "X")
DaveY       == Node(8, "sd1", "dave", 1, "p", "Y")
BobResent   == Silent(9, "sb3", "bob", 1, "X")

Mesh    == {AliceX, AliceY, BobX, BobForked, CarolY, CarolQ, DaveY, BobResent}
Honest  == {AliceX, BobX, CarolY, DaveY}
Eager   == {AliceX, AliceXAgain, CarolQ}
BobsTwo == {BobX, BobForked, AliceX}

AllOrigins   == {"alice", "bob", "carol", "dave"}
AllVoters    == {n.signature : n \in Mesh \cup Eager}
AllPrompts   == {"p", "q"}
AllDecisions == {"X", "Y"}
=============================================================================
