---------------------------- MODULE AntiEntropy -----------------------------
(***************************************************************************)
(* Anti-entropy between engines, as the convergence examples run it over   *)
(* the library: a shared history, a partition in which groups append on    *)
(* their own, and rounds in which every engine serves its peers, one pair  *)
(* after the other, until the merkle roots agree.                          *)
(*                                                                         *)
(* An engine serves a peer with its whole arena ("full", over links that   *)
(* lose the exchange when lossy), or with get_vdiff against the peer's     *)
(* heads ("delta"), in a gossip fan-out to some random peers only          *)
(* ("gossip").                                                             *)
(***************************************************************************)
EXTENDS MerkleDag, Sequences

CONSTANTS
  NumNodes,      \* engines, served in the order of their number
  Leader,        \* for each engine, the one it copies in a partition
  Strategies,    \* which of the three
  Fanout,        \* peers an engine serves in a gossip round
  HistoryDepth,  \* DAG_HISTORY_DEPTH, the limit of get_vdiff
  MaxNodes,      \* bound: DAG nodes created
  MaxRounds      \* the rounds after which the examples give up

Nodes == 1..NumNodes

ASSUME MeshAssumption ==
  /\ NumNodes \in Nat \ {0} /\ Leader \in [Nodes -> Nodes]
  /\ Strategies \subseteq {"full", "delta", "gossip"}
  /\ {Fanout, HistoryDepth, MaxNodes, MaxRounds} \subseteq Nat

VARIABLES
  arena, heads,   \* of each engine
  phase,          \* "shared", "apart", "sync", and then how it ended
  strategy, lossy,
  row, peers,     \* the engine that serves, and whom it has still to serve
  transferred,    \* a DAG node was transferred in this round
  round

engines == <<arena, heads>>
loop    == <<row, peers, transferred, round>>
vars    == <<arena, heads, phase, strategy, lossy, row, peers, transferred, round>>

(* Everybody else in the order of the examples' loops, or shuffled and     *)
(* truncated.                                                              *)
Peers(i) ==
  IF strategy # "gossip"
  THEN {[k \in 1..(NumNodes - 1) |-> IF k < i THEN k ELSE k + 1]}
  ELSE LET k == IF Fanout < NumNodes THEN Fanout ELSE NumNodes - 1
       IN  {s \in [1..k -> Nodes \ {i}] : \A a, b \in 1..k : s[a] = s[b] => a = b}

Init ==
  /\ arena = [n \in Nodes |-> << >>]
  /\ heads = [n \in Nodes |-> {}]
  /\ phase = "shared"
  /\ strategy \in Strategies
  /\ lossy \in IF strategy = "full" THEN BOOLEAN ELSE {FALSE}
  /\ row = 1 /\ peers = << >> /\ transferred = FALSE /\ round = 0

(* append_mutation: a node over all the heads.  The name is fresh.         *)
Created == UNION {DOMAIN arena[n] : n \in Nodes}

CreateMutation(n) ==
  LET h == Cardinality(Created) + 1 IN
  /\ phase = "apart" \/ (phase = "shared" /\ n = 1)
  /\ h <= MaxNodes
  /\ arena' = [arena EXCEPT ![n] = [g \in DOMAIN @ \cup {h} |->
                                      IF g = h THEN heads[n] ELSE @[g]]]
  /\ heads' = [heads EXCEPT ![n] = {h}]
  /\ UNCHANGED <<phase, strategy, lossy, loop>>

(* arena.insert of what is missing, and recompute_heads.                   *)
WithNodes(held, delta) ==
  [h \in DOMAIN held \cup DOMAIN delta |-> IF h \in DOMAIN held THEN held[h] ELSE delta[h]]

(* A bug to catch: what came is put on top of the heads there were.        *)
RecomputedOnTop(held, old) == old \cup {h \in DOMAIN held : \A g \in DOMAIN held : g <= h}

Recomputed(held, old) == Frontier(held)

Receive(to, delta) ==
  LET new == [n \in Nodes |-> IF n \in to THEN WithNodes(arena[n], delta) ELSE arena[n]] IN
  /\ arena' = new
  /\ heads' = [n \in Nodes |-> IF new[n] = arena[n] THEN heads[n] ELSE Recomputed(new[n], heads[n])]

(* The baseline of engine 1 reaches everybody; the partition begins.       *)
Share ==
  /\ phase = "shared"
  /\ Receive(Nodes, arena[1])
  /\ phase' = "apart"
  /\ UNCHANGED <<strategy, lossy, loop>>

(* Within a group of the partition.                                        *)
CopyWithin(n) ==
  /\ phase = "apart"
  /\ arena[Leader[n]] # arena[n]
  /\ Receive({n}, arena[Leader[n]])
  /\ UNCHANGED <<phase, strategy, lossy, loop>>

Heal ==
  /\ phase = "apart"
  /\ phase' = "sync" /\ round' = 1
  /\ peers' \in Peers(1)
  /\ UNCHANGED <<engines, strategy, lossy, row, transferred>>

-----------------------------------------------------------------------------
(* Strategy 1, full-state transfer.                                        *)
Everything(i) == {DOMAIN arena[i]}

(* A bug to catch: the delta is computed against the own heads.            *)
DeltasOfOwn(i, j) ==
  {DOMAIN level : level \in Walks(arena[i], heads[j], heads[i], HistoryDepth)}

Deltas(i, j) ==
  IF strategy = "full" THEN Everything(i)
  ELSE {DOMAIN level : level \in Walks(arena[i], heads[i], heads[j], HistoryDepth)}

(* sync_round_with_impairment: the exchange is lost.                       *)
Lose ==
  /\ phase = "sync" /\ peers # << >> /\ lossy
  /\ peers' = Tail(peers)
  /\ UNCHANGED <<engines, phase, strategy, lossy, row, transferred, round>>

Serve ==
  /\ phase = "sync" /\ peers # << >>
  /\ \E delta \in Deltas(row, Head(peers)) :
       /\ Receive({Head(peers)}, Retain(arena[row], delta))
       /\ transferred' = (transferred \/ ~delta \subseteq DOMAIN arena[Head(peers)])
  /\ peers' = Tail(peers)
  /\ UNCHANGED <<phase, strategy, lossy, row, round>>

NextRow ==
  /\ phase = "sync" /\ peers = << >> /\ row < NumNodes
  /\ row' = row + 1
  /\ peers' \in Peers(row + 1)
  /\ UNCHANGED <<engines, phase, strategy, lossy, transferred, round>>

(* check_converged: one distinct merkle root, that is, the same heads.     *)
Converged == \A i, j \in Nodes : heads[i] = heads[j]

Stop ==
  /\ phase = "sync" /\ peers = << >> /\ row = NumNodes
  /\ Converged \/ ~transferred \/ round >= MaxRounds
  /\ phase' = IF Converged THEN "converged" ELSE "stalled"
  /\ UNCHANGED <<engines, strategy, lossy, loop>>

NextRound ==
  /\ phase = "sync" /\ peers = << >> /\ row = NumNodes
  /\ ~Converged /\ transferred /\ round < MaxRounds
  /\ row' = 1 /\ round' = round + 1 /\ transferred' = FALSE
  /\ peers' \in Peers(1)
  /\ UNCHANGED <<engines, phase, strategy, lossy>>

Next ==
  \/ \E n \in Nodes : CreateMutation(n) \/ CopyWithin(n)
  \/ Share \/ Heal \/ Lose \/ Serve \/ NextRow \/ Stop \/ NextRound

Spec == Init /\ [][Next]_vars

-----------------------------------------------------------------------------
(* No chain is longer than get_vdiff walks.                                *)
Shallow == \A n \in Nodes : \A h \in DOMAIN arena[n] : Deepest(arena[n])[h] <= HistoryDepth

(* The examples, and every health check, take equal merkle roots for equal *)
(* histories, although a root covers the heads only.  It stands for the    *)
(* history as long as no exchange cut one off.                             *)
SameRootSameHistory ==
  \A i, j \in Nodes :
    heads[i] = heads[j] /\ (strategy = "full" \/ Shallow) => arena[i] = arena[j]

(* The rounds are not simultaneous: an engine hands on what it was given   *)
(* in the same round.  So when nothing is lost the first round is the      *)
(* last, and none of the examples reports a mesh that stalled.             *)
OneRoundSuffices ==
  phase \in {"converged", "stalled"} /\ ~lossy /\ (strategy = "full" \/ (strategy = "delta" /\ Shallow))
    => phase = "converged" /\ round = 1

(* merkle_dag.rs, "Nodes already known to the remote (present in           *)
(* `remote_heads`) act as BFS stop points", and bench_delta_sync.rs,       *)
(* "Verify all converged": engines that report convergence hold the same   *)
(* history, however long it is.                                            *)
ConvergedMeansSameHistory ==
  phase = "converged" => \A i, j \in Nodes : arena[i] = arena[j]
=============================================================================
