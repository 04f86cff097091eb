---------------------------- MODULE QuorumManager ----------------------------
(***************************************************************************)
(* QuorumManager (crdt/consensus.rs): equivocation detection and the vote  *)
(* on decisions, one manager per member of the mesh.  The actor hands it   *)
(* every node of a merge batch that its arena lacks (crdt/actor.rs); the   *)
(* order is the network's, and a node comes again once it was pruned.      *)
(* Nodes the member appends itself never pass through it.                  *)
(*                                                                         *)
(* A hash stands for what it hashes.  The voter the actor passes is the    *)
(* first half of the node's signature; the vector clock is the sequence of *)
(* its entries in key order, evidence a set of at most one.                *)
(***************************************************************************)
EXTENDS Integers, FiniteSets, Sequences

CONSTANTS
  Managers,
  Threshold,   \* quorum_threshold
  Origins,     \* vector clock keys
  Voters,      \* signature[..32]
  Prompts,
  Decisions,
  Data,        \* data_hash
  Nodes        \* the DagNodes there are in the mesh

Evidence == {{}} \cup {{e} : e \in [prompt : Prompts, decision : Decisions]}

DagNode == [id : Nat, signature : Voters, vclock : Seq(Origins \X Nat),
            data : Data, evidence : Evidence]

ASSUME ThresholdAssumption == Threshold \in Nat \ {0}
ASSUME NodesAssumption     == Nodes \subseteq DagNode

VARIABLES
  denied,     \* origins proven to equivocate
  proofs,     \* equivocation_proofs
  observed,   \* observed_ticks: <<origin, tick>> -> the node first seen there
  votes,      \* decisions: who voted what on which prompt
  verified,   \* prompts that reached quorum
  inspected   \* history: every node this run of the process was handed

equivocation == <<denied, proofs, observed>>
vars == <<equivocation, votes, verified, inspected>>

(* The <<origin, tick>> pairs n speaks for.                                *)
Entries(n) == {n.vclock[i] : i \in DOMAIN n.vclock}

Init ==
  /\ denied = [m \in Managers |-> {}]
  /\ proofs = [m \in Managers |-> {}]
  /\ observed = [m \in Managers |-> << >>]
  /\ votes = [m \in Managers |-> {}]
  /\ verified = [m \in Managers |-> {}]
  /\ inspected = [m \in Managers |-> {}]

-----------------------------------------------------------------------------
(* A bug to catch: the same data at the same tick counts as a conflict.    *)
ConflictsOnTick(m, n) ==
  {i \in DOMAIN n.vclock :
     n.vclock[i][1] \notin denied[m] /\ n.vclock[i] \in DOMAIN observed[m]}

(* The entries of n another node was first seen at, with other data.       *)
Conflicts(m, n) ==
  {i \in DOMAIN n.vclock :
     /\ n.vclock[i][1] \notin denied[m]
     /\ n.vclock[i] \in DOMAIN observed[m]
     /\ observed[m][n.vclock[i]].data # n.data}

(* Bugs to catch: the voter is denied in place of the origin, and the      *)
(* proof names the new node twice.                                         *)
ProofOfVoter(m, n, i) ==
  [origin |-> n.signature, tick |-> n.vclock[i][2],
   hash_a |-> observed[m][n.vclock[i]], hash_b |-> n]

ProofOfOne(m, n, i) ==
  [origin |-> n.vclock[i][1], tick |-> n.vclock[i][2], hash_a |-> n, hash_b |-> n]

Proof(m, n, i) ==
  [origin |-> n.vclock[i][1], tick |-> n.vclock[i][2],
   hash_a |-> observed[m][n.vclock[i]], hash_b |-> n]

(* observed_ticks with n at those of its first k entries that were free.   *)
Recorded(m, n, k) ==
  LET free == {n.vclock[i] : i \in {j \in 1..k : n.vclock[j][1] \notin denied[m]}}
  IN  [key \in DOMAIN observed[m] \cup free |->
         IF key \in DOMAIN observed[m] THEN observed[m][key] ELSE n]

(* check_equivocation, no conflict.                                        *)
Clean(m, n) ==
  /\ Conflicts(m, n) = {}
  /\ observed' = [observed EXCEPT ![m] = Recorded(m, n, Len(n.vclock))]
  /\ UNCHANGED <<denied, proofs>>

(* check_equivocation, returning at the first entry in conflict.           *)
Deny(m, n) ==
  \E i \in Conflicts(m, n) :
    /\ \A j \in Conflicts(m, n) : i <= j
    /\ denied' = [denied EXCEPT ![m] = @ \cup {Proof(m, n, i).origin}]
    /\ proofs' = [proofs EXCEPT ![m] = @ \cup {Proof(m, n, i)}]
    /\ observed' = [observed EXCEPT ![m] = Recorded(m, n, i - 1)]

CheckEquivocation(m, n) == Clean(m, n) \/ Deny(m, n)

-----------------------------------------------------------------------------
(* Bugs to catch: a settled prompt takes votes, and a prompt takes votes   *)
(* for the first decision only.                                            *)
CountsSettled(m, voter, e) ==
  /\ voter \notin denied'[m]
  /\ ~\E v \in votes[m] : v.prompt = e.prompt /\ v.voter = voter

CountsUncontested(m, voter, e) ==
  /\ e.prompt \notin verified[m]
  /\ voter \notin denied'[m]
  /\ ~\E v \in votes[m] : v.prompt = e.prompt /\ (v.voter = voter \/ v.decision # e.decision)

(* observe counts a vote unless the prompt is settled, the voter is on the *)
(* deny list, or it has voted on the prompt before.                        *)
Counts(m, voter, e) ==
  /\ e.prompt \notin verified[m]
  /\ voter \notin denied'[m]
  /\ ~\E v \in votes[m] : v.prompt = e.prompt /\ v.voter = voter

Vote(n, e) == [prompt |-> e.prompt, decision |-> e.decision, voter |-> n.signature]

Support(cast, prompt, decision) ==
  {v \in cast : v.prompt = prompt /\ v.decision = decision}

HasQuorum(cast, prompt, decision) ==
  Cardinality(Support(cast, prompt, decision)) >= Threshold

(* A bug to catch: votes for different decisions add up to a quorum.       *)
ObserveAny(m, n) ==
  \E e \in n.evidence :
    /\ Counts(m, n.signature, e)
    /\ votes' = [votes EXCEPT ![m] = @ \cup {Vote(n, e)}]
    /\ verified' = [verified EXCEPT ![m] =
         IF Cardinality({v \in votes'[m] : v.prompt = e.prompt}) >= Threshold
         THEN @ \cup {e.prompt} ELSE @]

Observe(m, n) ==
  \E e \in n.evidence :
    /\ Counts(m, n.signature, e)
    /\ votes' = [votes EXCEPT ![m] = @ \cup {Vote(n, e)}]
    /\ verified' = [verified EXCEPT ![m] =
         IF HasQuorum(votes'[m], e.prompt, e.decision) THEN @ \cup {e.prompt} ELSE @]

Ignore(m, n) ==
  /\ ~\E e \in n.evidence : Counts(m, n.signature, e)
  /\ UNCHANGED <<votes, verified>>

(* One node of a merge batch.                                              *)
Inspect(m, n) ==
  /\ CheckEquivocation(m, n)
  /\ Observe(m, n) \/ Ignore(m, n)
  /\ inspected' = [inspected EXCEPT ![m] = @ \cup {n}]

(* QuorumManager::new at every boot; restore_verified has no caller.       *)
Restart(m) ==
  /\ denied' = [denied EXCEPT ![m] = {}]
  /\ proofs' = [proofs EXCEPT ![m] = {}]
  /\ observed' = [observed EXCEPT ![m] = << >>]
  /\ votes' = [votes EXCEPT ![m] = {}]
  /\ verified' = [verified EXCEPT ![m] = {}]
  /\ inspected' = [inspected EXCEPT ![m] = {}]

Next ==
  \E m \in Managers :
    \/ \E n \in Nodes : Inspect(m, n)
    \/ Restart(m)

Spec == Init /\ [][Next]_vars

-----------------------------------------------------------------------------
(* Types of the manager's fields.                                          *)
TypeOK ==
  /\ denied \in [Managers -> SUBSET Origins]
  /\ proofs \in [Managers -> SUBSET [origin : Origins, tick : Nat,
                                     hash_a : Nodes, hash_b : Nodes]]
  /\ DOMAIN observed = Managers
  /\ \A m \in Managers :
       /\ DOMAIN observed[m] \subseteq Origins \X Nat
       /\ observed[m] \in [DOMAIN observed[m] -> Nodes]
  /\ votes \in [Managers -> SUBSET [prompt : Prompts, decision : Decisions,
                                    voter : Voters]]
  /\ verified \in [Managers -> SUBSET Prompts]
  /\ inspected \in [Managers -> SUBSET Nodes]

(* README, QuorumSafety: "If quorum is reached for a prompt, the decision  *)
(* is unique" - at one member, although verified records the prompt only   *)
(* and each decision is counted on its own.                                *)
QuorumSafety ==
  \A m \in Managers : \A p \in Prompts : \A d, e \in Decisions :
    HasQuorum(votes[m], p, d) /\ HasQuorum(votes[m], p, e) => d = e

(* "A decision is considered Verified when at least threshold" votes agree *)
(* on it, and only then: a vote that completes a quorum is never dropped,  *)
(* and no other order of votes settles a prompt.                           *)
VerifiedByQuorum ==
  \A m \in Managers : \A p \in Prompts :
    p \in verified[m] <=> \E d \in Decisions : HasQuorum(votes[m], p, d)

(* The voters that the member knows to say d on p, and nothing else on p.  *)
Agreeing(m, p, d) ==
  {v \in Voters \ denied[m] :
     /\ \E n \in inspected[m] : n.signature = v /\ [prompt |-> p, decision |-> d] \in n.evidence
     /\ \A n \in inspected[m] : \A e \in n.evidence :
          n.signature = v /\ e.prompt = p => e.decision = d}

(* README, QuorumLiveness: "If all nodes vote for the same decision, the   *)
(* quorum threshold is eventually reached" - at one member, once it was    *)
(* handed the votes of threshold voters that agree: neither votes for      *)
(* other decisions before, between or after them, nor repeated and         *)
(* conflicting votes of others, nor what check_equivocation does to their  *)
(* nodes keep the prompt from being settled.                               *)
AgreementSettles ==
  \A m \in Managers : \A p \in Prompts : \A d \in Decisions :
    Cardinality(Agreeing(m, p, d)) >= Threshold => p \in verified[m]

(* Every proof names two nodes the manager was handed that disagree at the *)
(* tick it names, and every denial rests on exactly one of them.           *)
DenialsProven ==
  \A m \in Managers :
    /\ \A x \in proofs[m] :
         /\ {x.hash_a, x.hash_b} \subseteq inspected[m]
         /\ <<x.origin, x.tick>> \in Entries(x.hash_a) \cap Entries(x.hash_b)
         /\ x.hash_a.data # x.hash_b.data
    /\ denied[m] = {x.origin : x \in proofs[m]}
    /\ \A x, y \in proofs[m] : x.origin = y.origin => x = y

(* Two nodes of S disagree about what origin did at one of its ticks.      *)
Forked(S, origin) ==
  \E a, b \in S :
    /\ a.data # b.data
    /\ \E key \in Entries(a) \cap Entries(b) : key[1] = origin

(* "Nodes that produce conflicting mutations at the same vector clock tick *)
(* are detected and denied": in whatever order the nodes came, the deny    *)
(* list is what their set makes it - when vector clocks have one entry, as *)
(* all the program makes do.                                               *)
DeniedAreForkers ==
  \A m \in Managers : denied[m] = {o \in Origins : Forked(inspected[m], o)}

(* README, QuorumSafety, read over the mesh: two members never settle a    *)
(* prompt with different decisions.                                        *)
MeshQuorumSafety ==
  \A m, k \in Managers : \A p \in Prompts : \A d, e \in Decisions :
    HasQuorum(votes[m], p, d) /\ HasQuorum(votes[k], p, e) => d = e

(* The doc of QuorumManager: "at least threshold independent nodes publish *)
(* identical decision hashes".  An author is known by its vclock key.      *)
Authors(m, voter) ==
  {n.vclock[1][1] : n \in {x \in inspected[m] : x.signature = voter}}

IndependentVoters ==
  \A m \in Managers : \A p \in verified[m] : \E d \in Decisions :
    Cardinality(UNION {Authors(m, v.voter) : v \in Support(votes[m], p, d)}) >= Threshold

(* The doc of observe: "Rejects votes from denied (Byzantine) origins."    *)
DeniedNeverVote ==
  [][\A m \in Managers : \A n \in inspected'[m] :
       Entries(n) \subseteq denied'[m] \X Nat =>
         {v \in votes'[m] : v.voter = n.signature} \subseteq votes[m]]_vars
=============================================================================
