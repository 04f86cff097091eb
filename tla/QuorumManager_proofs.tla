------------------------ MODULE QuorumManager_proofs -------------------------
(***************************************************************************)
(* Proofs about QuorumManager, for any mesh, threshold and order of        *)
(* delivery.  A settled prompt takes no more votes, so the votes on it are *)
(* the ones that settled it: that carries the safety of the tally, and no  *)
(* count of voters is needed beyond the empty tally having none.  The deny *)
(* list is carried by EInv: every observed tick points at a node that was  *)
(* handed in, and every node handed in agrees with what its ticks point at *)
(* or its origin is denied.                                                *)
(***************************************************************************)
EXTENDS QuorumManager, FiniteSetTheorems, TLAPS

-----------------------------------------------------------------------------
(* The types.                                                              *)

LEMMA NodeFields ==
  ASSUME NEW n \in Nodes
  PROVE  /\ n.vclock \in Seq(Origins \X Nat)
         /\ DOMAIN n.vclock = 1..Len(n.vclock) /\ Len(n.vclock) \in Nat
         /\ \A i \in DOMAIN n.vclock :
              /\ n.vclock[i] \in Origins \X Nat
              /\ n.vclock[i] \in Entries(n)
         /\ n.signature \in Voters
         /\ \A e \in n.evidence : e.prompt \in Prompts /\ e.decision \in Decisions
<1>1. n \in DagNode
  BY NodesAssumption
<1>2. n.vclock \in Seq(Origins \X Nat) /\ n.signature \in Voters /\ n.evidence \in Evidence
  BY <1>1 DEF DagNode
<1>3. DOMAIN n.vclock = 1..Len(n.vclock) /\ Len(n.vclock) \in Nat
      /\ \A i \in DOMAIN n.vclock : n.vclock[i] \in Origins \X Nat
  BY <1>2
<1>4. \A e \in n.evidence : e.prompt \in Prompts /\ e.decision \in Decisions
  BY <1>2 DEF Evidence
<1> QED
  BY <1>2, <1>3, <1>4 DEF Entries

LEMMA RecordedShape ==
  ASSUME TypeOK, NEW m \in Managers, NEW n \in Nodes,
         NEW k \in 0..Len(n.vclock)
  PROVE  LET new == Recorded(m, n, k) IN
         /\ new \in [DOMAIN new -> Nodes]
         /\ DOMAIN new \subseteq Origins \X Nat
         /\ DOMAIN observed[m] \subseteq DOMAIN new
         /\ \A key \in DOMAIN observed[m] : new[key] = observed[m][key]
         /\ \A key \in DOMAIN new \ DOMAIN observed[m] :
              new[key] = n /\ key \in Entries(n)
         /\ \A i \in 1..k : \/ n.vclock[i][1] \in denied[m]
                            \/ n.vclock[i] \in DOMAIN new
<1> DEFINE free == {n.vclock[i] : i \in {j \in 1..k : n.vclock[j][1] \notin denied[m]}}
<1>1. \A key \in free : key \in Origins \X Nat /\ key \in Entries(n)
  BY NodeFields
<1>2. /\ DOMAIN observed[m] \subseteq Origins \X Nat
      /\ observed[m] \in [DOMAIN observed[m] -> Nodes]
  BY DEF TypeOK
<1>3. \A i \in 1..k : n.vclock[i][1] \in denied[m] \/ n.vclock[i] \in free
  OBVIOUS
<1>4. Recorded(m, n, k) = [key \in DOMAIN observed[m] \cup free |->
         IF key \in DOMAIN observed[m] THEN observed[m][key] ELSE n]
  BY DEF Recorded
<1> QED
  <2> HIDE DEF free
  <2> QED
    BY <1>1, <1>2, <1>3, <1>4

LEMMA ProofFields ==
  ASSUME TypeOK, NEW m \in Managers, NEW n \in Nodes, NEW i \in Conflicts(m, n)
  PROVE  LET x == Proof(m, n, i) IN
         /\ x \in [origin : Origins, tick : Nat, hash_a : Nodes, hash_b : Nodes]
         /\ <<x.origin, x.tick>> = n.vclock[i]
         /\ x.origin \notin denied[m]
         /\ x.hash_a = observed[m][n.vclock[i]] /\ x.hash_b = n
         /\ x.hash_a.data # x.hash_b.data
         /\ i \in 1..Len(n.vclock)
         /\ n.vclock[i] \in DOMAIN observed[m]
<1>1. /\ i \in DOMAIN n.vclock /\ n.vclock[i][1] \notin denied[m]
      /\ n.vclock[i] \in DOMAIN observed[m]
      /\ observed[m][n.vclock[i]].data # n.data
  BY DEF Conflicts
<1>2. observed[m][n.vclock[i]] \in Nodes
  BY <1>1 DEF TypeOK
<1>3. n.vclock[i] \in Origins \X Nat /\ i \in 1..Len(n.vclock)
  BY <1>1, NodeFields
<1> QED
  BY <1>1, <1>2, <1>3 DEF Proof

LEMMA NextTypeOK == TypeOK /\ [Next]_vars => TypeOK'
<1> SUFFICES ASSUME TypeOK, [Next]_vars PROVE TypeOK'
  OBVIOUS
<1>1. ASSUME NEW m \in Managers, NEW n \in Nodes, Inspect(m, n)
      PROVE  TypeOK'
  <2>1. /\ denied' \in [Managers -> SUBSET Origins]
        /\ proofs' \in [Managers -> SUBSET [origin : Origins, tick : Nat,
                                            hash_a : Nodes, hash_b : Nodes]]
        /\ DOMAIN observed' = Managers
        /\ \A k \in Managers :
             /\ DOMAIN observed'[k] \subseteq Origins \X Nat
             /\ observed'[k] \in [DOMAIN observed'[k] -> Nodes]
    <3>1. CASE Clean(m, n)
      <4>1. Len(n.vclock) \in 0..Len(n.vclock)
        BY NodeFields
      <4>2. /\ DOMAIN Recorded(m, n, Len(n.vclock)) \subseteq Origins \X Nat
            /\ Recorded(m, n, Len(n.vclock))
                 \in [DOMAIN Recorded(m, n, Len(n.vclock)) -> Nodes]
        BY <4>1, RecordedShape
      <4> QED
        BY <3>1, <4>2 DEF Clean, TypeOK
    <3>2. CASE Deny(m, n)
      <4>1. PICK i \in Conflicts(m, n) :
              /\ denied' = [denied EXCEPT ![m] = @ \cup {Proof(m, n, i).origin}]
              /\ proofs' = [proofs EXCEPT ![m] = @ \cup {Proof(m, n, i)}]
              /\ observed' = [observed EXCEPT ![m] = Recorded(m, n, i - 1)]
        BY <3>2 DEF Deny
      <4>2. /\ Proof(m, n, i) \in [origin : Origins, tick : Nat,
                                   hash_a : Nodes, hash_b : Nodes]
            /\ i \in 1..Len(n.vclock)
        BY ProofFields
      <4>3. i - 1 \in 0..Len(n.vclock)
        BY <4>2, NodeFields
      <4>4. /\ DOMAIN Recorded(m, n, i - 1) \subseteq Origins \X Nat
            /\ Recorded(m, n, i - 1) \in [DOMAIN Recorded(m, n, i - 1) -> Nodes]
        BY <4>3, RecordedShape
      <4>5. Proof(m, n, i).origin \in Origins
        BY <4>2
      <4> QED
        BY <4>1, <4>2, <4>4, <4>5 DEF TypeOK
    <3> QED
      BY <1>1, <3>1, <3>2 DEF Inspect, CheckEquivocation
  <2>2. /\ votes' \in [Managers -> SUBSET [prompt : Prompts, decision : Decisions,
                                           voter : Voters]]
        /\ verified' \in [Managers -> SUBSET Prompts]
    <3>1. CASE Observe(m, n)
      BY <3>1, NodeFields DEF Observe, Vote, TypeOK
    <3>2. CASE Ignore(m, n)
      BY <3>2 DEF Ignore, TypeOK
    <3> QED
      BY <1>1, <3>1, <3>2 DEF Inspect
  <2>3. inspected' \in [Managers -> SUBSET Nodes]
    BY <1>1 DEF Inspect, TypeOK
  <2> QED
    BY <2>1, <2>2, <2>3 DEF TypeOK
<1>2. ASSUME NEW m \in Managers, Restart(m)
      PROVE  TypeOK'
  BY <1>2 DEF Restart, TypeOK
<1>3. CASE UNCHANGED vars
  BY <1>3 DEF vars, equivocation, TypeOK
<1> QED
  BY <1>1, <1>2, <1>3 DEF Next

(* The manager's fields keep their types.                                  *)
THEOREM TypeCorrect == Spec => []TypeOK
<1>1. Init => TypeOK
  BY DEF Init, TypeOK
<1> QED
  BY <1>1, NextTypeOK, PTL DEF Spec

-----------------------------------------------------------------------------
(* The tally.                                                              *)

TallyInv == TypeOK /\ QuorumSafety /\ VerifiedByQuorum

LEMMA InitTallyInv == Init => TallyInv
<1> SUFFICES ASSUME Init PROVE TallyInv
  OBVIOUS
<1>1. TypeOK
  BY DEF Init, TypeOK
<1>2. ASSUME NEW m \in Managers, NEW p \in Prompts, NEW d \in Decisions
      PROVE  ~HasQuorum(votes[m], p, d)
  <2>1. Support(votes[m], p, d) = {}
    BY DEF Init, Support
  <2>2. Cardinality({}) = 0
    BY FS_EmptySet
  <2> QED
    BY <2>1, <2>2, ThresholdAssumption DEF HasQuorum
<1> QED
  BY <1>1, <1>2 DEF TallyInv, QuorumSafety, VerifiedByQuorum, Init

(* A vote touches the support of one decision on one prompt.               *)
LEMMA ObserveTally ==
  ASSUME TallyInv, NEW m \in Managers, NEW n \in Nodes, Observe(m, n)
  PROVE  QuorumSafety' /\ VerifiedByQuorum'
<1> USE DEF TallyInv
<1>1. PICK e \in n.evidence :
        /\ Counts(m, n.signature, e)
        /\ votes' = [votes EXCEPT ![m] = @ \cup {Vote(n, e)}]
        /\ verified' = [verified EXCEPT ![m] =
             IF HasQuorum(votes'[m], e.prompt, e.decision) THEN @ \cup {e.prompt} ELSE @]
  BY DEF Observe
<1>2. e.prompt \in Prompts /\ e.decision \in Decisions
  BY NodeFields
<1>3. /\ votes'[m] = votes[m] \cup {Vote(n, e)}
      /\ \A k \in Managers \ {m} : votes'[k] = votes[k] /\ verified'[k] = verified[k]
      /\ verified'[m] = IF HasQuorum(votes'[m], e.prompt, e.decision)
                        THEN verified[m] \cup {e.prompt} ELSE verified[m]
  BY <1>1 DEF TypeOK
<1>4. ASSUME NEW p \in Prompts, NEW d \in Decisions, p # e.prompt \/ d # e.decision
      PROVE  HasQuorum(votes'[m], p, d) <=> HasQuorum(votes[m], p, d)
  <2>1. Support(votes'[m], p, d) = Support(votes[m], p, d)
    BY <1>3, <1>4 DEF Support, Vote
  <2> QED
    BY <2>1 DEF HasQuorum
<1>5. \A d \in Decisions : ~HasQuorum(votes[m], e.prompt, d)
  BY <1>1, <1>2 DEF Counts, VerifiedByQuorum
<1>6. ASSUME NEW k \in Managers, NEW p \in Prompts
      PROVE  /\ \A c, d \in Decisions :
                  HasQuorum(votes'[k], p, c) /\ HasQuorum(votes'[k], p, d) => c = d
             /\ p \in verified'[k] <=> \E d \in Decisions : HasQuorum(votes'[k], p, d)
  <2>1. /\ \A c, d \in Decisions :
             HasQuorum(votes[k], p, c) /\ HasQuorum(votes[k], p, d) => c = d
        /\ p \in verified[k] <=> \E d \in Decisions : HasQuorum(votes[k], p, d)
    BY DEF QuorumSafety, VerifiedByQuorum
  <2>2. CASE k # m
    BY <1>3, <2>1, <2>2
  <2>3. CASE k = m /\ p # e.prompt
    <3>1. \A d \in Decisions : HasQuorum(votes'[m], p, d) <=> HasQuorum(votes[m], p, d)
      BY <1>4, <2>3
    <3>2. p \in verified'[m] <=> p \in verified[m]
      BY <1>3, <2>3
    <3> QED
      BY <2>1, <2>3, <3>1, <3>2
  <2>4. CASE k = m /\ p = e.prompt
    <3>1. \A d \in Decisions : HasQuorum(votes'[m], p, d) => d = e.decision
      BY <1>4, <1>5, <2>4
    <3>2. p \in verified'[m] <=> HasQuorum(votes'[m], p, e.decision)
      BY <1>1, <1>3, <2>4 DEF Counts
    <3> QED
      BY <1>2, <2>4, <3>1, <3>2
  <2> QED
    BY <2>2, <2>3, <2>4
<1> QED
  BY <1>6 DEF QuorumSafety, VerifiedByQuorum

LEMMA NextTallyInv == TallyInv /\ [Next]_vars => TallyInv'
<1> SUFFICES ASSUME TallyInv, [Next]_vars PROVE TallyInv'
  OBVIOUS
<1>0. TypeOK'
  BY NextTypeOK DEF TallyInv
<1>1. ASSUME NEW m \in Managers, NEW n \in Nodes, Inspect(m, n)
      PROVE  TallyInv'
  <2>1. CASE Observe(m, n)
    BY <1>0, <2>1, ObserveTally DEF TallyInv
  <2>2. CASE Ignore(m, n)
    BY <1>0, <2>2 DEF Ignore, TallyInv, QuorumSafety, VerifiedByQuorum
  <2> QED
    BY <1>1, <2>1, <2>2 DEF Inspect
<1>2. ASSUME NEW m \in Managers, Restart(m)
      PROVE  TallyInv'
  <2>1. /\ votes'[m] = {} /\ verified'[m] = {}
        /\ \A k \in Managers \ {m} : votes'[k] = votes[k] /\ verified'[k] = verified[k]
    BY <1>2 DEF Restart, TallyInv, TypeOK
  <2>2. \A p \in Prompts, d \in Decisions : ~HasQuorum(votes'[m], p, d)
    <3>1. \A p, d : Support({}, p, d) = {}
      BY DEF Support
    <3>2. Cardinality({}) = 0
      BY FS_EmptySet
    <3> QED
      BY <2>1, <3>1, <3>2, ThresholdAssumption DEF HasQuorum
  <2>3. QuorumSafety' /\ VerifiedByQuorum'
    BY <2>1, <2>2 DEF TallyInv, QuorumSafety, VerifiedByQuorum
  <2> QED
    BY <1>0, <2>3 DEF TallyInv
<1>3. CASE UNCHANGED vars
  BY <1>0, <1>3 DEF vars, TallyInv, QuorumSafety, VerifiedByQuorum
<1> QED
  BY <1>1, <1>2, <1>3 DEF Next

(* observe: whatever the order of the votes, at one member no prompt ever   *)
(* has a quorum for two decisions, for any threshold.                      *)
THEOREM TallyIsSafe == Spec => []QuorumSafety
<1>1. TallyInv => QuorumSafety
  BY DEF TallyInv
<1> QED
  BY <1>1, InitTallyInv, NextTallyInv, PTL DEF Spec

(* observe: a prompt is verified as soon as a decision on it has its       *)
(* quorum, and by nothing else.                                            *)
THEOREM VerifiedExactlyByQuorum == Spec => []VerifiedByQuorum
<1>1. TallyInv => VerifiedByQuorum
  BY DEF TallyInv
<1> QED
  BY <1>1, InitTallyInv, NextTallyInv, PTL DEF Spec

-----------------------------------------------------------------------------
(* Agreement.  A vote that was handed in is counted, or its prompt was     *)
(* settled before, or its voter is denied, or had voted on the prompt; and *)
(* every vote counted was handed in.                                       *)

Cast(m, e, voter) == \E w \in votes[m] : w.prompt = e.prompt /\ w.voter = voter

Heard(m, n) ==
  \A e \in n.evidence :
    e.prompt \in verified[m] \/ n.signature \in denied[m] \/ Cast(m, e, n.signature)

VotesInv ==
  /\ TallyInv
  /\ \A m \in Managers :
       /\ IsFiniteSet(votes[m])
       /\ \A n \in inspected[m] : Heard(m, n)
       /\ \A w \in votes[m] : \E n \in inspected[m] :
            n.signature = w.voter /\ [prompt |-> w.prompt, decision |-> w.decision] \in n.evidence

LEMMA InitVotesInv == Init => VotesInv
BY InitTallyInv, FS_EmptySet DEF Init, VotesInv

(* The deny list only grows between two boots.                             *)
LEMMA DeniedGrows ==
  ASSUME TypeOK, NEW m \in Managers, NEW n \in Nodes, CheckEquivocation(m, n)
  PROVE  denied[m] \subseteq denied'[m] /\ \A k \in Managers \ {m} : denied'[k] = denied[k]
BY DEF CheckEquivocation, Clean, Deny, TypeOK

LEMMA InspectVotesInv ==
  ASSUME VotesInv, TallyInv', NEW m \in Managers, NEW n \in Nodes, Inspect(m, n)
  PROVE  VotesInv'
<1>1. TypeOK /\ \A k \in Managers : IsFiniteSet(votes[k])
  BY DEF VotesInv, TallyInv
<1>2. /\ inspected'[m] = inspected[m] \cup {n}
      /\ \A k \in Managers \ {m} : inspected'[k] = inspected[k]
  BY <1>1 DEF Inspect, TypeOK
<1>3. denied[m] \subseteq denied'[m] /\ \A k \in Managers \ {m} : denied'[k] = denied[k]
  BY <1>1, DeniedGrows DEF Inspect
<1>4. n.evidence = {} \/ \E e : n.evidence = {e}
  BY NodesAssumption DEF DagNode, Evidence
<1>5. /\ votes[m] \subseteq votes'[m] /\ verified[m] \subseteq verified'[m]
      /\ \A k \in Managers \ {m} : votes'[k] = votes[k] /\ verified'[k] = verified[k]
      /\ IsFiniteSet(votes'[m])
      /\ \A w \in votes'[m] \ votes[m] :
           n.signature = w.voter /\ [prompt |-> w.prompt, decision |-> w.decision] \in n.evidence
      /\ Heard(m, n)'
  <2>1. CASE Observe(m, n)
    <3>1. PICK e \in n.evidence :
            /\ votes' = [votes EXCEPT ![m] = @ \cup {Vote(n, e)}]
            /\ verified' = [verified EXCEPT ![m] =
                 IF HasQuorum(votes'[m], e.prompt, e.decision) THEN @ \cup {e.prompt} ELSE @]
      BY <2>1 DEF Observe
    <3>2. /\ votes'[m] = votes[m] \cup {Vote(n, e)} /\ verified[m] \subseteq verified'[m]
          /\ \A k \in Managers \ {m} : votes'[k] = votes[k] /\ verified'[k] = verified[k]
      BY <1>1, <3>1 DEF TypeOK
    <3>3. IsFiniteSet(votes'[m])
      BY <1>1, <3>2, FS_AddElement
    <3>4. e \in [prompt : Prompts, decision : Decisions] /\ n.evidence = {e}
      BY <1>4, NodesAssumption DEF DagNode, Evidence
    <3>5. /\ Vote(n, e).voter = n.signature /\ Vote(n, e).prompt = e.prompt
          /\ [prompt |-> Vote(n, e).prompt, decision |-> Vote(n, e).decision] = e
      BY <3>4 DEF Vote
    <3>6. Heard(m, n)'
      BY <3>2, <3>4, <3>5 DEF Heard, Cast
    <3> QED
      BY <3>2, <3>3, <3>4, <3>5, <3>6
  <2>2. CASE Ignore(m, n)
    <3>1. UNCHANGED <<votes, verified>> /\ \A e \in n.evidence : ~Counts(m, n.signature, e)
      BY <2>2 DEF Ignore
    <3>2. Heard(m, n)'
      BY <3>1 DEF Heard, Cast, Counts
    <3> QED
      BY <1>1, <3>1, <3>2
  <2> QED
    BY <2>1, <2>2 DEF Inspect
<1>6. ASSUME NEW k \in Managers, NEW x \in inspected'[k]
      PROVE  Heard(k, x)'
  <2>1. CASE k = m /\ x = n
    BY <1>5, <2>1
  <2>2. CASE x \in inspected[k]
    <3>1. Heard(k, x)
      BY <2>2 DEF VotesInv
    <3>2. votes[k] \subseteq votes'[k] /\ verified[k] \subseteq verified'[k]
          /\ denied[k] \subseteq denied'[k]
      BY <1>3, <1>5
    <3> QED
      BY <3>1, <3>2 DEF Heard, Cast
  <2> QED
    BY <1>2, <1>6, <2>1, <2>2
<1>7. ASSUME NEW k \in Managers, NEW w \in votes'[k]
      PROVE  \E x \in inspected'[k] :
               x.signature = w.voter /\ [prompt |-> w.prompt, decision |-> w.decision] \in x.evidence
  <2>1. CASE w \in votes[k]
    BY <1>2, <2>1 DEF VotesInv
  <2>2. CASE w \notin votes[k]
    BY <1>2, <1>5, <1>7, <2>2
  <2> QED
    BY <2>1, <2>2
<1>8. \A k \in Managers : IsFiniteSet(votes'[k])
  BY <1>1, <1>5
<1> QED
  BY <1>6, <1>7, <1>8 DEF VotesInv

LEMMA NextVotesInv == VotesInv /\ [Next]_vars => VotesInv'
<1> SUFFICES ASSUME VotesInv, [Next]_vars PROVE VotesInv'
  OBVIOUS
<1>0. TypeOK /\ TallyInv'
  BY NextTallyInv DEF VotesInv, TallyInv
<1>1. ASSUME NEW m \in Managers, NEW n \in Nodes, Inspect(m, n)
      PROVE  VotesInv'
  BY <1>0, <1>1, InspectVotesInv
<1>2. ASSUME NEW m \in Managers, Restart(m)
      PROVE  VotesInv'
  <2>1. /\ votes'[m] = {} /\ inspected'[m] = {}
        /\ \A k \in Managers \ {m} :
             /\ votes'[k] = votes[k] /\ verified'[k] = verified[k]
             /\ denied'[k] = denied[k] /\ inspected'[k] = inspected[k]
    BY <1>0, <1>2 DEF Restart, TypeOK
  <2>2. IsFiniteSet(votes'[m])
    BY <2>1, FS_EmptySet
  <2>3. ASSUME NEW k \in Managers \ {m}, NEW n \in inspected[k]
        PROVE  Heard(k, n)'
    <3>1. Heard(k, n)
      BY <2>3 DEF VotesInv
    <3> QED
      BY <2>1, <3>1 DEF Heard, Cast
  <2>4. \A k \in Managers : \A n \in inspected'[k] : Heard(k, n)'
    BY <2>1, <2>3
  <2>5. \A k \in Managers : \A w \in votes'[k] : \E n \in inspected'[k] :
          n.signature = w.voter /\ [prompt |-> w.prompt, decision |-> w.decision] \in n.evidence
    <3> TAKE k \in Managers
    <3>1. CASE k = m
      BY <2>1, <3>1
    <3>2. CASE k # m
      BY <2>1, <3>2 DEF VotesInv
    <3> QED
      BY <3>1, <3>2
  <2>6. \A k \in Managers : IsFiniteSet(votes'[k])
    BY <2>1, <2>2 DEF VotesInv
  <2> QED
    BY <1>0, <2>4, <2>5, <2>6 DEF VotesInv
<1>3. CASE UNCHANGED vars
  BY <1>0, <1>3 DEF vars, equivocation, VotesInv, Heard, Cast
<1> QED
  BY <1>1, <1>2, <1>3 DEF Next

(* Voters that agree and are not denied have voted for what they agree on. *)
LEMMA AgreeingHaveVoted ==
  ASSUME VotesInv, NEW m \in Managers, NEW p \in Prompts \ verified[m], NEW d \in Decisions,
         NEW v \in Agreeing(m, p, d)
  PROVE  [prompt |-> p, decision |-> d, voter |-> v] \in Support(votes[m], p, d)
<1> DEFINE e == [prompt |-> p, decision |-> d]
<1>1. PICK n \in inspected[m] : n.signature = v /\ e \in n.evidence
  BY DEF Agreeing
<1>2. Cast(m, e, v)
  BY <1>1 DEF VotesInv, Heard, Agreeing
<1>3. PICK w \in votes[m] : w.prompt = p /\ w.voter = v
  BY <1>2 DEF Cast
<1>4. PICK x \in inspected[m] :
        x.signature = v /\ [prompt |-> p, decision |-> w.decision] \in x.evidence
  BY <1>3 DEF VotesInv
<1>5. w.decision = d
  BY <1>4 DEF Agreeing
<1>6. w \in [prompt : Prompts, decision : Decisions, voter : Voters]
  BY DEF VotesInv, TallyInv, TypeOK
<1>7. w = [prompt |-> p, decision |-> d, voter |-> v]
  BY <1>3, <1>5, <1>6
<1> QED
  BY <1>3, <1>5, <1>7 DEF Support

(* observe: a member that was handed the votes of threshold voters that    *)
(* agree, and is not to deny them, has settled the prompt, in whatever     *)
(* order and among whatever other votes they came, for any threshold.      *)
THEOREM AgreementIsSettled == Spec => []AgreementSettles
<1>1. VotesInv => AgreementSettles
  <2> SUFFICES ASSUME VotesInv, NEW m \in Managers, NEW p \in Prompts, NEW d \in Decisions,
                      Cardinality(Agreeing(m, p, d)) >= Threshold, p \notin verified[m]
               PROVE  FALSE
    BY DEF AgreementSettles
  <2> DEFINE A == Agreeing(m, p, d)
             S == Support(votes[m], p, d)
             f == [v \in A |-> [prompt |-> p, decision |-> d, voter |-> v]]
  <2>1. \A v \in A : f[v] \in S /\ f[v].voter = v
    BY AgreeingHaveVoted
  <2>2. S \subseteq votes[m] /\ IsFiniteSet(votes[m])
    BY DEF Support, VotesInv
  <2>3. IsFiniteSet(S)
    BY <2>2, FS_Subset
  <2>4. f \in Injection(A, S)
    <3>1. f \in [A -> S]
      <4>1. f = [v \in A |-> f[v]]
        OBVIOUS
      <4> HIDE DEF A, S, f
      <4> QED
        BY <2>1, <4>1
    <3>2. \A v, w \in A : f[v] = f[w] => v = w
      <4> HIDE DEF A, S, f
      <4> QED
        BY <2>1
    <3> HIDE DEF A, S, f
    <3> QED
      BY <3>1, <3>2 DEF Injection, IsInjective
  <2> HIDE DEF A, S, f
  <2>5. IsFiniteSet(A) /\ Cardinality(A) <= Cardinality(S)
    BY <2>3, <2>4, FS_Injection
  <2>6. Cardinality(A) \in Nat /\ Cardinality(S) \in Nat
    BY <2>3, <2>5, FS_CardinalityType
  <2>7. HasQuorum(votes[m], p, d)
    BY <2>5, <2>6, ThresholdAssumption DEF HasQuorum, A, S
  <2> QED
    BY <2>7 DEF VotesInv, TallyInv, VerifiedByQuorum
<1> QED
  BY <1>1, InitVotesInv, NextVotesInv, PTL DEF Spec

-----------------------------------------------------------------------------
(* The deny list.                                                          *)

ObservedInspected ==
  \A m \in Managers : \A key \in DOMAIN observed[m] :
    observed[m][key] \in inspected[m] /\ key \in Entries(observed[m][key])

EInv == TypeOK /\ ObservedInspected /\ DenialsProven

LEMMA NextEInv == EInv /\ [Next]_vars => EInv'
<1> SUFFICES ASSUME EInv, [Next]_vars PROVE EInv'
  OBVIOUS
<1>0. TypeOK /\ TypeOK'
  BY NextTypeOK DEF EInv
<1>1. ASSUME NEW m \in Managers, NEW n \in Nodes, Inspect(m, n)
      PROVE  EInv'
  <2>1. /\ inspected'[m] = inspected[m] \cup {n}
        /\ \A k \in Managers \ {m} : inspected'[k] = inspected[k]
    BY <1>0, <1>1 DEF Inspect, TypeOK
  <2>2. CASE Clean(m, n)
    <3>1. Len(n.vclock) \in 0..Len(n.vclock)
      BY NodeFields
    <3>2. /\ observed'[m] = Recorded(m, n, Len(n.vclock))
          /\ \A k \in Managers \ {m} : observed'[k] = observed[k]
          /\ UNCHANGED <<denied, proofs>>
      BY <1>0, <2>2 DEF Clean, TypeOK
    <3>3. ObservedInspected'
      BY <1>0, <2>1, <3>1, <3>2, RecordedShape DEF EInv, ObservedInspected
    <3>4. DenialsProven'
      BY <2>1, <3>2 DEF EInv, DenialsProven
    <3> QED
      BY <1>0, <3>3, <3>4 DEF EInv
  <2>3. CASE Deny(m, n)
    <3>1. PICK i \in Conflicts(m, n) :
            /\ denied' = [denied EXCEPT ![m] = @ \cup {Proof(m, n, i).origin}]
            /\ proofs' = [proofs EXCEPT ![m] = @ \cup {Proof(m, n, i)}]
            /\ observed' = [observed EXCEPT ![m] = Recorded(m, n, i - 1)]
      BY <2>3 DEF Deny
    <3>2. PICK x : x = Proof(m, n, i)
      OBVIOUS
    <3>3. /\ <<x.origin, x.tick>> = n.vclock[i] /\ x.origin \notin denied[m]
          /\ x.hash_a = observed[m][n.vclock[i]] /\ x.hash_b = n
          /\ x.hash_a.data # x.hash_b.data
          /\ i \in 1..Len(n.vclock) /\ n.vclock[i] \in DOMAIN observed[m]
      BY <1>0, <3>2, ProofFields
    <3>4. /\ observed'[m] = Recorded(m, n, i - 1)
          /\ denied'[m] = denied[m] \cup {x.origin} /\ proofs'[m] = proofs[m] \cup {x}
          /\ \A k \in Managers \ {m} : /\ observed'[k] = observed[k]
                                       /\ denied'[k] = denied[k]
                                       /\ proofs'[k] = proofs[k]
      BY <1>0, <3>1, <3>2 DEF TypeOK
    <3>5. i - 1 \in 0..Len(n.vclock) /\ n.vclock[i] \in Entries(n)
      BY <3>3, NodeFields
    <3>6. ObservedInspected'
      BY <1>0, <2>1, <3>4, <3>5, RecordedShape DEF EInv, ObservedInspected
    <3>7. /\ {x.hash_a, x.hash_b} \subseteq inspected'[m]
          /\ <<x.origin, x.tick>> \in Entries(x.hash_a) \cap Entries(x.hash_b)
      <4>1. /\ observed[m][n.vclock[i]] \in inspected[m]
            /\ n.vclock[i] \in Entries(observed[m][n.vclock[i]])
        BY <3>3 DEF EInv, ObservedInspected
      <4>2. n.vclock[i] \in Entries(x.hash_a) /\ n.vclock[i] \in Entries(x.hash_b)
        BY <3>3, <3>5, <4>1
      <4>3. x.hash_a \in inspected[m] /\ x.hash_b = n
        BY <3>3, <4>1
      <4>4. <<x.origin, x.tick>> \in Entries(x.hash_a) \cap Entries(x.hash_b)
        BY <3>3, <4>2
      <4> QED
        BY <2>1, <4>3, <4>4
    <3>8. ASSUME NEW k \in Managers
          PROVE  /\ \A y \in proofs'[k] :
                      /\ {y.hash_a, y.hash_b} \subseteq inspected'[k]
                      /\ <<y.origin, y.tick>> \in Entries(y.hash_a) \cap Entries(y.hash_b)
                      /\ y.hash_a.data # y.hash_b.data
                 /\ denied'[k] = {y.origin : y \in proofs'[k]}
                 /\ \A y, z \in proofs'[k] : y.origin = z.origin => y = z
      <4>1. CASE k # m
        BY <2>1, <3>4, <4>1 DEF EInv, DenialsProven
      <4>2. CASE k = m
        <5>1. /\ \A y \in proofs[m] :
                   /\ {y.hash_a, y.hash_b} \subseteq inspected[m]
                   /\ <<y.origin, y.tick>> \in Entries(y.hash_a) \cap Entries(y.hash_b)
                   /\ y.hash_a.data # y.hash_b.data
              /\ denied[m] = {y.origin : y \in proofs[m]}
              /\ \A y, z \in proofs[m] : y.origin = z.origin => y = z
          BY DEF EInv, DenialsProven
        <5>2. \A y \in proofs'[m] :
                /\ {y.hash_a, y.hash_b} \subseteq inspected'[m]
                /\ <<y.origin, y.tick>> \in Entries(y.hash_a) \cap Entries(y.hash_b)
                /\ y.hash_a.data # y.hash_b.data
          <6>1. ASSUME NEW y \in proofs[m]
                PROVE  /\ {y.hash_a, y.hash_b} \subseteq inspected'[m]
                       /\ <<y.origin, y.tick>> \in Entries(y.hash_a) \cap Entries(y.hash_b)
                       /\ y.hash_a.data # y.hash_b.data
            BY <2>1, <5>1
          <6> QED
            BY <3>3, <3>4, <3>7, <6>1
        <5>3. denied'[m] = {y.origin : y \in proofs'[m]}
          BY <3>4, <5>1
        <5>4. \A y, z \in proofs'[m] : y.origin = z.origin => y = z
          BY <3>3, <3>4, <5>1
        <5> QED
          BY <4>2, <5>2, <5>3, <5>4
      <4> QED
        BY <4>1, <4>2
    <3>9. DenialsProven'
      BY <3>8 DEF DenialsProven
    <3> QED
      BY <1>0, <3>6, <3>9 DEF EInv
  <2> QED
    BY <1>1, <2>2, <2>3 DEF Inspect, CheckEquivocation
<1>2. ASSUME NEW m \in Managers, Restart(m)
      PROVE  EInv'
  <2>1. /\ observed'[m] = << >> /\ denied'[m] = {} /\ proofs'[m] = {}
        /\ \A k \in Managers \ {m} :
             /\ observed'[k] = observed[k] /\ denied'[k] = denied[k]
             /\ proofs'[k] = proofs[k] /\ inspected'[k] = inspected[k]
    BY <1>0, <1>2 DEF Restart, TypeOK
  <2>2. ObservedInspected' /\ DenialsProven'
    BY <2>1 DEF EInv, ObservedInspected, DenialsProven
  <2> QED
    BY <1>0, <2>2 DEF EInv
<1>3. CASE UNCHANGED vars
  BY <1>0, <1>3 DEF vars, equivocation, EInv, ObservedInspected, DenialsProven
<1> QED
  BY <1>1, <1>2, <1>3 DEF Next

LEMMA InitEInv == Init => EInv
BY DEF Init, EInv, TypeOK, ObservedInspected, DenialsProven

(* No member is denied but on two nodes that disagree at one of its ticks. *)
THEOREM DenialsHaveProof == Spec => []DenialsProven
<1>1. EInv => DenialsProven
  BY DEF EInv
<1> QED
  BY <1>1, InitEInv, NextEInv, PTL DEF Spec

-----------------------------------------------------------------------------
(* The deny list is complete when no node speaks for two origins.          *)

SingleEntry == \A n \in Nodes : Len(n.vclock) = 1

Agrees(m, n) ==
  \A key \in Entries(n) :
    \/ key[1] \in denied[m]
    \/ key \in DOMAIN observed[m] /\ observed[m][key].data = n.data

AllAgree == \A m \in Managers : \A n \in inspected[m] : Agrees(m, n)

LEMMA NextAllAgree ==
  ASSUME SingleEntry
  PROVE  EInv /\ AllAgree /\ [Next]_vars => AllAgree'
<1> SUFFICES ASSUME EInv, AllAgree, [Next]_vars PROVE AllAgree'
  OBVIOUS
<1>0. TypeOK
  BY DEF EInv
<1>1. ASSUME NEW m \in Managers, NEW n \in Nodes, Inspect(m, n)
      PROVE  AllAgree'
  <2>1. /\ inspected'[m] = inspected[m] \cup {n}
        /\ \A k \in Managers \ {m} : inspected'[k] = inspected[k]
    BY <1>0, <1>1 DEF Inspect, TypeOK
  <2>2. /\ denied[m] \subseteq denied'[m]
        /\ DOMAIN observed[m] \subseteq DOMAIN observed'[m]
        /\ \A key \in DOMAIN observed[m] : observed'[m][key] = observed[m][key]
        /\ \A k \in Managers \ {m} : denied'[k] = denied[k] /\ observed'[k] = observed[k]
        /\ Agrees(m, n)'
    <3>1. CASE Clean(m, n)
      <4>1. Len(n.vclock) \in 0..Len(n.vclock)
        BY NodeFields
      <4>2. /\ observed'[m] = Recorded(m, n, Len(n.vclock)) /\ denied' = denied
            /\ \A k \in Managers \ {m} : observed'[k] = observed[k]
        BY <1>0, <3>1 DEF Clean, TypeOK
      <4>3. \A i \in 1..Len(n.vclock) :
              \/ n.vclock[i][1] \in denied[m]
              \/ /\ n.vclock[i] \in DOMAIN observed'[m]
                 /\ observed'[m][n.vclock[i]].data = n.data
        <5>1. ASSUME NEW i \in 1..Len(n.vclock), n.vclock[i][1] \notin denied[m]
              PROVE  /\ n.vclock[i] \in DOMAIN observed'[m]
                     /\ observed'[m][n.vclock[i]].data = n.data
          <6>1. n.vclock[i] \in DOMAIN observed'[m]
            BY <1>0, <4>1, <4>2, <5>1, RecordedShape
          <6>2. CASE n.vclock[i] \in DOMAIN observed[m]
            <7>1. i \notin Conflicts(m, n) /\ i \in DOMAIN n.vclock
              BY <3>1, NodeFields DEF Clean
            <7>2. observed[m][n.vclock[i]].data = n.data
              BY <5>1, <6>2, <7>1 DEF Conflicts
            <7>3. observed'[m][n.vclock[i]] = observed[m][n.vclock[i]]
              BY <1>0, <4>1, <4>2, <6>2, RecordedShape
            <7> QED
              BY <6>1, <7>2, <7>3
          <6>3. CASE n.vclock[i] \notin DOMAIN observed[m]
            <7>1. observed'[m][n.vclock[i]] = n
              BY <1>0, <4>1, <4>2, <6>1, <6>3, RecordedShape
            <7> QED
              BY <6>1, <7>1
          <6> QED
            BY <6>2, <6>3
        <5> QED
          BY <5>1
      <4>4. Agrees(m, n)'
        BY <4>2, <4>3, NodeFields DEF Agrees, Entries
      <4> QED
        BY <1>0, <4>1, <4>2, <4>4, RecordedShape
    <3>2. CASE Deny(m, n)
      <4>1. PICK i \in Conflicts(m, n) :
              /\ denied' = [denied EXCEPT ![m] = @ \cup {Proof(m, n, i).origin}]
              /\ observed' = [observed EXCEPT ![m] = Recorded(m, n, i - 1)]
        BY <3>2 DEF Deny
      <4>2. i \in 1..Len(n.vclock) /\ Proof(m, n, i).origin = n.vclock[i][1]
        BY <1>0, ProofFields DEF Proof
      <4>3. i - 1 \in 0..Len(n.vclock)
        BY <4>2, NodeFields
      <4>4. /\ observed'[m] = Recorded(m, n, i - 1)
            /\ denied'[m] = denied[m] \cup {n.vclock[i][1]}
            /\ \A k \in Managers \ {m} : denied'[k] = denied[k] /\ observed'[k] = observed[k]
        BY <1>0, <4>1, <4>2 DEF TypeOK
      <4>5. Entries(n) = {n.vclock[i]}
        <5>1. Len(n.vclock) = 1 /\ DOMAIN n.vclock = 1..Len(n.vclock)
          BY NodeFields DEF SingleEntry
        <5>2. DOMAIN n.vclock = {1} /\ i = 1
          BY <4>2, <5>1
        <5> QED
          BY <5>2 DEF Entries
      <4>6. Agrees(m, n)'
        BY <4>4, <4>5 DEF Agrees
      <4> QED
        BY <1>0, <4>3, <4>4, <4>6, RecordedShape
    <3> QED
      BY <1>1, <3>1, <3>2 DEF Inspect, CheckEquivocation
  <2> QED
    BY <2>1, <2>2 DEF AllAgree, Agrees
<1>2. ASSUME NEW m \in Managers, Restart(m)
      PROVE  AllAgree'
  <2>1. /\ inspected'[m] = {}
        /\ \A k \in Managers \ {m} :
             /\ observed'[k] = observed[k] /\ denied'[k] = denied[k]
             /\ inspected'[k] = inspected[k]
    BY <1>0, <1>2 DEF Restart, TypeOK
  <2> QED
    BY <2>1 DEF AllAgree, Agrees
<1>3. CASE UNCHANGED vars
  BY <1>3 DEF vars, equivocation, AllAgree, Agrees
<1> QED
  BY <1>1, <1>2, <1>3 DEF Next

(* With one entry per vector clock, the deny list is a function of the set *)
(* of nodes handed in: the origins that forked, in whatever order the      *)
(* nodes came and however often.                                           *)
THEOREM ForkersAreDenied ==
  ASSUME SingleEntry
  PROVE  Spec => []DeniedAreForkers
<1>1. Init => EInv /\ AllAgree
  BY InitEInv DEF Init, AllAgree
<1>2. (EInv /\ AllAgree) /\ [Next]_vars => (EInv /\ AllAgree)'
  BY NextEInv, NextAllAgree
<1>3. EInv /\ AllAgree => DeniedAreForkers
  <2> SUFFICES ASSUME EInv, AllAgree, NEW m \in Managers
               PROVE  denied[m] = {o \in Origins : Forked(inspected[m], o)}
    BY DEF DeniedAreForkers
  <2>1. ASSUME NEW o \in denied[m]
        PROVE  o \in Origins /\ Forked(inspected[m], o)
    <3>1. PICK x \in proofs[m] :
            /\ x.origin = o
            /\ {x.hash_a, x.hash_b} \subseteq inspected[m]
            /\ <<x.origin, x.tick>> \in Entries(x.hash_a) \cap Entries(x.hash_b)
            /\ x.hash_a.data # x.hash_b.data
      <4>1. /\ \A x \in proofs[m] :
                 /\ {x.hash_a, x.hash_b} \subseteq inspected[m]
                 /\ <<x.origin, x.tick>> \in Entries(x.hash_a) \cap Entries(x.hash_b)
                 /\ x.hash_a.data # x.hash_b.data
            /\ denied[m] = {x.origin : x \in proofs[m]}
        BY DEF EInv, DenialsProven
      <4>2. PICK x \in proofs[m] : x.origin = o
        BY <2>1, <4>1
      <4> QED
        BY <4>1, <4>2
    <3>2. <<x.origin, x.tick>>[1] = o
      BY <3>1
    <3>3. Forked(inspected[m], o)
      BY <3>1, <3>2 DEF Forked
    <3> QED
      BY <2>1, <3>3 DEF EInv, TypeOK
  <2>2. ASSUME NEW o \in Origins, Forked(inspected[m], o), o \notin denied[m]
        PROVE  FALSE
    <3>1. PICK a, b \in inspected[m] :
            a.data # b.data /\ \E key \in Entries(a) \cap Entries(b) : key[1] = o
      BY <2>2 DEF Forked
    <3>2. PICK key \in Entries(a) \cap Entries(b) : key[1] = o
      BY <3>1
    <3>3. observed[m][key].data = a.data /\ observed[m][key].data = b.data
      BY <2>2, <3>2 DEF AllAgree, Agrees
    <3> QED
      BY <3>1, <3>3
  <2> QED
    BY <2>1, <2>2
<1> QED
  BY <1>1, <1>2, <1>3, PTL DEF Spec
=============================================================================
