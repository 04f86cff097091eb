-------------------------- MODULE ReputationLedger ---------------------------
(***************************************************************************)
(* InMemoryReputationTracker (epistemic.rs): the reputation of every       *)
(* origin, granted by anchors, earned and lost by events, and delegated at *)
(* the delegator's own expense.                                            *)
(*                                                                         *)
(* Reputations are basis points.  An origin the tracker has no entry for   *)
(* reads as zero, so the map is a total function.                          *)
(***************************************************************************)
EXTENDS Integers

CONSTANTS
  Peers,
  Full,           \* Reputation::FULL
  Confirmed,      \* gained by ClaimConfirmed
  Active,         \* gained by ActiveParticipation
  ContradictionLoss,   \* lost by ClaimContradicted
  MaxGrants,      \* bound: delegations of one origin
  MaxCredit       \* bound: reputation one origin receives in all

ASSUME LedgerAssumption ==
  Full \in Nat \ {0} /\ {Confirmed, Active, ContradictionLoss} \subseteq Nat
ASSUME BoundsAssumption == MaxGrants \in Nat /\ MaxCredit \in Nat

VARIABLES
  scores,    \* reputation of each origin
  credit,    \* history: all that was added to an origin's score
  granted,   \* history: all that an origin has delegated to others
  grants,    \* history: how often it has delegated to others
  summit     \* history: the highest score that was not delegated

history == <<credit, granted, grants, summit>>
vars == <<scores, history>>

LedgerInit ==
  /\ scores = [o \in Peers |-> 0]
  /\ credit = [o \in Peers |-> 0]
  /\ granted = [o \in Peers |-> 0]
  /\ grants = [o \in Peers |-> 0]
  /\ summit = 0

Lesser(a, b)  == IF a <= b THEN a ELSE b
Greater(a, b) == IF a >= b THEN a ELSE b

(* u16::saturating_sub                                                     *)
Less(a, b) == Greater(a - b, 0)

-----------------------------------------------------------------------------
(* o's score becomes rep, by other means than a delegation.                *)
Assign(o, rep) ==
  /\ scores' = [scores EXCEPT ![o] = rep]
  /\ credit' = [credit EXCEPT ![o] = @ + Less(rep, scores[o])]
  /\ credit'[o] <= MaxCredit
  /\ summit' = Greater(summit, rep)
  /\ UNCHANGED <<granted, grants>>

(* set_reputation, of an anchor.                                           *)
SetReputation(o, rep) == Assign(o, rep)

(* A bug to catch: a gain is not capped.                                   *)
AfterUncapped(event, current) ==
  CASE event = "EquivocationDetected" -> 0
    [] event = "ClaimContradicted"    -> Less(current, ContradictionLoss)
    [] event = "ClaimConfirmed"       -> current + Confirmed
    [] event = "ActiveParticipation"  -> current + Active

(* The score an event leaves.                                              *)
After(event, current) ==
  CASE event = "EquivocationDetected" -> 0
    [] event = "ClaimContradicted"    -> Less(current, ContradictionLoss)
    [] event = "ClaimConfirmed"       -> Lesser(current + Confirmed, Full)
    [] event = "ActiveParticipation"  -> Lesser(current + Active, Full)

Events == {"EquivocationDetected", "ClaimContradicted", "ClaimConfirmed",
           "ActiveParticipation"}

Update(o, event) == Assign(o, After(event, scores[o]))

-----------------------------------------------------------------------------
(* Bugs to catch: what is delegated is not capped by the delegator's own   *)
(* reputation; the delegator pays half of that half, or all of it.         *)
UncappedGrant(from, rep) == rep

QuarterCost(grant) == grant \div 4

FullCost(grant) == grant

CappedGrant(from, rep) == Lesser(rep, scores[from])

Cost(grant) == grant \div 2

(* delegate: the receiver's score is replaced, then the delegator's; both  *)
(* are computed from the delegator's score before, so an origin that       *)
(* delegates to itself only pays.                                          *)
Delegate(from, to, rep) ==
  LET grant == CappedGrant(from, rep) IN
  /\ scores[from] # 0
  /\ scores' = [scores EXCEPT ![to] = grant,
                              ![from] = Less(scores[from], Cost(grant))]
  /\ IF to = from THEN UNCHANGED <<credit, granted, grants>>
     ELSE /\ credit' = [credit EXCEPT ![to] = @ + Less(grant, scores[to])]
          /\ granted' = [granted EXCEPT ![from] = @ + grant]
          /\ grants' = [grants EXCEPT ![from] = @ + 1]
          /\ grants'[from] <= MaxGrants /\ credit'[to] <= MaxCredit
  /\ UNCHANGED summit

LedgerNext ==
  \E o \in Peers :
    \/ \E rep \in 0..Full : SetReputation(o, rep)
    \/ \E event \in Events : Update(o, event)
    \/ \E to \in Peers, rep \in 0..Full : Delegate(o, to, rep)

LedgerSpec == LedgerInit /\ [][LedgerNext]_vars

-----------------------------------------------------------------------------
(* Reputations are basis points: 0..=10000.                                *)
LedgerTypeOK ==
  /\ scores \in [Peers -> 0..Full]
  /\ credit \in [Peers -> Nat]
  /\ granted \in [Peers -> Nat]
  /\ grants \in [Peers -> Nat]
  /\ summit \in 0..Full

(* "delegation costs half of what was granted": what an origin has handed  *)
(* out in all is at most twice what it ever received, but for what the     *)
(* integer division gives away at each delegation.                         *)
SpendingBound ==
  \A o \in Peers : granted[o] <= 2 * (credit[o] - scores[o]) + grants[o]

(* "Delegated reputation capped by delegator's own": no chain of           *)
(* delegations lifts anyone above the best an anchor or an event has made. *)
DelegationCeiling == \A o \in Peers : scores[o] <= summit

(* "Reputation spending": a delegation never leaves a delegator with       *)
(* nothing, whatever it grants; only the loss of a contradiction, a slash  *)
(* or a grant or an assignment by others does.                             *)
DelegationLeavesRest ==
  [][\A o \in Peers :
       grants'[o] # grants[o] => 2 * scores'[o] >= scores[o] /\ scores'[o] # 0]_vars

(* "Total delegatable reputation converges to 2x original": what an origin *)
(* hands out is bounded by what it received.                               *)
TotalDelegatable == \A o \in Peers : granted[o] <= 2 * credit[o]
=============================================================================
