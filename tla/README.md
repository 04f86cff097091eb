# A TLA+ development of AIMP

AIMP is a serverless mesh: every node appends signed mutations to a Merkle-DAG,
gossips them over UDP, merges what it receives, votes on inference results, and
derives beliefs from the claims the mutations carry. This directory holds TLA+
modules translated from the source, TLC configurations that check them on small
instances, and theorems checked by TLAPS. Paths are relative to the repository
(`src/…` in PROJECT.json).

Run from this directory, with the community modules on the TLA+ path:

    tlc -workers 2 -config sweep.cfg MCHistorySweep     # one of the runs below
    tlapm CrdtReplicas_proofs.tla                       # one of the proof modules

PROJECT.json lists the runs, the source lines each definition stands for, the
hazards and the properties that cover them, and for every property a mutation of
the model that breaks it.

## 1. The system: inventory

All paths below are under `aimp_node/src/`.

| Component | State | Operations | Interacts with |
|---|---|---|---|
| Merkle-DAG engine `crdt/merkle_dag.rs`, `crdt/arena.rs` | `arena` (nodes by hash), `heads`, `heads_soa` (copy hashed for the root), `cached_root`, `mutations_since_gc`, store handle | `append_mutation`, `compact_history`, `get_vdiff`, `get_merkle_root`, `invalidate_root` | owned by the actor; writes the store |
| CRDT actor `crdt/actor.rs` | engine, epoch manager, quorum manager, mailbox | `Append`, `Merge`, `GetDiff`, `GetRoot`, recovery in `new` | serves every task of the node by messages; the only writer of the DAG |
| Epoch GC `crdt/gc.rs` | `current_epoch`, `finalized_root` | `finalize_epoch` | called when an append ran a collection |
| Persistent store `crdt/store.rs` | redb table, entries encrypted with a key derived from the identity | `save_node`, `load_batched` | written by append and merge, read at boot |
| Quorum manager `crdt/consensus.rs` | votes per prompt and decision, verified prompts, deny list, equivocation proofs, ticks seen | `check_equivocation`, `observe` (`restore_verified` has no caller) | fed by the actor's merge |
| Main loop `main.rs` | per-boot identity, vector clock, shutdown flag | boot, `dispatcher` (a task per envelope), `handle_sync`, `handle_infer` | network, actor, decision engine |
| Decision engine `decision_engine.rs` | rules engine behind a lock, hash of the rules | evaluate, hot reload | called by `handle_infer`, which reloads before it evaluates |
| Gossip network `network/mod.rs` | dedup filter of bounded size, token buckets and failure counts per peer, permits | listen, broadcast, filter, rate limit | hands envelopes to the dispatcher |
| Noise sessions `network/security.rs` | session per peer: handshake or transport, last use | wrap, unwrap, evict | under gossip |
| Epistemic layer `epistemic.rs` | claims, edges, correlation groups, reputations | log-odds arithmetic, intervals, propagation of trust, reducers, delegation, belief report | consumes the data of DAG nodes |
| Semantic topology `semantic_topology.rs` | SimHash fingerprints | automatic edges between similar claims, capped per claim | feeds the knowledge graph |
| Synchronisation harnesses `../examples/bench_{delta_sync,netem,convergence,l3_netem}.rs` | engines or L3 nodes side by side | full-state, delta and gossip rounds; claim exchange over lossy links | the only place where the repository runs anti-entropy end to end |
| Configuration `config.rs`, cryptography `crypto/`, encoding `protocol/`, dashboard, events, errors | constants / keys / none | validation, sign, verify, encode, render | used by all |

### What is hard in it, component by component, and what makes it correct

* **Engine.** Four paths change the heads (append in place, merge by recomputation,
  GC by filtering, recovery by rebuilding), and a root cache and a copy of the
  heads must follow each of them. *Correct if* heads are always the frontier of
  the arena, the cached root is the root of the heads, equal arenas give equal
  roots, and GC never removes a head nor a shallow node, never keeps a deep one,
  and ends.
* **Actor, store, recovery.** Batches are late, partial, repeated, and overtake
  one another; GC forgets nodes the network still sends; the store keeps what GC
  forgot; writes fail silently; the process dies between messages. *Correct if* a
  delta completes its receiver, what the arena holds is durable, and recovery
  loses nothing.
* **Quorum.** Votes and forks arrive in any order, and again after pruning.
  *Correct if* a prompt is settled once, by a quorum, and whenever enough voters
  agree on it, and exactly the origins that forked are denied.
* **Main loop.** A task per envelope: ticks are taken and appended out of order,
  the rules may change between an evaluation and the recording of their hash.
  *Correct if* every inference is recorded once, under a tick of its own, and a
  node that is not reloading evaluates with the rules whose hash it publishes.
* **Network.** Bounded filter, permits held while the dispatcher is full, failure
  counts that only grow, integer token refill. *Correct if* the filter never
  admits what it remembers, no permit is lost and the listener is never stuck for
  good, the rate stays under its bound, and nobody is blamed without a cause.
* **Sessions.** Whose turn a handshake is in, bytes of one kind read as another,
  and eviction of sessions in use. *Correct if* what that costs a sender is bounded
  by the sessions it was given.
* **Epistemic layer.** Saturating sums, cycles in the support graph, claims in any
  order. *Correct if* results do not depend on the order of claims, cycles do not
  amplify trust, contradictions take no more than the damping allows, and delegated
  reputation is bounded by what the delegator has.
* **Anti-entropy.** Roots cover the heads, deltas a fixed depth below them, exchanges
  are lost. *Correct if* equal roots stand for equal histories.

## 2. Modules

| Module | Models | Composes |
|---|---|---|
| `MerkleDag` | the DAG as data: arena, frontier, retain, depth-bounded walks, reference depths | – |
| `BoundedWalk` | abstract specification: what GC and delta promise, in one step | `MerkleDag` |
| `HistorySweep` | the loops of `compact_history` and `get_vdiff`, one iteration per step | `MerkleDag`; refines `BoundedWalk` |
| `CrdtReplicas` | replicas of actor + engine + epochs + store, with failing stores and restarts | `MerkleDag`; takes the walk, not the loop |
| `AntiEntropy` | engines that share, part, and synchronise by full state, deltas or gossip fan-out | `MerkleDag` |
| `QuorumManager` | the manager of each member, fed nodes in any order | – |
| `ReputationLedger` | the reputation tracker: assignment, events, delegation | – |
| `LogOdds` | saturating arithmetic, discounts, hierarchical aggregation | – |
| `ClaimReducer` | correlation groups, canonical order, the reducers | `LogOdds` |
| `KnowledgeGraph` | generated edges, cycle cut, trust propagation, belief report | `ClaimReducer` |
| `EpistemicMesh` | L3 nodes that add, exchange and lose claims and edges | `KnowledgeGraph` |
| `NoiseSessions` | the session table: `wrap`, `unwrap`, eviction | – |
| `GossipIngress` | `listen` and `broadcast` of a node among clients and peers | `NoiseSessions` |
| `InferenceNode` | the tasks of a node around the rules, the clock, the log and the actor's mailbox | – |
| `MC…` | the instances of the eight modules above that are run | |
| `MerkleDag_proofs` | lemmas about depth, ancestry and walks, by induction over a history | `MerkleDag` |
| `HistorySweep_proofs`, `CrdtReplicas_proofs`, `AntiEntropy_proofs`, `QuorumManager_proofs`, `GossipIngress_proofs`, `InferenceNode_proofs` | theorems about the module of that name | the first and the third use `MerkleDag_proofs` |
| `Epistemic_proofs` | theorems about `ReputationLedger` and `EpistemicMesh` | both; for this the ledger's specification is `LedgerSpec` |

### How state and actions correspond to the code

**MerkleDag.** A hash is a natural number. A node is hashed over the hashes of its
parents, so a parent exists before its child: `ParentsPrecede` (p < h) is the only
thing taken from hashing besides injectivity. An arena is a function from the
hashes held to the parents named; a named parent may be missing. Slab indices of
`DagArena` are an implementation of that function and are not modelled.
`Walks(arena, heads, stop, limit)` is the set of markings a depth-bounded walk can
end with; `Nearest`, `Deepest` and `Ancestry` are reference notions the properties
are stated with.

**HistorySweep.** `queue` is the vector of `(hash, depth)` taken from its end,
`level` is `keep`/`visited` with the depth of the marking. `Skip` is `continue`,
`Visit` marks and pushes, `Sweep` is the retain of arena and heads, `Return` the
answer of the delta. The order in which heads and parents are pushed is the
iteration order of a hash set: the model takes every order.

**CrdtReplicas.** A handler runs to its end inside the actor's loop before the next
message is read, hence one action per handler: `AppendMutation` (append, then, if
due, collection and epoch, then the save), `Merge`, `GetRoot`, `Restart`. The node's
content lives in `dag`, shared by all replicas because a hash determines it. Batches
are any subset of the nodes ever created, which covers loss, delay, duplication,
reordering, and deltas computed against stale heads. `StableIdentity = FALSE` is
`main.rs`, which makes a new identity, hence a new key, at every boot; TRUE is what
the store promises when it is given the same key. At the replicas in `FaultyStores`
any `save_node` may fail (the code drops the error) and the store may not open.
`Append` computes `compact_history` by `Walks`, whose equivalence with the loop is
what `HistorySweep` checks and proves.

**AntiEntropy.** The harnesses in `examples/`, which drive the engine without an
actor: `CreateMutation`, then `Share`, a partition in which each group copies its
leader (`CopyWithin`), `Heal`, and rounds in which the engine `row` serves its
`peers` one after the other (`Serve`, or `Lose` on a lossy link), until `Converged`
or a round that transferred nothing.

**QuorumManager.** `Inspect` is the treatment of one new node of a merge batch:
`check_equivocation`, then `observe` if the node carries evidence. The voter is
`signature[..32]`, the origin of an equivocation a vector-clock key; they are
different namespaces in the code (64 and 8 hex digits) and disjoint sets in the
instances. Every vector clock the program builds has one entry; the
module handles any number, in key order.

**ReputationLedger.** `scores` is the map of `InMemoryReputationTracker`, absent
origins reading as zero; `SetReputation`, `Update` and `Delegate` are its three
methods. The other variables are history the properties speak of: what an origin
was given in all, what it delegated and how often, and the highest score that was
not a delegation. A delegation to oneself is left as the code has it: it only costs.

**LogOdds, ClaimReducer, KnowledgeGraph.** Operators, not actions: the functions of
`epistemic.rs` and `semantic_topology.rs` over lists of claims, with the constants
of the code. Claims stay *sequences*, sorted and deduplicated where the code does it
(`ByHash`, `Firsts`), so that independence of the order is a result and not the shape of
the model. Integer division rounds towards zero as in Rust (`Quot`). A hash is the tuple
of what it is computed from, compared lexicographically; an embedding is the set of
its bits. The cycle cut is the depth-first search of `dfs_mark_cyclic` step by step,
over arena ids, because those ids are what it sorts by.

**EpistemicMesh.** The L3 nodes of `bench_l3_netem.rs`: `AddClaim` with its
delegation of reputation, `AddEdge`, and `SyncRound`, in which every node absorbs, one
source after the other, what the others held when the round began over the links that
are not lost. `Absorb` goes through the claims and then the edges of a source and takes
what is missing (`AddMissing`, `LinkMissing`), as the two loops of `l3_sync` do.

**NoiseSessions, GossipIngress.** One `listen` loop: `Acquire` takes a permit; a
datagram then ends in `DropEarly` (rate limit, circuit breaker), `Ignore`, `Blame`
(`peer_health` + 1) or `Accept`; the task that owns the permit sends (`TaskSend`) and the
dispatcher receives. `Bucket`, `Refilled` and `Charged` are `check_rate_limit` with
its integer division. `since` and `admitted` are history: a watch that any tick may
start anew, so that `RateBounded` speaks of every window that ends now. `causes` counts
per address what may count as a failure (`Cause`): the sessions opened, and what came bad. A datagram may arrive any number of times, in any order, or
never. Peers broadcast through `Wrap`. The Noise handshake is taken by the number
and the writer of its messages: the first is not encrypted, so any bytes of fitting
length pass for it; the others pass only if the other side wrote them.

**InferenceNode.** A received envelope is a task with a `stage`; each action is the
stretch between two points where the code can be preempted: the log send, the read
of the rules file, the publication of the hash under the mutex, the installation
of the engine under its own lock, the evaluation, `fetch_add`, the evidence, the
send to the actor. `/health` and the dashboard post root requests to the same mailbox,
`/health` with a timeout; the actor answers whether or not anybody still listens.

Definitions headed "A bug to catch" are not part of any specification. Each is a
plausible mistake in the definition that follows it, and PROJECT.json names the
property that catches it.

## 3. Runs

| Run | Shows | Instance, and why it is enough |
|---|---|---|
| `sweep` | GC keeps heads and shallow nodes, drops deep ones, terminates, implements `BoundedWalk`; a delta omits what the peer named and completes a peer that has its own history | all DAGs of 5 hashes, depth 2, all push orders: a node reached by chains of length 1, 2 and 3, with a parent of its own, needs 5; deltas (`SmallDelta`) on all DAGs of 4 hashes × all remote head sets |
| `replicas` | heads, cache, roots and epochs stay consistent; equal arenas, equal roots; given a stable key, a crash loses nothing a working store was given | 2 replicas, one of them with a failing store, 4 nodes, batches of 2, GC every 2 appends, depth 1, one restart each: both collect, prune, take in pruned nodes again, and one comes back with holes |
| `recovery_main` | **violated**: with the identity of `main.rs` a restart is empty | 3 nodes |
| `quorum` | settled once and by quorum; voters that agree settle a prompt whatever the others vote; denials proven and complete | one manager, 8 nodes: an equivocator, a repeated signature, two prompts, conflicting decisions, threshold 2 |
| `reputation` | delegations are paid for up to rounding, lift nobody above the highest reputation given, and strip nobody | 3 origins (a chain with a bystander), a scale of 3 points (both parities of a halved grant), 2 delegations each |
| `epistemic` | summaries and generated topology do not depend on the order of arrival; support settles; trust is not multiplied; contradictions take no more than the damping | 2 nodes, 4 claims of 2 authors (one piece of evidence reported twice, two embeddings for one content, one opposed to the others), any 3 of 6 edges: a cycle with a way in, a fork, two contradictions; the code's constants, 4-bit embeddings |
| `belief_order` | **violated**: same claims, edges and reputations, other beliefs | the same instance |
| `anti_entropy` | equal roots stand for equal histories while chains are shorter than a delta reaches; without loss one round is enough | 3 engines, two of which share a side of the partition, 4 nodes, delta depth 1, 3 rounds, fan-out 1, each strategy |
| `delta_depth` | **violated**: deltas "converge" over different histories | the same instance: a chain of 3 is longer than a delta reaches |
| `gossip` | from any moment on, no more passes the rate limit than the burst and the tokens of the time since; a signature passes twice only after a whole filter of others; blame has a cause; the listener comes back | one host for a client and a node, so that they share bucket and health; 5 envelopes (3 good, one of them too long for a handshake, one forged, one with ttl 0), filter 2, 2 permits, channel 1, burst 2, 3 tokens per 2 units, 3 units (a refill drops a fraction, or meets a bucket that is full before it), one session of 2 units, with and without `noise_required` |
| `inference` | no tick twice; only overlapping reloads leave stale rules; every accepted inference gets its node into the DAG | 2 tasks, 2 rule files or none, 2 edits, 1 root request, mailbox 1, log 1: both channels fill, reloads overlap, a health check is abandoned |
| `stale_rules` | **violated**: a check that found the current file evaluates with older rules | the same instance |

Bounds by name: `MaxNodes` (nodes created), `MaxBatch` (nodes in one merge),
`MaxBoots` (restarts per replica); `MaxRounds` (the rounds after which the harness
gives up); `MaxGrants` (delegations by one origin) and `MaxCredit` (points one origin
receives in all); `MaxEdges` (edges of a graph, repeated ones included); `MaxTime` (clock); `MaxTasks`,
`MaxEdits`, `MaxAsks` (envelopes, edits of the file, root requests). The code has
none of them but `MaxRounds`, and the theorems hold for every value. Two nodes per
batch are enough to bring child and parent together, in one batch or in two. The
symmetry set of `recovery_main` is sound: no property there distinguishes replicas.
Deadlock checking is off where the system really stops: a finished call
(`HistorySweep`), a finished harness (`AntiEntropy`), a shut-down node
(`InferenceNode`).

**Fairness.** `HistorySweep!FairSpec` assumes `WF_vars(Next)`: the loop is
straight-line code inside a single call of the actor, with no lock, await or
queue in it. `GossipIngress!FairSpec` assumes weak fairness of taking a permit, of
the tasks that send, and of the dispatcher: the runtime polls every task that is
ready. Nothing is assumed of the network or of time; that a datagram arrives is
not assumed either, `ListenerResumes` says that the listener is ready for one.
`InferenceNode!FairSpec` assumes strong fairness of every task: a task waits for room in a
channel, others may take the room first, and tokio's channels serve waiters in
their order, so that nobody is passed over for ever; the actor and the drain of the
log are weakly fair. Health checks, edits and shutdown are not fair.

## 4. Proofs

All theorems hold for every value of the constants, from the assumptions named
beside them in the modules: finite sets of hashes, thresholds, rates and capacities
at least 1 (enforced by `Config::validate`), depths natural numbers.

**MerkleDag_proofs.** `Nearest`, `Deepest` and `Ancestry` are recursive functions over
hashes, that is, a CHOOSE of a solution of their equation. A solution exists because
parents precede children (`RecursiveSolution`), so each function satisfies its own
equation. What holds of all hashes is then shown by a least counterexample, with the
library's fact that every non-empty set of numbers has a least element.

**HistorySweep_proofs.** The invariant relates marks, worklist and arena: each
worklist entry is a head at depth 0 or a parent of a marked node one level below it; every parent
of a marked node above the limit is marked, on the worklist, or a stop; every head
is marked or on the worklist. With an empty worklist this is `IsWalk`, so the
final step of the loop is the `Answer` of `BoundedWalk` and every other one stutters
(`LoopImplementsWalk`). That heads survive (`HeadsPreserved`) and stay the frontier
after being filtered (`HeadsStayFrontier`) needs that a marked node which is not a
head has a marked child. Of a finished walk, whatever its order, `MerkleDag_proofs`
shows that a mark is never below the shortest chain (`MarksWithinDepth`), that a node
whose longest chain is within the depth is marked (`ShallowNodesSurvive`), and that
with no stop below the depth all of the history is marked or below what the peer named
(`DeltaIsComplete`).

**CrdtReplicas_proofs.** `HeadsAreFrontier` alone is not inductive: a collection
filters heads computed earlier, and `GetRoot` caches what the copy of the heads
says. `IInv` is `TypeOK` (with p < h for every parent, so that an append cannot
create a cycle), `HeadsAreFrontier` and `CacheCoherent`; it implies `Convergence`
and gives `PruningOnlyAtEpoch`. Durability has an invariant of its own, about the
replicas outside `FaultyStores`: the arena is in the store under today's key, and every
stored node that is childless within the store is a head, from which
`RestartRecovers` follows although recovery also loads what GC had pruned. Only
`RecoveryIsComplete` assumes a stable identity.

**AntiEntropy_proofs.** Neither property is inductive. The invariant says that each
engine's heads are the frontier of its arena and that its arena is closed under
parents as long as no exchange cut a history off, that is, under full exchange or
while every chain is within a delta's reach; then the heads determine the arena
(`RootsIdentifyHistories`). For `FirstRoundConverges` it follows a round without
loss (`RoundInv`): who served before holds no more than the engine that serves now, and
whom that engine has served holds no less, so that the last row ends with all equal.

**QuorumManager_proofs.** `QuorumSafety` is not inductive, since it says nothing of
votes after a settlement. `TallyInv` adds that verified prompts are exactly those with a
quorum (`VerifiedExactlyByQuorum`), that a settled prompt takes no more votes, and that a
voter occurs once per prompt. `AgreementIsSettled` needs `VotesInv` besides: every node a
member was handed is settled, of a denied signature, or has its voter's vote in the tally
(`Heard`), and every vote in the tally is from such a node. So a voter that says one thing
only has voted for it, and threshold such voters are a quorum.
`DenialsHaveProof` needs that every tick seen points at an inspected node that has
that entry; `ForkersAreDenied`, under the assumption `SingleEntry` (one vector-clock
entry per node), that all inspected nodes of an origin not denied agree with the
one recorded first.

**Epistemic_proofs, the ledger.** `SpendingBound` and `DelegationCeiling` are inductive
with `LedgerTypeOK`. The argument is arithmetic: a grant is at most twice its cost plus
one (`HalfCost`), and replacing a score adds at least as much to what was received
as to the score (`Replaced`).

**Epistemic_proofs, the mesh.** The state invariant is `NodesTyped`: every node is in
`Locals`, lists without repetitions and a tracker on its scale. A round of
synchronisation is a fold of folds; that it stays in `Locals` (`MissingAdded`,
`MissingLinked`, `RoundTyped`) is an induction along each list. The two properties of
trust are facts about any claims, graph and tracker of these types, cyclic graphs
included, and need that what the engine computes is a number at all: sums over finite
sets (`SumIsInt`), discounts, the hierarchical aggregation (`AggregateIsInt`) and the
rounds of propagation (`StabilizedTyped`). `TrustIsNotMultiplied` compares sums term by
term (`SumsCompare`): the shares of the edges out of a claim add up to at most the whole
(`SharesAddUp`), and rounding down at each of the three divisions only lowers what is
handed on. `ContradictionsAreDamped` follows from the cap on the summed penalty.
`SupportAlwaysSettles` is the correctness of the depth-first search, for any graph.
`SearchInv` ranks the nodes the search has left by the step at which it left them:
every supporting edge out of such a node that is not marked goes to a node left
earlier, and no unmarked edge out of a node on the path leads back up the path. Twice the nodes seen less the length of the path counts the steps, so the
search ends within the steps the recursive function gives it, and every remaining edge
descends in rank (`LiveEdgesDescend`). Hence no node is its own dependent
(`DependentsBelow`), and after n rounds the support of every claim with at most n nodes
above it is final (`RoundsSettle`), which is every claim once n is the size of the graph.
Assumed of the constants is `MeshAssumption`: a hash is a string of numbers and
identifies its claim, an embedding is a set of bits within the width, confidences are
integers, strengths and the granted reputation are basis points, edges join arena ids.

**Epistemic_proofs, the order of arrival.** `SameClaimsSameSummaries` and
`SameClaimsSameTopology` are facts about two lists of the same claims. A sort is
modelled by what it does: the item at place k is the one that k - 1 others go before
(`Arranged`, `ByHash`, `Kept`). Hashes are strictly and totally ordered, so the numbers
of items that go before are all different (`PlacesAscend`) and every place is taken
once (`PlacesAreTaken`); hence lists with the same claims are sorted to the same list
(`ByHashAgrees`). Buckets of the grid keep their sets of claims, and a reducer reads its
bucket only through the sorted list and its length. Generated edges are drawn from the
sorted claims, so they agree, and they go up the order of the hashes, so that the search
finds no cycle and cuts nothing (`NothingIsCut`). What is left goes by arena ids, which
differ between the nodes: the permutation that carries one list into the other carries
edges (`DrawnMirrored`), groups, base trust, each round of support
(`SupportMirrored`, `StabilizedMirrored`) and the penalties along, because sums over the
same terms are equal whatever names them. Given edges may form cycles, which are cut by
arena ids, so that the edges left are not carried along: that is the run `belief_order`.

**GossipIngress_proofs.** `RateIsBounded` is about a watch that began at any moment
`since`. `BucketInv` tells two kinds of buckets apart (`Spent`). One refilled since then:
what has passed and what is left in it are at most a full bucket and the tokens up to
its last refill. One that was not: they are less than a full bucket, because the datagram
that saw the last refill took a token; and if anything passed, the time from that refill
to the watch was worth less than a token. The next refill therefore adds no more than one
above the tokens of the time since the watch began (`QuotientsMissOne`), and that one is
there to give. The cap of a refill is needed for the first kind, the move of
`last_refill` for both.
`NoEarlyReplay`: `FilterInv` says that the
filter is the tail, of at most its size, of what was accepted. `PermitsAreAccounted`:
permits left, held by a task and held by the listener are all there are.
`BlameHasACause`: the causes of an address are the sessions opened for it, the envelopes
that came bad, and, without `noise_required`, handshake messages that no session could
read and that were parsed as they came (a repeated one is one: the code counts it, section
5). A session is a cause before it does harm, so `BlameInv` counts, for each address, its
failures and the sessions that `unwrap` opened and that have read nothing yet; together
they never exceed the causes. A good envelope is blamed only when such a session reads it
as its first message (`ReadFirst`), which takes the session out of the count, so each
costs one failure at most (`BlamedOnce`).

**InferenceNode_proofs.** `TicksAreUnique`: `OneNodePerTick` speaks of the DAG only.
`TickInv` adds that tasks past `fetch_add` have different ticks up to the clock,
that the mailbox holds a task's message only while it waits, and once, and that the
tick of every node in the DAG is that of a task already answered; so the actor never
appends one again. `OnlyOverlapLeavesStaleRules`: as long as no two reloads have overlapped,
the one task between the two steps read the hash that is published, and with no such
task the engine is the published one (`StaleInv`, which needs of `TickInv` that the
actor answers waiting tasks only).

**Only model-checked.** `Terminates`, `ListenerResumes` and `InferenceRecorded`, which are
liveness under fairness and out of the prover's reach, and all violation runs. Every
other property of a passing run is a theorem.

## 5. Where the code and its documentation differ

Each of the first four is a run that TLC refutes.

1. Persistence: the key changes with the identity at each boot, so nothing is
   recovered, silently (`recovery_main`).
2. BeliefDeterminism: the edge left out of a cycle depends on arena ids, hence on the
   order of arrival; the sort that is to prevent this sorts by those ids
   (`belief_order`).
3. Deltas reach `DAG_HISTORY_DEPTH` (100) levels and roots cover the heads only, so the
   harness reports convergence over incomplete histories when more than that was
   written during a partition (`delta_depth`).
4. The hash of the rules is published before the engine is installed, so "before each
   evaluation" can mean with the old rules (`stale_rules`). After two overlapping
   reloads the stale engine stays until the file changes again (`overlapped` in
   `StaleOnlyByOverlap`).

The next six are claims of documents and comments stated as definitions. To see one
refuted, make it the only INVARIANT (the first and the fifth: PROPERTY) of the run
named, with the constants given.

| Claim | Definition | Run, with |
|---|---|---|
| "BFS from heads up to the configured depth" (`merkle_dag.rs`): the worklist is a stack, so a node within the depth can be pruned | `HistorySweep!KeepsConfiguredDepth` | `sweep`, `Hashes <- FourHashes`, `HistoryDepth = 2`, `Ops <- SweepOnly`, specification `FairSpec` |
| ADR 002, same history, same pruning: only local appends are counted | `CrdtReplicas!SameHistorySamePruning` | `replicas`, `FaultyStores = {}` |
| README, a verified decision is unique: true of each member, not of the mesh | `QuorumManager!MeshQuorumSafety` | `quorum`, `Managers = {m1, m2}`, `Nodes <- Honest` |
| "independent nodes" (`consensus.rs`): the voter is half a signature, so one author is a quorum | `QuorumManager!IndependentVoters` | `quorum`, `Nodes <- Eager` |
| "Rejects votes from denied (Byzantine) origins": voters and the denied have different names | `QuorumManager!DeniedNeverVote` | `quorum`, `Nodes <- BobsTwo` |
| "Total delegatable reputation converges to 2× original" (`epistemic.rs`): half of one point is nothing | `ReputationLedger!TotalDelegatable` | `reputation`, `Full = 4`, `MaxGrants = 3` |

Read from the code while modelling, without a run:

* Verified decisions are documented as persistent; the quorum manager starts empty at
  every boot and `restore_verified` has no caller. A member's own appends never pass
  through `observe`, so its own vote does not count at home.
* "A node is a head iff no other node lists it as a parent" (`actor.rs`) holds of the
  arena, which forgets: a node that arrives after its child was pruned becomes a head.
* Keywords are documented as "matched case-insensitively" (`decision_engine.rs`); the
  prompt is lowercased, the keywords of a file are not, so one with a capital never
  matches.
* The clock tick is taken before the append is queued, so ticks may enter the DAG out
  of order although `main.rs` calls it causal continuity, and the hash in the evidence
  may be of rules loaded after the evaluation.
* Queued tasks are lost at shutdown, and in dashboard mode a SIGTERM is only logged. After
  `AimpConfig::new()` failed, the fallback calls it again and unwraps.
* Nobody answers a broadcast handshake and `wrap` never turns a finished initiator into a
  transport, so no encrypted broadcast is ever sent; `main.rs` never calls `broadcast`.
* Without `noise_required`, the first raw envelope from an address is read as a
  handshake message if it fits, what is left of it does not parse, and the sender's
  `peer_health` goes up; again after each session timeout or eviction. Five of those, and
  the address is silenced for good. A handshake message that no session can read, such as
  one the network repeats, is parsed as it came and counts as well. `BlamedForCause` counts
  exactly these beside the bad envelopes.
* `broadcast` lowers ttl 1 to 0 and sends what every receiver counts against the sender.
  The session table may hold one more than `SESSION_MAX_COUNT`, since eviction comes first.
* The trait's "Associativity" and "Idempotency" of `reduce` do not hold: overlapping
  summaries are summed again and `source_count` counts duplicates.
* One claim with an odd fingerprint makes `can_reduce` refuse its whole bucket.
* Damping protects half of a claim's trust, so contradictions alone never reject one that
  was trusted (`ContradictionSafety` relies on it); support chains longer than the five
  iterations do not settle (the instance has none).
* In `bench_l3_netem.rs` every arriving claim delegates again, so reputations depend on
  the order of arrival, and edges copied by arena id may join other claims at the
  receiver. `belief_order` compares nodes only when both agree.

## 6. What could come next

| Module | Models | Properties worth having |
|---|---|---|
| one actor | DAG, quorum and epochs behind one mailbox, composing `CrdtReplicas` and `QuorumManager` | README's QuorumLiveness; that the composition implements its parts |
| a network of nodes | `GossipIngress` feeding `InferenceNode`, its appends fed to other nodes | every accepted inference reaches every member under fair gossip |
| decay and intervals | temporal decay, `ConfidenceInterval` | monotonicity in time, nesting of intervals |
| resolvers | contradiction resolvers, dependency-aware scoring | agreement of the resolvers on the beliefs reported |

Proofs worth adding: that beliefs over given edges do not depend on the order of arrival
as long as these edges form no cycle, and that reducing a bucket leaves its evidence
within the saturation bounds.

## 7. Not modelled

* Cryptography: hashes and signatures are injective names of what they cover; the Noise
  cipher is external (the snow crate).
* SimHash: embeddings are sets of bits, and their distance is all that is used.
* In the epistemic layer: `aggregate_correlated` outside of the hierarchical sum,
  confidence intervals, percentages, temporal decay, `support_ratio`, `detect_cycles`,
  the contradiction resolvers and the dependency-aware scorer.
* MessagePack encoding, command line, signals, HTTP replies, rendering and metrics: no
  decision of the modelled components depends on them.
* Measurement programs: throughput, memory and batch signing benchmarks, profiles and
  the comparison with subjective logic.
* `load_node`, `load_all` and `restore_verified`, which the node never calls.
