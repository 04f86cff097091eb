---------------------------- MODULE InferenceNode ----------------------------
(***************************************************************************)
(* The inside of a node (main.rs): the dispatcher gives every received     *)
(* envelope a task of its own; the tasks share the decision engine with    *)
(* its hot-reloaded rules (decision_engine.rs), the clock of the node, the *)
(* log channel and the mailbox of the CRDT actor, which the health check   *)
(* and the dashboard use too.                                              *)
(*                                                                         *)
(* What the actor does to the DAG is CrdtReplicas and QuorumManager; here  *)
(* its own nodes are a sequence, every one on top of what was there.       *)
(***************************************************************************)
EXTENDS Naturals, Sequences, FiniteSets

CONSTANTS
  RuleFiles,      \* contents of aimp_rules.json that parse
  NoRules,        \* a file that is missing or does not parse; no hash
  DefaultRules,   \* the built-in rules
  Rules(_),       \* the rules of a content: a sequence of [keywords, decision]
  Normal,         \* the decision when no rule matches
  Lower(_),       \* to_lowercase of a word
  Prompts,        \* sets of words
  MailboxSize,    \* of the channel to the actor
  LogSize,        \* network_log_capacity
  MaxTasks,       \* bound: envelopes dispatched
  MaxEdits,       \* bound: changes of the file
  MaxAsks         \* bound: requests for the merkle root

ASSUME NodeAssumption ==
  /\ NoRules \notin RuleFiles \cup {DefaultRules} /\ DefaultRules \notin RuleFiles
  /\ {MailboxSize, LogSize} \subseteq Nat \ {0}
  /\ {MaxTasks, MaxEdits, MaxAsks} \subseteq Nat

VARIABLES
  file, edits,    \* aimp_rules.json, and how often it was written
  published,      \* rules_hash
  engine,         \* engine, by the content it was made from
  clock,          \* node_clock
  tasks,          \* a sequence of [kind, prompt, stage, read, decision, tick, model]
  asks,           \* requests for the root, by what became of them
  mailbox,        \* messages to the actor: [kind, from]
  actorUp,        \* the actor has not panicked
  logs,           \* events in the log channel
  nodes,          \* what the actor appended for this node
  up,             \* the process runs
  overlapped      \* history: two tasks were about to install rules

vars == <<file, edits, published, engine, clock, tasks, asks, mailbox, actorUp, logs, nodes, up,
          overlapped>>

Init ==
  /\ file \in RuleFiles \cup {NoRules} /\ edits = 0
  /\ published = file
  /\ engine = IF file = NoRules THEN DefaultRules ELSE file
  /\ clock = 0 /\ tasks = << >> /\ asks = << >> /\ mailbox = << >>
  /\ actorUp = TRUE /\ logs = 0 /\ nodes = << >> /\ up = TRUE
  /\ overlapped = FALSE

(* An operator writes the file.                                            *)
WriteRules(content) ==
  /\ up /\ edits < MaxEdits /\ content # file
  /\ file' = content /\ edits' = edits + 1
  /\ UNCHANGED <<published, engine, clock, tasks, asks, mailbox, actorUp, logs, nodes, up,
                 overlapped>>

(* RuleEngine::evaluate: the first rule one of whose keywords is in the    *)
(* prompt.  The prompt is lowercased; the keywords are taken as they are.  *)
Evaluated(content, prompt) ==
  LET rules == Rules(content)
      matching == {k \in DOMAIN rules : \E w \in prompt : Lower(w) \in rules[k].keywords}
  IN  IF matching = {} THEN Normal
      ELSE rules[CHOOSE k \in matching : \A j \in matching : k <= j].decision

-----------------------------------------------------------------------------
(* Payload::decode: what a handler makes of the payload.                   *)
Kind(op, formed) ==
  IF op = "Infer" /\ formed THEN "infer" ELSE IF op = "SyncRes" /\ formed THEN "sync" ELSE "raw"

At(t, stage) == up /\ tasks[t].stage = stage

Moved(t, stage) == [tasks EXCEPT ![t].stage = stage]

(* Pings, sync requests and what does not decode end at once.              *)
Dispatch(kind, prompt) ==
  /\ up /\ Len(tasks) < MaxTasks
  /\ tasks' = Append(tasks, [kind |-> kind, prompt |-> prompt,
                             stage |-> IF kind = "raw" THEN "done" ELSE "start",
                             read |-> NoRules, decision |-> Normal, tick |-> 0, model |-> NoRules])
  /\ UNCHANGED <<file, edits, published, engine, clock, asks, mailbox, actorUp, logs, nodes, up,
                 overlapped>>

(* log_tx.try_send: an event that finds no room is dropped.                *)
TryLog == logs' = IF logs < LogSize THEN logs + 1 ELSE logs

(* handle_infer: "Pending..." goes to the log, when there is room.         *)
Pending(t) ==
  /\ At(t, "start") /\ tasks[t].kind = "infer" /\ logs < LogSize
  /\ logs' = logs + 1
  /\ tasks' = Moved(t, "check")
  /\ UNCHANGED <<file, edits, published, engine, clock, asks, mailbox, actorUp, nodes, up,
                 overlapped>>

(* try_hot_reload: the file is read ...                                    *)
ReadFile(t) ==
  /\ At(t, "check")
  /\ tasks' = [tasks EXCEPT ![t].read = file,
                            ![t].stage = IF file = NoRules THEN "evaluate" ELSE "compare"]
  /\ UNCHANGED <<file, edits, published, engine, clock, asks, mailbox, actorUp, logs, nodes, up,
                 overlapped>>

(* ... its hash compared and published, under the mutex ...                *)
Publish(t) ==
  /\ At(t, "compare")
  /\ published' = tasks[t].read
  /\ tasks' = Moved(t, IF published = tasks[t].read THEN "evaluate" ELSE "install")
  /\ overlapped' = (overlapped \/ (published # tasks[t].read
                                     /\ \E s \in DOMAIN tasks : tasks[s].stage = "install"))
  /\ UNCHANGED <<file, edits, engine, clock, asks, mailbox, actorUp, logs, nodes, up>>

(* A bug to catch: an engine that others are about to use is left alone,   *)
(* as with try_write.                                                      *)
InstalledIfIdle(t) ==
  IF \E s \in DOMAIN tasks : tasks[s].stage = "evaluate" THEN engine ELSE tasks[t].read

Installed(t) == tasks[t].read

(* ... and the engine replaced, under its own lock, and the log told.      *)
Install(t) ==
  /\ At(t, "install")
  /\ engine' = Installed(t)
  /\ tasks' = Moved(t, "evaluate")
  /\ TryLog
  /\ UNCHANGED <<file, edits, published, clock, asks, mailbox, actorUp, nodes, up, overlapped>>

(* run_evaluation after the check; the log is told the decision.           *)
Evaluate(t) ==
  /\ At(t, "evaluate")
  /\ tasks' = [tasks EXCEPT ![t].decision = Evaluated(engine, tasks[t].prompt), ![t].stage = "sign"]
  /\ TryLog
  /\ UNCHANGED <<file, edits, published, engine, clock, asks, mailbox, actorUp, nodes, up,
                 overlapped>>

(* A bug to catch: the clock is read and not advanced.                     *)
LoadedTick == clock

NewTick == clock + 1

(* The mutation is signed and takes the next tick: fetch_add(1) + 1.       *)
TakeTick(t) ==
  /\ At(t, "sign")
  /\ clock' = NewTick
  /\ tasks' = [tasks EXCEPT ![t].tick = NewTick, ![t].stage = "evidence"]
  /\ UNCHANGED <<file, edits, published, engine, asks, mailbox, actorUp, logs, nodes, up,
                 overlapped>>

(* The evidence names the engine there is by now.                          *)
Evidence(t) ==
  /\ At(t, "evidence")
  /\ tasks' = [tasks EXCEPT ![t].model = engine, ![t].stage = "send"]
  /\ UNCHANGED <<file, edits, published, engine, clock, asks, mailbox, actorUp, logs, nodes, up,
                 overlapped>>

(* CrdtHandle: a message for the actor, when the mailbox has room.         *)
Posted(message) == Len(mailbox) < MailboxSize /\ mailbox' = Append(mailbox, message)

(* handle_sync has no other steps; append_mutation and merge_nodes wait    *)
(* for room in the mailbox, and then for the answer.                       *)
Send(t) ==
  /\ At(t, "send") \/ (At(t, "start") /\ tasks[t].kind = "sync")
  /\ Posted([kind |-> tasks[t].kind, from |-> t])
  /\ tasks' = Moved(t, "wait")
  /\ UNCHANGED <<file, edits, published, engine, clock, asks, actorUp, logs, nodes, up, overlapped>>

(* MutationCommitted waits for room in the log, StateMerged does not.      *)
Finish(t) ==
  /\ At(t, "answered")
  /\ tasks[t].kind = "infer" => logs < LogSize
  /\ TryLog
  /\ tasks' = Moved(t, "done")
  /\ UNCHANGED <<file, edits, published, engine, clock, asks, mailbox, actorUp, nodes, up,
                 overlapped>>

-----------------------------------------------------------------------------
(* /health asks for the root, with a timeout; it reports what it got and   *)
(* whether the log has room.                                               *)
AskHealth ==
  /\ up /\ Len(asks) < MaxAsks
  /\ asks' = Append(asks, "waiting")
  /\ Posted([kind |-> "root", from |-> Len(asks) + 1])
  /\ UNCHANGED <<file, edits, published, engine, clock, tasks, actorUp, logs, nodes, up, overlapped>>

HealthTimeout(k) ==
  /\ up /\ asks[k] = "waiting"
  /\ asks' = [asks EXCEPT ![k] = "left"]
  /\ UNCHANGED <<file, edits, published, engine, clock, tasks, mailbox, actorUp, logs, nodes, up,
                 overlapped>>

HealthReport(k) ==
  /\ up /\ asks[k] \in {"left", "answered"}
  /\ asks' = [asks EXCEPT ![k] =
                IF @ = "answered" /\ logs < LogSize THEN "healthy" ELSE "unavailable"]
  /\ UNCHANGED <<file, edits, published, engine, clock, tasks, mailbox, actorUp, logs, nodes, up,
                 overlapped>>

(* The thread of the dashboard asks too, and waits.                        *)
RefreshRoot ==
  /\ up /\ Len(asks) < MaxAsks
  /\ \A k \in DOMAIN asks : asks[k] # "patient"
  /\ asks' = Append(asks, "patient")
  /\ Posted([kind |-> "root", from |-> Len(asks) + 1])
  /\ UNCHANGED <<file, edits, published, engine, clock, tasks, actorUp, logs, nodes, up, overlapped>>

(* let _ = resp.send(...): the actor goes on if nobody hears the answer.   *)
Survives(heard) == TRUE

(* append_mutation makes a node of what the task sent.                     *)
NodeOf(task) == [prompt |-> task.prompt, tick |-> task.tick, decision |-> task.decision,
                 model |-> task.model]

(* A bug to catch: a tick below one that is there is taken for an old one. *)
AppendedInOrder(task) ==
  IF \E k \in DOMAIN nodes : nodes[k].tick > task.tick THEN nodes ELSE Append(nodes, NodeOf(task))

Appended(task) == Append(nodes, NodeOf(task))

(* CrdtActor::run takes a message and answers it.                          *)
Actor ==
  /\ up /\ actorUp /\ mailbox # << >>
  /\ LET m == Head(mailbox) IN
       /\ nodes' = IF m.kind = "infer" THEN Appended(tasks[m.from]) ELSE nodes
       /\ tasks' = IF m.kind = "root" THEN tasks ELSE Moved(m.from, "answered")
       /\ asks' = IF m.kind = "root" /\ asks[m.from] \in {"waiting", "patient"}
                  THEN [asks EXCEPT ![m.from] = IF @ = "patient" THEN "shown" ELSE "answered"]
                  ELSE asks
       /\ actorUp' = Survives(m.kind = "root" => asks[m.from] \in {"waiting", "patient"})
  /\ mailbox' = Tail(mailbox)
  /\ UNCHANGED <<file, edits, published, engine, clock, logs, up, overlapped>>

(* The drain of headless mode, or the render loop of the dashboard.        *)
DrainLog ==
  /\ up /\ logs > 0
  /\ logs' = logs - 1
  /\ UNCHANGED <<file, edits, published, engine, clock, tasks, asks, mailbox, actorUp, nodes, up,
                 overlapped>>

(* main returns: whatever the tasks and the mailbox hold is gone.          *)
Shutdown ==
  /\ up
  /\ up' = FALSE
  /\ UNCHANGED <<file, edits, published, engine, clock, tasks, asks, mailbox, actorUp, logs, nodes,
                 overlapped>>

Step(t) ==
  \/ Pending(t) \/ ReadFile(t) \/ Publish(t) \/ Install(t) \/ Evaluate(t)
  \/ TakeTick(t) \/ Evidence(t) \/ Send(t) \/ Finish(t)

Next ==
  \/ \E content \in RuleFiles \cup {NoRules} : WriteRules(content)
  \/ \E op \in {"Ping", "SyncReq", "SyncRes", "Infer"}, formed \in BOOLEAN, prompt \in Prompts :
       Dispatch(Kind(op, formed), prompt)
  \/ \E t \in DOMAIN tasks :
       \/ Pending(t) \/ ReadFile(t) \/ Publish(t) \/ Install(t) \/ Evaluate(t)
       \/ TakeTick(t) \/ Evidence(t) \/ Send(t) \/ Finish(t)
  \/ AskHealth \/ RefreshRoot
  \/ \E k \in DOMAIN asks : HealthTimeout(k) \/ HealthReport(k)
  \/ Actor \/ DrainLog \/ Shutdown

Spec == Init /\ [][Next]_vars

(* The runtime runs every task that can go on; the channels serve those    *)
(* who wait for room in their order, so nobody waits for it for ever.      *)
FairSpec ==
  /\ Spec
  /\ \A t \in 1..MaxTasks : SF_vars(t \in DOMAIN tasks /\ Step(t))
  /\ WF_vars(Actor) /\ WF_vars(DrainLog)

-----------------------------------------------------------------------------
(* node_clock: however the tasks interleave, no two mutations of the node  *)
(* carry the same tick.  Peers take two different ones with the same tick  *)
(* for equivocation and deny the node its vote.                            *)
OneNodePerTick ==
  \A j, k \in DOMAIN nodes : nodes[j].tick = nodes[k].tick => j = k

(* try_hot_reload publishes the hash and installs the engine in two steps. *)
(* When no reload is under way the engine is the one whose hash is         *)
(* published, unless two reloads have been under way at once.              *)
StaleOnlyByOverlap ==
  \/ overlapped \/ published \in {engine, NoRules}
  \/ \E t \in DOMAIN tasks : tasks[t].stage = "install"

(* handle_infer: an inference that was dispatched gets its node, with its  *)
(* own prompt, decision and tick, in the DAG, whatever the other tasks,    *)
(* the reloads, the full channels and the abandoned health checks do, and  *)
(* in whatever order the ticks reach the actor, unless the process ends.   *)
InferenceRecorded ==
  \A t \in 1..MaxTasks :
    (t \in DOMAIN tasks /\ tasks[t].kind = "infer")
      ~> \/ ~up
         \/ /\ t \in DOMAIN tasks /\ tasks[t].stage = "done"
            /\ \E k \in DOMAIN nodes : nodes[k] = NodeOf(tasks[t])

(* decision_engine.rs, "Checks for rule file changes before each           *)
(* evaluation (hot-reload)": the evaluation after the check uses the rules *)
(* that the check read, when nobody has changed them since.                *)
EvaluatesCheckedRules ==
  \A t \in DOMAIN tasks :
    tasks[t].stage = "evaluate" /\ tasks[t].read = file /\ file # NoRules => engine = file
=============================================================================
