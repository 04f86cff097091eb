----------------------- MODULE InferenceNode_proofs -----------------------
(***************************************************************************)
(* Proofs about the inference tasks of a node, for any rules, prompts and  *)
(* sizes of the channels, and however many tasks run at once.              *)
(***************************************************************************)
EXTENDS InferenceNode, TLAPS

(* The shape of a task; what its fields but the tick hold does not matter. *)
Task(D) == [kind : D, prompt : D, stage : D, read : D, decision : D, tick : Nat, model : D]

Shape == \E D : tasks \in Seq(Task(D))

(* Task t went on, the others stayed as they were.                         *)
Only(t) ==
  /\ Shape' /\ DOMAIN tasks' = DOMAIN tasks
  /\ \A s \in DOMAIN tasks \ {t} : tasks'[s] = tasks[s]
  /\ tasks'[t].kind = tasks[t].kind

-----------------------------------------------------------------------------
LEMMA Extended ==
  ASSUME NEW D, NEW E, NEW q \in Seq(Task(D)), D \subseteq E
  PROVE  q \in Seq(Task(E))
<1>1. \A r \in Task(D) : r \in Task(E)
  BY DEF Task
<1> QED
  BY <1>1

(* One task of the sequence is another record.                             *)
LEMMA Replaced ==
  ASSUME NEW E, tasks \in Seq(Task(E)), NEW t \in DOMAIN tasks, NEW new \in Task(E),
         new.kind = tasks[t].kind, tasks' = [tasks EXCEPT ![t] = new]
  PROVE  Only(t) /\ tasks'[t] = new
<1>1. tasks' \in Seq(Task(E))
  OBVIOUS
<1>2. DOMAIN tasks' = DOMAIN tasks /\ tasks'[t] = new
      /\ \A s \in DOMAIN tasks \ {t} : tasks'[s] = tasks[s]
  OBVIOUS
<1> QED
  BY <1>1, <1>2 DEF Only, Shape

(* Moved: a task that goes on to its next stage.                           *)
LEMMA MovedEffect ==
  ASSUME Shape, NEW t \in DOMAIN tasks, NEW stage, tasks' = Moved(t, stage)
  PROVE  /\ Only(t) /\ tasks'[t].stage = stage
         /\ tasks'[t].tick = tasks[t].tick /\ tasks'[t].read = tasks[t].read
<1> DEFINE new == [tasks[t] EXCEPT !.stage = stage]
<1>1. PICK D : tasks \in Seq(Task(D))
  BY DEF Shape
<1> DEFINE E == D \cup {stage}
<1>2. tasks \in Seq(Task(E)) /\ tasks[t] \in Task(E)
  BY <1>1, Extended
<1>3. /\ new \in Task(E) /\ new.kind = tasks[t].kind /\ new.stage = stage
      /\ new.tick = tasks[t].tick /\ new.read = tasks[t].read
  BY <1>2 DEF Task
<1>4. tasks' = [tasks EXCEPT ![t] = new]
  BY DEF Moved
<1> QED
  BY <1>2, <1>3, <1>4, Replaced

(* The steps that set more than the stage.                                 *)
LEMMA ReadFileEffect ==
  ASSUME Shape, NEW t \in DOMAIN tasks, ReadFile(t)
  PROVE  Only(t) /\ tasks'[t].tick = tasks[t].tick /\ tasks'[t].stage \in {"evaluate", "compare"}
<1> DEFINE new == [tasks[t] EXCEPT !.read = file,
                                   !.stage = IF file = NoRules THEN "evaluate" ELSE "compare"]
<1>1. PICK D : tasks \in Seq(Task(D))
  BY DEF Shape
<1> DEFINE E == D \cup {file, "evaluate", "compare"}
<1>2. tasks \in Seq(Task(E)) /\ tasks[t] \in Task(E)
  BY <1>1, Extended
<1>3. new \in Task(E) /\ new.kind = tasks[t].kind /\ new.tick = tasks[t].tick
      /\ new.stage \in {"evaluate", "compare"}
  BY <1>2 DEF Task
<1>4. tasks' = [tasks EXCEPT ![t] = new]
  BY <1>2 DEF ReadFile
<1> QED
  BY <1>2, <1>3, <1>4, Replaced

LEMMA EvaluateEffect ==
  ASSUME Shape, NEW t \in DOMAIN tasks, Evaluate(t)
  PROVE  Only(t) /\ tasks'[t].tick = tasks[t].tick /\ tasks'[t].stage = "sign"
<1> DEFINE new == [tasks[t] EXCEPT !.decision = Evaluated(engine, tasks[t].prompt), !.stage = "sign"]
<1>1. PICK D : tasks \in Seq(Task(D))
  BY DEF Shape
<1> DEFINE E == D \cup {Evaluated(engine, tasks[t].prompt), "sign"}
<1>2. tasks \in Seq(Task(E)) /\ tasks[t] \in Task(E)
  BY <1>1, Extended
<1>3. new \in Task(E) /\ new.kind = tasks[t].kind /\ new.tick = tasks[t].tick /\ new.stage = "sign"
  BY <1>2 DEF Task
<1>4. tasks' = [tasks EXCEPT ![t] = new]
  BY <1>2 DEF Evaluate
<1> QED
  BY <1>2, <1>3, <1>4, Replaced

LEMMA EvidenceEffect ==
  ASSUME Shape, NEW t \in DOMAIN tasks, Evidence(t)
  PROVE  Only(t) /\ tasks'[t].tick = tasks[t].tick /\ tasks'[t].stage = "send"
<1> DEFINE new == [tasks[t] EXCEPT !.model = engine, !.stage = "send"]
<1>1. PICK D : tasks \in Seq(Task(D))
  BY DEF Shape
<1> DEFINE E == D \cup {engine, "send"}
<1>2. tasks \in Seq(Task(E)) /\ tasks[t] \in Task(E)
  BY <1>1, Extended
<1>3. new \in Task(E) /\ new.kind = tasks[t].kind /\ new.tick = tasks[t].tick /\ new.stage = "send"
  BY <1>2 DEF Task
<1>4. tasks' = [tasks EXCEPT ![t] = new]
  BY <1>2 DEF Evidence
<1> QED
  BY <1>2, <1>3, <1>4, Replaced

LEMMA TakeTickEffect ==
  ASSUME Shape, clock \in Nat, NEW t \in DOMAIN tasks, TakeTick(t)
  PROVE  Only(t) /\ tasks'[t].tick = clock + 1 /\ tasks'[t].stage = "evidence"
<1> DEFINE new == [tasks[t] EXCEPT !.tick = clock + 1, !.stage = "evidence"]
<1>1. PICK D : tasks \in Seq(Task(D))
  BY DEF Shape
<1> DEFINE E == D \cup {"evidence"}
<1>2. tasks \in Seq(Task(E)) /\ tasks[t] \in Task(E)
  BY <1>1, Extended
<1>0. clock + 1 \in Nat
  OBVIOUS
<1>3. new \in Task(E) /\ new.kind = tasks[t].kind /\ new.tick = clock + 1
      /\ new.stage = "evidence"
  BY <1>2, <1>0 DEF Task
<1>4. tasks' = [tasks EXCEPT ![t] = new]
  BY <1>2 DEF TakeTick, NewTick
<1> QED
  BY <1>2, <1>3, <1>4, Replaced

-----------------------------------------------------------------------------
(* Who has a tick, what the mailbox holds of whom, and where the ticks in  *)
(* the DAG come from.                                                      *)
Ticked(t) ==
  tasks[t].kind = "infer" /\ tasks[t].stage \in {"evidence", "send", "wait", "answered", "done"}

Recorded(t) == tasks[t].kind = "infer" /\ tasks[t].stage \in {"answered", "done"}

Typed ==
  /\ Shape /\ clock \in Nat
  /\ \E D : mailbox \in Seq(D)
  /\ \E D : nodes \in Seq(D)

TicksDiffer ==
  /\ \A t \in DOMAIN tasks : Ticked(t) => tasks[t].tick \in 1..clock
  /\ \A s, t \in DOMAIN tasks : Ticked(s) /\ Ticked(t) /\ tasks[s].tick = tasks[t].tick => s = t

MailboxHonest ==
  /\ \A i \in DOMAIN mailbox : mailbox[i].kind # "root" =>
       /\ mailbox[i].from \in DOMAIN tasks
       /\ tasks[mailbox[i].from].stage = "wait"
       /\ tasks[mailbox[i].from].kind = mailbox[i].kind
  /\ \A i, j \in DOMAIN mailbox :
       mailbox[i].kind # "root" /\ mailbox[j].kind # "root" /\ mailbox[i].from = mailbox[j].from
         => i = j

NodesRecorded ==
  \A j \in DOMAIN nodes : \E t \in DOMAIN tasks : Recorded(t) /\ tasks[t].tick = nodes[j].tick

TickInv == Typed /\ TicksDiffer /\ MailboxHonest /\ NodesRecorded /\ OneNodePerTick

LEMMA InitTickInv == Init => TickInv
<1> SUFFICES ASSUME Init PROVE TickInv
  OBVIOUS
<1>1. tasks = << >> /\ mailbox = << >> /\ nodes = << >> /\ clock = 0
  BY DEF Init
<1>2. tasks \in Seq(Task({})) /\ mailbox \in Seq({}) /\ nodes \in Seq({})
  BY <1>1
<1>3. DOMAIN tasks = {} /\ DOMAIN mailbox = {} /\ DOMAIN nodes = {}
  BY <1>1
<1>4. Typed
  BY <1>1, <1>2 DEF Typed, Shape
<1> QED
  BY <1>3, <1>4 DEF TickInv, TicksDiffer, MailboxHonest, NodesRecorded, OneNodePerTick

(* A step of a task that takes no tick and has no message in the mailbox.  *)
LEMMA QuietStep ==
  ASSUME TickInv, NEW t \in DOMAIN tasks, Only(t), tasks[t].stage # "wait",
         tasks'[t].tick = tasks[t].tick, Ticked(t)' => Ticked(t), Recorded(t) => Recorded(t)',
         UNCHANGED <<clock, mailbox, nodes>>
  PROVE  TickInv'
<1>1. Typed'
  BY DEF TickInv, Typed, Only
<1>2. /\ \A s \in DOMAIN tasks : Ticked(s)' => Ticked(s)
      /\ \A s \in DOMAIN tasks : Recorded(s) => Recorded(s)'
      /\ \A s \in DOMAIN tasks : tasks'[s].tick = tasks[s].tick
  BY DEF Only, Ticked, Recorded
<1>3. DOMAIN tasks' = DOMAIN tasks
  BY DEF Only
<1>4. TicksDiffer'
  BY <1>2, <1>3 DEF TickInv, TicksDiffer
<1>5. MailboxHonest'
  BY DEF TickInv, MailboxHonest, Only
<1>6. NodesRecorded'
  BY <1>2, <1>3 DEF TickInv, NodesRecorded
<1>7. OneNodePerTick'
  BY DEF TickInv, OneNodePerTick
<1> QED
  BY <1>1, <1>4, <1>5, <1>6, <1>7 DEF TickInv

(* fetch_add: the tick is one that nobody has.                             *)
LEMMA TakeTickTickInv ==
  ASSUME TickInv, NEW t \in DOMAIN tasks, TakeTick(t)
  PROVE  TickInv'
<1>1. /\ Only(t) /\ tasks'[t].tick = clock + 1 /\ tasks'[t].stage = "evidence"
      /\ clock \in Nat /\ clock' = clock + 1 /\ tasks[t].stage = "sign"
      /\ UNCHANGED <<mailbox, nodes>>
  BY TakeTickEffect DEF TickInv, Typed, TakeTick, At, NewTick
<1>2. Typed'
  <2>1. clock' \in Nat
    BY <1>1
  <2>2. (\E D : mailbox \in Seq(D))' /\ (\E D : nodes \in Seq(D))'
    BY <1>1 DEF TickInv, Typed
  <2> QED
    BY <1>1, <2>1, <2>2 DEF Typed, Only
<1>3. \A s \in DOMAIN tasks \ {t} :
        tasks'[s] = tasks[s] /\ (Ticked(s)' <=> Ticked(s)) /\ (Recorded(s)' <=> Recorded(s))
  BY <1>1 DEF Only, Ticked, Recorded
<1>4. DOMAIN tasks' = DOMAIN tasks /\ ~Recorded(t)
  BY <1>1 DEF Only, Recorded
<1>5. TicksDiffer'
  <2>1. \A s \in DOMAIN tasks \ {t} : Ticked(s)' => tasks'[s].tick \in 1..clock
    BY <1>3 DEF TickInv, TicksDiffer
  <2>2. \A s \in DOMAIN tasks : Ticked(s)' => tasks'[s].tick \in 1..(clock + 1)
    BY <1>1, <2>1
  <2>3. \A s \in DOMAIN tasks \ {t} : Ticked(s)' => tasks'[s].tick # tasks'[t].tick
    BY <1>1, <2>1
  <2>4. \A r, s \in DOMAIN tasks \ {t} :
          Ticked(r)' /\ Ticked(s)' /\ tasks'[r].tick = tasks'[s].tick => r = s
    BY <1>3 DEF TickInv, TicksDiffer
  <2> QED
    BY <1>1, <1>4, <2>2, <2>3, <2>4 DEF TicksDiffer
<1>6. MailboxHonest'
  BY <1>1, <1>3, <1>4 DEF TickInv, MailboxHonest
<1>7. NodesRecorded'
  BY <1>1, <1>3, <1>4 DEF TickInv, NodesRecorded
<1>8. OneNodePerTick'
  BY <1>1 DEF TickInv, OneNodePerTick
<1> QED
  BY <1>2, <1>5, <1>6, <1>7, <1>8 DEF TickInv

(* A message to the actor; the sender waits, and had no message there.     *)
LEMMA SendTickInv ==
  ASSUME TickInv, NEW t \in DOMAIN tasks, Send(t)
  PROVE  TickInv'
<1> DEFINE message == [kind |-> tasks[t].kind, from |-> t]
<1>1. /\ tasks' = Moved(t, "wait") /\ mailbox' = Append(mailbox, message)
      /\ UNCHANGED <<clock, nodes>>
      /\ tasks[t].stage = "send" \/ (tasks[t].stage = "start" /\ tasks[t].kind = "sync")
  BY DEF Send, At, Posted
<1>2. Only(t) /\ tasks'[t].stage = "wait" /\ tasks'[t].tick = tasks[t].tick
  BY <1>1, MovedEffect DEF TickInv, Typed
<1>3. DOMAIN tasks' = DOMAIN tasks
  BY <1>2 DEF Only
<1>4. PICK D : mailbox \in Seq(D)
  BY DEF TickInv, Typed
<1>5. mailbox' \in Seq(D \cup {message})
  <2>1. mailbox \in Seq(D \cup {message})
    BY <1>4
  <2> QED
    BY <1>1, <2>1
<1>6. Typed'
  <2>1. (\E C : nodes \in Seq(C))' /\ clock' \in Nat
    BY <1>1 DEF TickInv, Typed
  <2> QED
    BY <1>2, <1>5, <2>1 DEF Typed, Only
<1>7. /\ \A s \in DOMAIN tasks : Ticked(s)' => Ticked(s)
      /\ \A s \in DOMAIN tasks : Recorded(s) => Recorded(s)'
      /\ \A s \in DOMAIN tasks : tasks'[s].tick = tasks[s].tick
  BY <1>1, <1>2 DEF Only, Ticked, Recorded
<1>8. TicksDiffer'
  BY <1>1, <1>3, <1>7 DEF TickInv, TicksDiffer
<1>9. MailboxHonest'
  <2>1. /\ DOMAIN mailbox' = DOMAIN mailbox \cup {Len(mailbox) + 1}
        /\ \A i \in DOMAIN mailbox : mailbox'[i] = mailbox[i]
        /\ mailbox'[Len(mailbox) + 1] = message
    BY <1>1, <1>4
  <2>2. \A i \in DOMAIN mailbox : mailbox[i].kind # "root" => mailbox[i].from # t
    BY <1>1 DEF TickInv, MailboxHonest
  <2>3. ASSUME NEW i \in DOMAIN mailbox', mailbox'[i].kind # "root"
        PROVE  /\ mailbox'[i].from \in DOMAIN tasks
               /\ tasks'[mailbox'[i].from].stage = "wait"
               /\ tasks'[mailbox'[i].from].kind = mailbox'[i].kind
    <3>1. CASE i \in DOMAIN mailbox
      BY <1>2, <2>1, <2>2, <2>3, <3>1 DEF TickInv, MailboxHonest, Only
    <3>2. CASE i = Len(mailbox) + 1
      BY <1>2, <2>1, <3>2 DEF Only
    <3> QED
      BY <2>1, <3>1, <3>2
  <2>4. ASSUME NEW i \in DOMAIN mailbox', NEW j \in DOMAIN mailbox',
               mailbox'[i].kind # "root", mailbox'[j].kind # "root",
               mailbox'[i].from = mailbox'[j].from
        PROVE  i = j
    <3>1. CASE i \in DOMAIN mailbox /\ j \in DOMAIN mailbox
      BY <2>1, <2>4, <3>1 DEF TickInv, MailboxHonest
    <3>2. CASE i = Len(mailbox) + 1 /\ j \in DOMAIN mailbox
      BY <2>1, <2>2, <2>4, <3>2
    <3>3. CASE j = Len(mailbox) + 1 /\ i \in DOMAIN mailbox
      BY <2>1, <2>2, <2>4, <3>3
    <3> QED
      BY <2>1, <3>1, <3>2, <3>3
  <2> QED
    BY <1>3, <2>3, <2>4 DEF MailboxHonest
<1>10. NodesRecorded'
  BY <1>1, <1>3, <1>7 DEF TickInv, NodesRecorded
<1>11. OneNodePerTick'
  BY <1>1 DEF TickInv, OneNodePerTick
<1> QED
  BY <1>6, <1>8, <1>9, <1>10, <1>11 DEF TickInv

(* A request for the root: no task is concerned.                           *)
LEMMA RootAsked ==
  ASSUME TickInv, NEW k, mailbox' = Append(mailbox, [kind |-> "root", from |-> k]),
         UNCHANGED <<tasks, clock, nodes>>
  PROVE  TickInv'
<1>1. PICK D : mailbox \in Seq(D)
  BY DEF TickInv, Typed
<1> DEFINE message == [kind |-> "root", from |-> k]
<1>2. mailbox' \in Seq(D \cup {message})
  <2>1. mailbox \in Seq(D \cup {message})
    BY <1>1
  <2> QED
    BY <2>1
<1>3. Typed'
  <2>1. (\E C : nodes \in Seq(C))' /\ clock' \in Nat /\ Shape'
    BY DEF TickInv, Typed, Shape
  <2> QED
    BY <1>2, <2>1 DEF Typed
<1>4. /\ DOMAIN mailbox' = DOMAIN mailbox \cup {Len(mailbox) + 1}
      /\ \A i \in DOMAIN mailbox : mailbox'[i] = mailbox[i]
      /\ mailbox'[Len(mailbox) + 1].kind = "root"
  BY <1>1
<1>5. MailboxHonest'
  BY <1>4 DEF TickInv, MailboxHonest
<1>6. TicksDiffer' /\ NodesRecorded' /\ OneNodePerTick'
  BY DEF TickInv, TicksDiffer, NodesRecorded, OneNodePerTick, Ticked, Recorded
<1> QED
  BY <1>3, <1>5, <1>6 DEF TickInv

(* The actor answers a task; an inference becomes a node with its tick.    *)
LEMMA ActorTickInv ==
  ASSUME TickInv, Actor
  PROVE  TickInv'
<1>0. PICK m, t : m = Head(mailbox) /\ t = m.from
  OBVIOUS
<1>1. PICK D : mailbox \in Seq(D)
  BY DEF TickInv, Typed
<1>2. mailbox # << >> /\ mailbox' = Tail(mailbox) /\ UNCHANGED clock
  BY DEF Actor
<1>3. /\ mailbox' \in Seq(D)
      /\ 1 \in DOMAIN mailbox /\ m = mailbox[1] /\ t = m.from
      /\ \A i \in DOMAIN mailbox' :
           i \in Nat \ {0} /\ i + 1 \in DOMAIN mailbox /\ mailbox'[i] = mailbox[i + 1]
  BY <1>0, <1>1, <1>2
<1>4. CASE m.kind = "root"
  <2>1. UNCHANGED <<tasks, nodes>>
    BY <1>0, <1>4 DEF Actor
  <2>2. Typed'
    <3>1. (\E C : nodes \in Seq(C))' /\ clock' \in Nat /\ Shape'
      BY <1>2, <2>1 DEF TickInv, Typed, Shape
    <3> QED
      BY <1>3, <3>1 DEF Typed
  <2>3. MailboxHonest'
    BY <1>3, <2>1 DEF TickInv, MailboxHonest
  <2>4. TicksDiffer' /\ NodesRecorded' /\ OneNodePerTick'
    BY <1>2, <2>1 DEF TickInv, TicksDiffer, NodesRecorded, OneNodePerTick, Ticked, Recorded
  <2> QED
    BY <2>2, <2>3, <2>4 DEF TickInv
<1>5. CASE m.kind # "root"
  <2>1. t \in DOMAIN tasks /\ tasks[t].stage = "wait" /\ tasks[t].kind = m.kind
    BY <1>3, <1>5 DEF TickInv, MailboxHonest
  <2>2. tasks' = Moved(t, "answered")
    BY <1>0, <1>5 DEF Actor
  <2>3. Only(t) /\ tasks'[t].stage = "answered" /\ tasks'[t].tick = tasks[t].tick
    BY <2>1, <2>2, MovedEffect DEF TickInv, Typed
  <2>4. DOMAIN tasks' = DOMAIN tasks /\ tasks'[t].kind = tasks[t].kind
        /\ \A s \in DOMAIN tasks \ {t} : tasks'[s] = tasks[s]
    BY <2>3 DEF Only
  <2>5. /\ \A s \in DOMAIN tasks : Ticked(s)' => Ticked(s)
        /\ \A s \in DOMAIN tasks : Recorded(s) => Recorded(s)'
        /\ \A s \in DOMAIN tasks : tasks'[s].tick = tasks[s].tick
    BY <2>1, <2>3, <2>4 DEF Ticked, Recorded
  <2>6. TicksDiffer'
    BY <1>2, <2>4, <2>5 DEF TickInv, TicksDiffer
  <2>7. MailboxHonest'
    <3>1. \A i \in DOMAIN mailbox' : mailbox'[i].kind # "root" => mailbox'[i].from # t
      BY <1>3, <1>5 DEF TickInv, MailboxHonest
    <3>2. \A i \in DOMAIN mailbox' : mailbox'[i].kind # "root" =>
            /\ mailbox'[i].from \in DOMAIN tasks \ {t}
            /\ tasks[mailbox'[i].from].stage = "wait"
            /\ tasks[mailbox'[i].from].kind = mailbox'[i].kind
      BY <1>3, <3>1 DEF TickInv, MailboxHonest
    <3>3. \A i, j \in DOMAIN mailbox' :
            mailbox'[i].kind # "root" /\ mailbox'[j].kind # "root"
              /\ mailbox'[i].from = mailbox'[j].from => i = j
      BY <1>3 DEF TickInv, MailboxHonest
    <3> QED
      BY <2>4, <3>2, <3>3 DEF MailboxHonest
  <2>8. CASE m.kind = "infer"
    <3> DEFINE node == NodeOf(tasks[t])
    <3>1. nodes' = Append(nodes, node) /\ node.tick = tasks[t].tick
      BY <1>0, <2>8 DEF Actor, Appended, NodeOf
    <3>2. PICK C : nodes \in Seq(C)
      BY DEF TickInv, Typed
    <3>3. nodes \in Seq(C \cup {node})
      BY <3>2
    <3>4. /\ nodes' \in Seq(C \cup {node})
          /\ DOMAIN nodes' = DOMAIN nodes \cup {Len(nodes) + 1}
          /\ \A j \in DOMAIN nodes : nodes'[j] = nodes[j]
          /\ nodes'[Len(nodes) + 1].tick = tasks[t].tick
      BY <3>1, <3>3
    <3>5. Typed'
      <4>1. clock' \in Nat /\ Shape'
        BY <1>2, <2>3 DEF TickInv, Typed, Only
      <4> QED
        BY <1>3, <3>4, <4>1 DEF Typed
    <3>6. Ticked(t) /\ ~Recorded(t) /\ Recorded(t)'
      BY <2>1, <2>3, <2>4, <2>8 DEF Ticked, Recorded
    <3>7. NodesRecorded'
      <4>1. \A j \in DOMAIN nodes : \E s \in DOMAIN tasks' :
              Recorded(s)' /\ tasks'[s].tick = nodes'[j].tick
        BY <2>4, <2>5, <3>4 DEF TickInv, NodesRecorded
      <4>2. Recorded(t)' /\ tasks'[t].tick = nodes'[Len(nodes) + 1].tick
        BY <2>3, <3>4, <3>6
      <4> QED
        BY <2>1, <2>4, <3>4, <4>1, <4>2 DEF NodesRecorded
    <3>8. OneNodePerTick'
      <4>1. \A s \in DOMAIN tasks : Recorded(s) => tasks[s].tick # tasks[t].tick
        BY <2>1, <3>6 DEF TickInv, TicksDiffer, Ticked, Recorded
      <4>2. \A j \in DOMAIN nodes : nodes'[j].tick # nodes'[Len(nodes) + 1].tick
        BY <3>4, <4>1 DEF TickInv, NodesRecorded
      <4> QED
        BY <3>4, <4>2 DEF TickInv, OneNodePerTick
    <3> QED
      BY <2>6, <2>7, <3>5, <3>7, <3>8 DEF TickInv
  <2>9. CASE m.kind # "infer"
    <3>1. UNCHANGED nodes
      BY <1>0, <2>9 DEF Actor
    <3>2. Typed'
      <4>1. (\E C : nodes \in Seq(C))' /\ clock' \in Nat /\ Shape'
        BY <1>2, <2>3, <3>1 DEF TickInv, Typed, Only
      <4> QED
        BY <1>3, <4>1 DEF Typed
    <3>3. NodesRecorded' /\ OneNodePerTick'
      BY <2>4, <2>5, <3>1 DEF TickInv, NodesRecorded, OneNodePerTick
    <3> QED
      BY <2>6, <2>7, <3>2, <3>3 DEF TickInv
  <2> QED
    BY <2>8, <2>9
<1> QED
  BY <1>4, <1>5

(* A new task has no tick yet.                                             *)
LEMMA DispatchTickInv ==
  ASSUME TickInv, NEW kind, NEW prompt, Dispatch(kind, prompt)
  PROVE  TickInv'
<1> DEFINE new == [kind |-> kind, prompt |-> prompt,
                   stage |-> IF kind = "raw" THEN "done" ELSE "start",
                   read |-> NoRules, decision |-> Normal, tick |-> 0, model |-> NoRules]
<1>1. tasks' = Append(tasks, new) /\ UNCHANGED <<clock, mailbox, nodes>>
  BY DEF Dispatch
<1>2. PICK D : tasks \in Seq(Task(D))
  BY DEF TickInv, Typed, Shape
<1> DEFINE E == D \cup {kind, prompt, new.stage, NoRules, Normal}
<1>3. tasks \in Seq(Task(E))
  BY <1>2, Extended
<1>4. new \in Task(E)
  BY DEF Task
<1>5. /\ tasks' \in Seq(Task(E))
      /\ DOMAIN tasks' = DOMAIN tasks \cup {Len(tasks) + 1}
      /\ \A t \in DOMAIN tasks : tasks'[t] = tasks[t]
      /\ tasks'[Len(tasks) + 1] = new
  <2> HIDE DEF E, new
  <2> QED
    BY <1>1, <1>3, <1>4
<1>6. Typed'
  <2>1. (\E C : mailbox \in Seq(C))' /\ (\E C : nodes \in Seq(C))'
        /\ clock' \in Nat
    BY <1>1 DEF TickInv, Typed
  <2>2. Shape'
    BY <1>5 DEF Shape
  <2> QED
    BY <2>1, <2>2 DEF Typed
<1>12. PICK n : n = Len(tasks) + 1
  OBVIOUS
<1>7. /\ \A t \in DOMAIN tasks : (Ticked(t)' <=> Ticked(t)) /\ (Recorded(t)' <=> Recorded(t))
      /\ ~Ticked(n)'
  <2>1. \A t \in DOMAIN tasks : (Ticked(t)' <=> Ticked(t)) /\ (Recorded(t)' <=> Recorded(t))
    BY <1>5 DEF Ticked, Recorded
  <2>2. ~Ticked(n)'
    BY <1>5, <1>12 DEF Ticked
  <2> QED
    BY <2>1, <2>2
<1>8. TicksDiffer'
  <2>1. \A t \in DOMAIN tasks' : Ticked(t)' => t \in DOMAIN tasks
    BY <1>5, <1>7, <1>12
  <2> QED
    BY <1>1, <1>5, <1>7, <2>1 DEF TickInv, TicksDiffer
<1>9. MailboxHonest'
  BY <1>1, <1>5 DEF TickInv, MailboxHonest
<1>10. NodesRecorded'
  BY <1>1, <1>5, <1>7 DEF TickInv, NodesRecorded
<1>11. OneNodePerTick'
  BY <1>1 DEF TickInv, OneNodePerTick
<1> QED
  BY <1>6, <1>8, <1>9, <1>10, <1>11 DEF TickInv

LEMMA NextTickInv == TickInv /\ [Next]_vars => TickInv'
<1> SUFFICES ASSUME TickInv, [Next]_vars PROVE TickInv'
  OBVIOUS
<1> USE DEF At
<1>1. ASSUME NEW t \in DOMAIN tasks, Step(t) PROVE TickInv'
  <2>0. Shape /\ clock \in Nat
    BY DEF TickInv, Typed
  <2>1. CASE Pending(t)
    <3>1. Only(t) /\ tasks'[t].stage = "check" /\ tasks'[t].tick = tasks[t].tick
      BY <2>0, <2>1, MovedEffect DEF Pending
    <3> QED
      BY <2>1, <3>1, QuietStep DEF Pending, Ticked, Recorded
  <2>2. CASE ReadFile(t)
    BY <2>0, <2>2, ReadFileEffect, QuietStep DEF ReadFile, Ticked, Recorded
  <2>3. CASE Publish(t)
    <3>1. PICK stage \in {"evaluate", "install"} : tasks' = Moved(t, stage)
      BY <2>3 DEF Publish
    <3>2. Only(t) /\ tasks'[t].stage = stage /\ tasks'[t].tick = tasks[t].tick
      BY <2>0, <3>1, MovedEffect
    <3> QED
      BY <2>3, <3>2, QuietStep DEF Publish, Ticked, Recorded
  <2>4. CASE Install(t)
    <3>1. Only(t) /\ tasks'[t].stage = "evaluate" /\ tasks'[t].tick = tasks[t].tick
      BY <2>0, <2>4, MovedEffect DEF Install
    <3> QED
      BY <2>4, <3>1, QuietStep DEF Install, Ticked, Recorded
  <2>5. CASE Evaluate(t)
    BY <2>0, <2>5, EvaluateEffect, QuietStep DEF Evaluate, Ticked, Recorded
  <2>6. CASE TakeTick(t)
    BY <2>6, TakeTickTickInv
  <2>7. CASE Evidence(t)
    <3>1. Only(t) /\ tasks'[t].stage = "send" /\ tasks'[t].tick = tasks[t].tick
          /\ tasks[t].stage = "evidence"
      BY <2>0, <2>7, EvidenceEffect DEF Evidence
    <3>2. tasks'[t].kind = tasks[t].kind
      BY <3>1 DEF Only
    <3>3. (Ticked(t)' => Ticked(t)) /\ (Recorded(t) => Recorded(t)')
      BY <3>1, <3>2 DEF Ticked, Recorded
    <3> QED
      BY <2>7, <3>1, <3>3, QuietStep DEF Evidence
  <2>8. CASE Send(t)
    BY <2>8, SendTickInv
  <2>9. CASE Finish(t)
    <3>1. Only(t) /\ tasks'[t].stage = "done" /\ tasks'[t].tick = tasks[t].tick
          /\ tasks[t].stage = "answered"
      BY <2>0, <2>9, MovedEffect DEF Finish
    <3>2. tasks'[t].kind = tasks[t].kind
      BY <3>1 DEF Only
    <3>3. (Ticked(t)' => Ticked(t)) /\ (Recorded(t) => Recorded(t)')
      BY <3>1, <3>2 DEF Ticked, Recorded
    <3> QED
      BY <2>9, <3>1, <3>3, QuietStep DEF Finish
  <2> QED
    BY <1>1, <2>1, <2>2, <2>3, <2>4, <2>5, <2>6, <2>7, <2>8, <2>9 DEF Step
<1>2. ASSUME UNCHANGED <<tasks, clock, mailbox, nodes>> PROVE TickInv'
  BY <1>2 DEF TickInv, Typed, Shape, TicksDiffer, MailboxHonest, NodesRecorded, OneNodePerTick,
              Ticked, Recorded
<1>3. ASSUME AskHealth \/ RefreshRoot PROVE TickInv'
  <2>1. PICK k : k = Len(asks) + 1
    OBVIOUS
  <2>2. mailbox' = Append(mailbox, [kind |-> "root", from |-> k]) /\ UNCHANGED <<tasks, clock, nodes>>
    BY <1>3, <2>1 DEF AskHealth, RefreshRoot, Posted
  <2> QED
    BY <2>2, RootAsked
<1>4. CASE \E content \in RuleFiles \cup {NoRules} : WriteRules(content)
  BY <1>2, <1>4 DEF WriteRules
<1>5. CASE \E op \in {"Ping", "SyncReq", "SyncRes", "Infer"}, formed \in BOOLEAN, prompt \in Prompts :
             Dispatch(Kind(op, formed), prompt)
  BY <1>5, DispatchTickInv
<1>6. CASE \E k \in DOMAIN asks : HealthTimeout(k) \/ HealthReport(k)
  BY <1>2, <1>6 DEF HealthTimeout, HealthReport
<1>7. CASE Actor
  BY <1>7, ActorTickInv
<1>8. CASE DrainLog \/ Shutdown
  BY <1>2, <1>8 DEF DrainLog, Shutdown
<1>9. CASE UNCHANGED vars
  BY <1>2, <1>9 DEF vars
<1>10. CASE \E t \in DOMAIN tasks : Step(t)
  BY <1>1, <1>10
<1> QED
  BY <1>3, <1>4, <1>5, <1>6, <1>7, <1>8, <1>9, <1>10 DEF Next, Step

(* node_clock.fetch_add: whatever tasks run at once, no two mutations that *)
(* the actor appends for this node carry the same tick, so no peer takes   *)
(* the node for an equivocator on account of one.                          *)
THEOREM TicksAreUnique == Spec => []OneNodePerTick
<1>1. TickInv => OneNodePerTick
  BY DEF TickInv
<1> QED
  BY <1>1, InitTickInv, NextTickInv, PTL DEF Spec

-----------------------------------------------------------------------------
(* Without two reloads at once: the task about to install read the hash    *)
(* that is published, it is alone, and when there is none the engine is    *)
(* the one of that hash.                                                   *)
Settled ==
  /\ \A s, t \in DOMAIN tasks : tasks[s].stage = "install" /\ tasks[t].stage = "install" => s = t
  /\ \A t \in DOMAIN tasks : tasks[t].stage = "install" => tasks[t].read = published
  /\ (\A t \in DOMAIN tasks : tasks[t].stage # "install") => published \in {engine, NoRules}

StaleInv == Shape /\ (~overlapped => Settled)

LEMMA InitStaleInv == Init => StaleInv
<1> SUFFICES ASSUME Init PROVE StaleInv
  OBVIOUS
<1>1. tasks = << >> /\ published \in {engine, NoRules}
  BY DEF Init
<1>2. tasks \in Seq(Task({})) /\ DOMAIN tasks = {}
  BY <1>1
<1> QED
  BY <1>1, <1>2 DEF StaleInv, Shape, Settled

(* A step of a task outside of the reload.                                 *)
LEMMA OutsideReload ==
  ASSUME StaleInv, NEW t \in DOMAIN tasks, Only(t),
         tasks[t].stage # "install", tasks'[t].stage # "install",
         UNCHANGED <<published, engine, overlapped>>
  PROVE  StaleInv'
<1>1. /\ DOMAIN tasks' = DOMAIN tasks
      /\ \A s \in DOMAIN tasks : tasks'[s].stage = "install" => tasks'[s] = tasks[s]
      /\ \A s \in DOMAIN tasks : tasks[s].stage = "install" => tasks'[s] = tasks[s]
  BY DEF Only
<1>2. ASSUME Settled PROVE Settled'
  BY <1>1, <1>2 DEF Settled
<1>3. Shape'
  BY DEF Only
<1> QED
  BY <1>2, <1>3 DEF StaleInv

LEMMA PublishStaleInv ==
  ASSUME StaleInv, NEW t \in DOMAIN tasks, Publish(t)
  PROVE  StaleInv'
<1>1. PICK stage : /\ stage = IF published = tasks[t].read THEN "evaluate" ELSE "install"
                   /\ tasks' = Moved(t, stage)
  BY DEF Publish
<1>2. Only(t) /\ tasks'[t].stage = stage /\ tasks'[t].read = tasks[t].read
  BY <1>1, MovedEffect DEF StaleInv
<1>3. /\ Shape' /\ DOMAIN tasks' = DOMAIN tasks
      /\ \A s \in DOMAIN tasks \ {t} : tasks'[s] = tasks[s]
  BY <1>2 DEF Only
<1>4. published' = tasks[t].read /\ UNCHANGED engine /\ tasks[t].stage = "compare"
  BY DEF Publish, At
<1>5. ASSUME ~overlapped'
      PROVE  ~overlapped /\ (published # tasks[t].read =>
                              \A s \in DOMAIN tasks : tasks[s].stage # "install")
  BY <1>5, Zenon DEF Publish
<1>6. ASSUME Settled, published = tasks[t].read PROVE Settled'
  <2>1. UNCHANGED published /\ tasks'[t].stage = "evaluate"
    BY <1>1, <1>2, <1>4, <1>6
  <2> QED
    BY <1>3, <1>4, <1>6, <2>1 DEF Settled
<1>7. ASSUME published # tasks[t].read, \A s \in DOMAIN tasks : tasks[s].stage # "install"
      PROVE  Settled'
  <2>1. tasks'[t].stage = "install" /\ tasks'[t].read = published'
    BY <1>1, <1>2, <1>4, <1>7
  <2> QED
    BY <1>3, <1>7, <2>1 DEF Settled
<1> QED
  BY <1>3, <1>5, <1>6, <1>7 DEF StaleInv

LEMMA InstallStaleInv ==
  ASSUME StaleInv, NEW t \in DOMAIN tasks, Install(t)
  PROVE  StaleInv'
<1>1. /\ tasks[t].stage = "install" /\ tasks' = Moved(t, "evaluate")
      /\ engine' = tasks[t].read /\ UNCHANGED <<published, overlapped>>
  BY DEF Install, At, Installed
<1>2. Only(t) /\ tasks'[t].stage = "evaluate"
  BY <1>1, MovedEffect DEF StaleInv
<1>3. ASSUME Settled PROVE Settled'
  BY <1>1, <1>2, <1>3 DEF Settled, Only
<1>4. Shape'
  BY <1>2 DEF Only
<1> QED
  BY <1>1, <1>3, <1>4 DEF StaleInv

LEMMA ActorStaleInv ==
  ASSUME StaleInv, MailboxHonest, Typed, Actor
  PROVE  StaleInv'
<1>0. PICK m, t : m = Head(mailbox) /\ t = m.from
  OBVIOUS
<1>1. UNCHANGED <<published, engine, overlapped>>
  BY DEF Actor
<1>2. CASE m.kind = "root"
  <2>1. UNCHANGED tasks
    BY <1>0, <1>2 DEF Actor
  <2> QED
    BY <1>1, <2>1 DEF StaleInv, Settled, Shape
<1>3. CASE m.kind # "root"
  <2>1. tasks' = Moved(t, "answered")
    BY <1>0, <1>3 DEF Actor
  <2>2. t \in DOMAIN tasks /\ tasks[t].stage = "wait"
    <3>1. PICK D : mailbox \in Seq(D)
      BY DEF Typed
    <3>2. mailbox # << >>
      BY DEF Actor
    <3>3. 1 \in DOMAIN mailbox /\ m = mailbox[1]
      BY <1>0, <3>1, <3>2
    <3> QED
      BY <1>0, <1>3, <3>3 DEF MailboxHonest
  <2>3. Only(t) /\ tasks'[t].stage = "answered"
    BY <2>1, <2>2, MovedEffect DEF StaleInv
  <2> QED
    BY <1>1, <2>2, <2>3, OutsideReload
<1> QED
  BY <1>2, <1>3

LEMMA DispatchStaleInv ==
  ASSUME StaleInv, TickInv', NEW kind, NEW prompt, Dispatch(kind, prompt)
  PROVE  StaleInv'
<1> DEFINE new == [kind |-> kind, prompt |-> prompt,
                   stage |-> IF kind = "raw" THEN "done" ELSE "start",
                   read |-> NoRules, decision |-> Normal, tick |-> 0, model |-> NoRules]
<1>1. tasks' = Append(tasks, new) /\ UNCHANGED <<published, engine, overlapped>>
  BY DEF Dispatch
<1>2. PICK D : tasks \in Seq(Task(D))
  BY DEF StaleInv, Shape
<1>3. /\ DOMAIN tasks' = DOMAIN tasks \cup {Len(tasks) + 1}
      /\ \A t \in DOMAIN tasks : tasks'[t] = tasks[t]
      /\ tasks'[Len(tasks) + 1] = new
  <2> HIDE DEF new
  <2> QED
    BY <1>1, <1>2
<1>4. tasks'[Len(tasks) + 1].stage # "install"
  BY <1>3
<1>5. ASSUME Settled PROVE Settled'
  BY <1>1, <1>3, <1>4, <1>5 DEF Settled
<1>6. Shape'
  BY DEF TickInv, Typed
<1> QED
  BY <1>1, <1>5, <1>6 DEF StaleInv

LEMMA NextStaleInv == StaleInv /\ TickInv /\ TickInv' /\ [Next]_vars => StaleInv'
<1> SUFFICES ASSUME StaleInv, TickInv, TickInv', [Next]_vars PROVE StaleInv'
  OBVIOUS
<1>0. Shape /\ clock \in Nat
  BY DEF TickInv, Typed
<1>1. ASSUME NEW t \in DOMAIN tasks, Step(t) PROVE StaleInv'
  <2>1. CASE Pending(t)
    <3>1. Only(t) /\ tasks'[t].stage = "check"
      BY <1>0, <2>1, MovedEffect DEF Pending
    <3> QED
      BY <2>1, <3>1, OutsideReload DEF Pending, At
  <2>2. CASE ReadFile(t)
    BY <1>0, <2>2, ReadFileEffect, OutsideReload DEF ReadFile, At
  <2>3. CASE Publish(t)
    BY <2>3, PublishStaleInv
  <2>4. CASE Install(t)
    BY <2>4, InstallStaleInv
  <2>5. CASE Evaluate(t)
    BY <1>0, <2>5, EvaluateEffect, OutsideReload DEF Evaluate, At
  <2>6. CASE TakeTick(t)
    BY <1>0, <2>6, TakeTickEffect, OutsideReload DEF TakeTick, At
  <2>7. CASE Evidence(t)
    BY <1>0, <2>7, EvidenceEffect, OutsideReload DEF Evidence, At
  <2>8. CASE Send(t)
    <3>1. Only(t) /\ tasks'[t].stage = "wait"
      BY <1>0, <2>8, MovedEffect DEF Send
    <3> QED
      BY <2>8, <3>1, OutsideReload DEF Send, At
  <2>9. CASE Finish(t)
    <3>1. Only(t) /\ tasks'[t].stage = "done"
      BY <1>0, <2>9, MovedEffect DEF Finish
    <3> QED
      BY <2>9, <3>1, OutsideReload DEF Finish, At
  <2> QED
    BY <1>1, <2>1, <2>2, <2>3, <2>4, <2>5, <2>6, <2>7, <2>8, <2>9 DEF Step
<1>2. ASSUME UNCHANGED <<tasks, published, engine, overlapped>> PROVE StaleInv'
  BY <1>2 DEF StaleInv, Settled, Shape
<1>3. CASE AskHealth \/ RefreshRoot \/ DrainLog \/ Shutdown
  BY <1>2, <1>3 DEF AskHealth, RefreshRoot, DrainLog, Shutdown
<1>4. CASE \E content \in RuleFiles \cup {NoRules} : WriteRules(content)
  BY <1>2, <1>4 DEF WriteRules
<1>5. CASE \E op \in {"Ping", "SyncReq", "SyncRes", "Infer"}, formed \in BOOLEAN, prompt \in Prompts :
             Dispatch(Kind(op, formed), prompt)
  BY <1>5, DispatchStaleInv
<1>6. CASE \E k \in DOMAIN asks : HealthTimeout(k) \/ HealthReport(k)
  BY <1>2, <1>6 DEF HealthTimeout, HealthReport
<1>7. CASE Actor
  BY <1>7, ActorStaleInv DEF TickInv
<1>8. CASE UNCHANGED vars
  BY <1>2, <1>8 DEF vars
<1>9. CASE \E t \in DOMAIN tasks : Step(t)
  BY <1>1, <1>9
<1> QED
  BY <1>3, <1>4, <1>5, <1>6, <1>7, <1>8, <1>9 DEF Next, Step

(* try_hot_reload: as long as no two reloads have been under way at once,  *)
(* a node that is not reloading evaluates with the rules whose hash it     *)
(* publishes, for any number of tasks and any history of the file.         *)
THEOREM OnlyOverlapLeavesStaleRules == Spec => []StaleOnlyByOverlap
<1>1. StaleInv => StaleOnlyByOverlap
  BY Zenon DEF StaleInv, Settled, StaleOnlyByOverlap
<1> QED
  BY <1>1, InitTickInv, NextTickInv, InitStaleInv, NextStaleInv, PTL DEF Spec
=============================================================================
