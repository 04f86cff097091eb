------------------------- MODULE HistorySweep_proofs -------------------------
(***************************************************************************)
(* Proofs about the worklist loop of compact_history and get_vdiff: for    *)
(* every set of hashes, every history depth and every push order.          *)
(***************************************************************************)
EXTENDS HistorySweep, MerkleDag_proofs, SequenceTheorems

(* What one worklist entry stands for: a head at depth 0, or a parent of a *)
(* node marked one level above.                                            *)
EntryOK(e) ==
  IF e[2] = 0 THEN e[1] \in heads
  ELSE \E c \in Marked \cap DOMAIN arena : e[1] \in arena[c] /\ e[2] = level[c] + 1

Pending(h, depth) == \E i \in 1..Len(queue) : queue[i] = <<h, depth>>

(* The loop invariant.  The last conjunct is why the marks are a walk when *)
(* the worklist is empty: a parent of a node above the limit is marked, a  *)
(* stop point, or still on the worklist one level deeper.                  *)
LoopInv ==
  /\ op = "compact_history" => remote = {}
  /\ Marked \cap remote = {}
  /\ \A i \in 1..Len(queue) : EntryOK(queue[i])
  /\ \A h \in Marked : EntryOK(<<h, level[h]>>)
  /\ \A h \in heads : h \in Marked \/ h \in remote \/ Pending(h, 0)
  /\ \A c \in Marked \cap DOMAIN arena : \A p \in arena[c] :
        level[c] < HistoryDepth =>
          p \in Marked \/ p \in remote \/ Pending(p, level[c] + 1)

IInv ==
  /\ TypeOK
  /\ HeadsAreFrontier
  /\ ~done => LoopInv
  /\ done => queue = << >>

-----------------------------------------------------------------------------
(* Pushing a finite set in any order pushes exactly its elements.          *)
LEMMA PushOrder ==
  ASSUME NEW S \in SUBSET Hashes, NEW s \in Orders(S), NEW depth \in Nat
  PROVE  /\ At(s, depth) \in Seq(Hashes \X Nat)
         /\ \A i \in 1..Len(At(s, depth)) :
               \E x \in S : At(s, depth)[i] = <<x, depth>>
         /\ \A x \in S :
               \E i \in 1..Len(At(s, depth)) : At(s, depth)[i] = <<x, depth>>
<1>1. IsFiniteSet(S) /\ Cardinality(S) \in Nat
  BY HashesAssumption, FS_Subset, FS_CardinalityType
<1>2. /\ s \in [1..Cardinality(S) -> S]
      /\ \A x \in S : \E i \in DOMAIN s : s[i] = x
  BY DEF Orders
<1>3. /\ At(s, depth) = [i \in 1..Cardinality(S) |-> <<s[i], depth>>]
      /\ \A i \in 1..Cardinality(S) : <<s[i], depth>> \in Hashes \X Nat
  BY <1>2 DEF At
<1>4. At(s, depth) \in [1..Cardinality(S) -> Hashes \X Nat]
  BY <1>3
<1>5. At(s, depth) \in Seq(Hashes \X Nat)
  BY <1>1, <1>4, SeqDef
<1>6. Len(At(s, depth)) = Cardinality(S)
  BY <1>1, <1>3
<1>7. ASSUME NEW i \in 1..Len(At(s, depth))
      PROVE  \E x \in S : At(s, depth)[i] = <<x, depth>>
  BY <1>2, <1>3, <1>6
<1>8. ASSUME NEW x \in S
      PROVE  \E i \in 1..Len(At(s, depth)) : At(s, depth)[i] = <<x, depth>>
  <2>1. PICK i \in 1..Cardinality(S) : s[i] = x
    BY <1>2
  <2>2. i \in 1..Len(At(s, depth)) /\ At(s, depth)[i] = <<x, depth>>
    BY <1>3, <1>6, <2>1
  <2> QED
    BY <2>2
<1> QED
  BY <1>5, <1>7, <1>8

(* What taking the last entry off the worklist leaves.                     *)
LEMMA PopLast ==
  ASSUME queue \in Seq(Hashes \X Nat), queue # << >>
  PROVE  /\ Len(queue) \in Nat \ {0}
         /\ Top \in Hashes \X Nat
         /\ Top = <<Top[1], Top[2]>>
         /\ Rest \in Seq(Hashes \X Nat)
         /\ Len(Rest) = Len(queue) - 1
         /\ \A i \in 1..Len(Rest) : Rest[i] = queue[i]
<1>1. Len(queue) \in Nat \ {0}
  BY EmptySeq
<1>2. \A i \in 1..Len(queue) : queue[i] \in Hashes \X Nat
  BY ElementOfSeq
<1>3. Top \in Hashes \X Nat
  BY <1>1, <1>2 DEF Top
<1>4. /\ Rest \in Seq(Hashes \X Nat)
      /\ Len(Rest) = Len(queue) - 1
      /\ \A i \in 1..Len(Rest) : Rest[i] = queue[i]
  <2> DEFINE n == Len(queue) - 1
  <2>1. n \in Int /\ \A i \in 1..n : queue[i] \in Hashes \X Nat
    BY <1>1, <1>2
  <2>2. Rest = SubSeq(queue, 1, n)
    BY DEF Rest
  <2> HIDE DEF n
  <2>3. /\ SubSeq(queue, 1, n) \in Seq(Hashes \X Nat)
        /\ Len(SubSeq(queue, 1, n)) = IF 1 <= n THEN n - 1 + 1 ELSE 0
        /\ \A i \in 1..n - 1 + 1 : SubSeq(queue, 1, n)[i] = queue[1 + i - 1]
    BY <2>1, SubSeqProperties
  <2>4. n \in Nat /\ n = Len(queue) - 1
    BY <1>1 DEF n
  <2>5. Len(Rest) = n
    BY <2>2, <2>3, <2>4
  <2>6. ASSUME NEW i \in 1..n
        PROVE  Rest[i] = queue[i]
    <3>1. i \in 1..n - 1 + 1 /\ 1 + i - 1 = i
      BY <2>4
    <3> QED
      BY <2>2, <2>3, <3>1
  <2> QED
    BY <2>2, <2>3, <2>4, <2>5, <2>6
<1> QED
  BY <1>1, <1>3, <1>4

(* Init establishes the invariant.                                         *)
LEMMA InitIInv == Init => IInv
<1> SUFFICES ASSUME Init PROVE IInv
  OBVIOUS
<1>1. PICK held \in SUBSET Hashes :
        \E link \in SUBSET {e \in held \X Hashes : e[2] < e[1]} :
          arena = [h \in held |-> {p \in Hashes : <<h, p>> \in link}]
  BY DEF Init
<1>2. arena \in [held -> SUBSET Hashes] /\ ParentsPrecede(arena)
  <2>1. PICK link \in SUBSET {e \in held \X Hashes : e[2] < e[1]} :
          arena = [h \in held |-> {p \in Hashes : <<h, p>> \in link}]
    BY <1>1
  <2>2. ASSUME NEW h \in held, NEW p \in arena[h]
        PROVE  p < h
    BY <2>1
  <2> QED
    BY <2>1, <2>2 DEF ParentsPrecede
<1>3. heads \in SUBSET Hashes /\ HeadsAreFrontier
  BY <1>2 DEF Init, HeadsAreFrontier, Frontier
<1>4. PICK s \in Orders(heads) : queue = At(s, 0)
  BY DEF Init
<1>5. /\ queue \in Seq(Hashes \X Nat)
      /\ \A i \in 1..Len(queue) : \E x \in heads : queue[i] = <<x, 0>>
      /\ \A x \in heads : \E i \in 1..Len(queue) : queue[i] = <<x, 0>>
  BY <1>3, <1>4, PushOrder
<1>6. Marked = {} /\ ~done /\ level = [h \in {} |-> 0]
  BY DEF Init, Marked
<1>7. TypeOK
  <2>1. remote \in SUBSET Hashes /\ op \in Ops
    BY DEF Init
  <2>2. level \in [Marked -> 0..HistoryDepth]
    BY <1>6
  <2>3. \E A \in SUBSET Hashes : arena \in [A -> SUBSET Hashes]
    BY <1>2
  <2>4. Marked \subseteq Hashes /\ done \in BOOLEAN
    BY <1>6 DEF Init
  <2> QED
    BY <1>2, <1>3, <1>5, <2>1, <2>2, <2>3, <2>4 DEF TypeOK
<1>8. LoopInv
  <2>1. op = "compact_history" => remote = {}
    BY DEF Init
  <2>2. \A i \in 1..Len(queue) : EntryOK(queue[i])
    BY <1>5 DEF EntryOK
  <2>3. \A h \in heads : Pending(h, 0)
    BY <1>5 DEF Pending
  <2> QED
    BY <1>6, <2>1, <2>2, <2>3 DEF LoopInv
<1> QED
  BY <1>3, <1>6, <1>7, <1>8 DEF IInv

-----------------------------------------------------------------------------
(* What the loop invariant says of the worklist after one entry was taken  *)
(* off: an entry pending before is the top one or still pending.           *)
LEMMA PendingAfterPop ==
  ASSUME queue \in Seq(Hashes \X Nat), queue # << >>,
         NEW h, NEW depth, Pending(h, depth)
  PROVE  \/ \E i \in 1..Len(Rest) : Rest[i] = <<h, depth>>
         \/ h = Top[1] /\ depth = Top[2]
<1>1. PICK i \in 1..Len(queue) : queue[i] = <<h, depth>>
  BY DEF Pending
<1>2. CASE i = Len(queue)
  BY <1>1, <1>2 DEF Top
<1>3. CASE i # Len(queue)
  <2>1. i \in 1..Len(Rest) /\ Rest[i] = <<h, depth>>
    BY <1>1, <1>3, PopLast
  <2> QED
    BY <2>1
<1> QED
  BY <1>2, <1>3

(* A skipped entry is marked, a stop point or too deep, so nothing that    *)
(* still has to be visited is lost with it.                                *)
LEMMA SkipIInv == IInv /\ Skip => IInv'
<1> SUFFICES ASSUME IInv, Skip PROVE IInv'
  OBVIOUS
<1> USE HashesAssumption, DepthAssumption
<1>1. /\ queue \in Seq(Hashes \X Nat) /\ queue # << >> /\ queue' = Rest
      /\ UNCHANGED <<op, arena, heads, remote, level, done, Marked>>
      /\ IsSkipped(Top[1], Top[2])
  BY DEF IInv, TypeOK, Skip, Marked
<1>2. ~done /\ ~done' /\ LoopInv
  BY <1>1 DEF IInv
<1>3. TypeOK'
  <2>1. queue' \in Seq(Hashes \X Nat)
    BY <1>1, PopLast
  <2> QED
    BY <1>1, <2>1 DEF IInv, TypeOK, ParentsPrecede
<1>4. HeadsAreFrontier'
  BY <1>1 DEF IInv, HeadsAreFrontier, Frontier, Children
<1>5. LoopInv'
  <2>1. (\A i \in 1..Len(queue) : EntryOK(queue[i]))'
    <3>1. Len(queue') = Len(queue) - 1 /\ Len(queue) \in Nat
      BY <1>1, PopLast
    <3>2. ASSUME NEW i \in 1..Len(queue')
          PROVE  i \in 1..Len(queue) /\ queue'[i] = queue[i]
      BY <1>1, <3>1, PopLast
    <3>3. ASSUME NEW i \in 1..Len(queue')
          PROVE  EntryOK(queue[i])
      BY <1>2, <3>2 DEF LoopInv
    <3> QED
      BY <1>1, <3>2, <3>3 DEF EntryOK
  <2>2. (\A h \in Marked : EntryOK(<<h, level[h]>>))'
    BY <1>1, <1>2 DEF LoopInv, EntryOK
  <2>3. \A h \in heads' : h \in Marked' \/ h \in remote' \/ Pending(h, 0)'
    <3>1. ASSUME NEW h \in heads, Pending(h, 0)
          PROVE  h \in Marked \/ h \in remote \/ Pending(h, 0)'
      <4>1. (\E i \in 1..Len(Rest) : Rest[i] = <<h, 0>>) \/ (h = Top[1] /\ 0 = Top[2])
        BY <1>1, <3>1, PendingAfterPop
      <4> QED
        BY <1>1, <4>1 DEF IsSkipped, Pending
    <3> QED
      BY <1>1, <1>2, <3>1 DEF LoopInv
  <2>4. ASSUME NEW c \in Marked' \cap DOMAIN arena', NEW p \in arena'[c],
               level'[c] < HistoryDepth
        PROVE  p \in Marked' \/ p \in remote' \/ Pending(p, level[c] + 1)'
    <3>1. level[c] \in 0..HistoryDepth
      BY <1>1 DEF IInv, TypeOK
    <3>2. p \in Marked \/ p \in remote \/ Pending(p, level[c] + 1)
      BY <1>1, <1>2, <2>4 DEF LoopInv
    <3>3. CASE Pending(p, level[c] + 1)
      <4>1. \/ \E i \in 1..Len(Rest) : Rest[i] = <<p, level[c] + 1>>
            \/ p = Top[1] /\ level[c] + 1 = Top[2]
        BY <1>1, <3>3, PendingAfterPop
      <4>2. Pending(p, level[c] + 1)' \/ (p = Top[1] /\ level[c] + 1 = Top[2])
        BY <1>1, <4>1 DEF Pending
      <4> QED
        BY <1>1, <2>4, <3>1, <4>2 DEF IsSkipped
    <3> QED
      BY <1>1, <3>2, <3>3
  <2> QED
    BY <1>1, <1>2, <2>1, <2>2, <2>3, <2>4 DEF LoopInv
<1> QED
  BY <1>2, <1>3, <1>4, <1>5 DEF IInv

(* Marking the top entry at its depth: its parents become pending one      *)
(* level deeper, or are below the limit.                                   *)
LEMMA VisitIInv == IInv /\ Visit => IInv'
<1> SUFFICES ASSUME IInv, Visit PROVE IInv'
  OBVIOUS
<1> USE HashesAssumption, DepthAssumption
<1>0. PICK t \in Hashes, k \in Nat : Top = <<t, k>>
  <2>1. queue \in Seq(Hashes \X Nat) /\ queue # << >>
    BY DEF IInv, TypeOK, Visit
  <2> QED
    BY <2>1, PopLast
<1>1. /\ queue \in Seq(Hashes \X Nat) /\ queue # << >>
      /\ UNCHANGED <<op, arena, heads, remote, done>>
      /\ t \notin Marked /\ t \notin remote /\ ~(k > HistoryDepth)
      /\ level' = [h \in Marked \cup {t} |-> IF h = t THEN k ELSE level[h]]
  BY <1>0 DEF IInv, TypeOK, Visit, IsSkipped, Marked
<1>2. /\ ~done /\ ~done' /\ LoopInv
      /\ \E held \in SUBSET Hashes : arena \in [held -> SUBSET Hashes]
      /\ ParentsPrecede(arena)
      /\ Marked \subseteq Hashes /\ level \in [Marked -> 0..HistoryDepth]
      /\ HeadsAreFrontier
  BY <1>1 DEF IInv, TypeOK
<1>3. /\ k \in 0..HistoryDepth
      /\ Rest \in Seq(Hashes \X Nat)
      /\ Len(queue) \in Nat \ {0} /\ Len(Rest) = Len(queue) - 1
      /\ \A i \in 1..Len(Rest) : Rest[i] = queue[i]
  BY <1>1, PopLast
<1>4. /\ Marked' = Marked \cup {t}
      /\ level'[t] = k
      /\ \A h \in Marked : level'[h] = level[h]
      /\ level' \in [Marked' -> 0..HistoryDepth]
  BY <1>1, <1>2, <1>3 DEF Marked
<1>5. EntryOK(Top)
  BY <1>2, <1>3 DEF LoopInv, Top
<1>6. (* the new worklist: the rest, and t's parents if the arena holds t *)
      /\ queue' \in Seq(Hashes \X Nat)
      /\ \A i \in 1..Len(queue') :
            \/ \E j \in 1..Len(Rest) : queue'[i] = Rest[j]
            \/ t \in DOMAIN arena /\ \E p \in arena[t] : queue'[i] = <<p, k + 1>>
      /\ \A j \in 1..Len(Rest) : \E i \in 1..Len(queue') : queue'[i] = Rest[j]
      /\ t \in DOMAIN arena =>
            \A p \in arena[t] : \E i \in 1..Len(queue') : queue'[i] = <<p, k + 1>>
  <2>1. CASE t \in DOMAIN arena
    <3>1. arena[t] \in SUBSET Hashes
      BY <1>2, <2>1
    <3>2. PICK s \in Orders(arena[t]) : queue' = Rest \o At(s, k + 1)
      BY <1>0, <2>1 DEF Visit
    <3> DEFINE push == At(s, k + 1)
    <3>3. /\ push \in Seq(Hashes \X Nat)
          /\ \A i \in 1..Len(push) : \E x \in arena[t] : push[i] = <<x, k + 1>>
          /\ \A x \in arena[t] : \E i \in 1..Len(push) : push[i] = <<x, k + 1>>
      <4>1. k + 1 \in Nat
        BY <1>3
      <4> QED
        BY <3>1, <4>1, PushOrder
    <3> HIDE DEF push
    <3>4. queue' = Rest \o push
      BY <3>2 DEF push
    <3>5. /\ queue' \in Seq(Hashes \X Nat)
          /\ Len(queue') = Len(Rest) + Len(push)
          /\ \A i \in 1..Len(Rest) + Len(push) :
                queue'[i] = IF i <= Len(Rest) THEN Rest[i] ELSE push[i - Len(Rest)]
      BY <1>3, <3>3, <3>4, ConcatProperties
    <3>6. Len(Rest) \in Nat /\ Len(push) \in Nat
      BY <1>3, <3>3, LenProperties
    <3>7. ASSUME NEW i \in 1..Len(queue')
          PROVE  \/ \E j \in 1..Len(Rest) : queue'[i] = Rest[j]
                 \/ \E p \in arena[t] : queue'[i] = <<p, k + 1>>
      <4>1. CASE i <= Len(Rest)
        BY <3>5, <3>6, <4>1
      <4>2. CASE ~(i <= Len(Rest))
        <5>1. i - Len(Rest) \in 1..Len(push) /\ queue'[i] = push[i - Len(Rest)]
          BY <3>5, <3>6, <4>2
        <5> QED
          BY <3>3, <5>1
      <4> QED
        BY <4>1, <4>2
    <3>8. ASSUME NEW j \in 1..Len(Rest)
          PROVE  j \in 1..Len(queue') /\ queue'[j] = Rest[j]
      BY <3>5, <3>6
    <3>9. ASSUME NEW p \in arena[t]
          PROVE  \E i \in 1..Len(queue') : queue'[i] = <<p, k + 1>>
      <4>1. PICK j \in 1..Len(push) : push[j] = <<p, k + 1>>
        BY <3>3
      <4>2. /\ Len(Rest) + j \in 1..Len(queue') /\ ~(Len(Rest) + j <= Len(Rest))
            /\ (Len(Rest) + j) - Len(Rest) = j
        BY <3>5, <3>6
      <4>3. queue'[Len(Rest) + j] = push[j]
        BY <3>5, <4>2
      <4> QED
        BY <4>1, <4>2, <4>3
    <3> QED
      BY <2>1, <3>5, <3>7, <3>8, <3>9
  <2>2. CASE t \notin DOMAIN arena
    <3>1. queue' = Rest
      BY <1>0, <2>2 DEF Visit
    <3> QED
      BY <1>3, <2>2, <3>1
  <2> QED
    BY <2>1, <2>2
<1>7. TypeOK'
  <2>1. Marked' \subseteq Hashes
    BY <1>2, <1>3, <1>4
  <2>2. op' \in Ops /\ heads' \in SUBSET Hashes /\ remote' \in SUBSET Hashes
        /\ done' \in BOOLEAN /\ ParentsPrecede(arena)'
    BY <1>1 DEF IInv, TypeOK, ParentsPrecede
  <2>3. \E held \in SUBSET Hashes : arena' \in [held -> SUBSET Hashes]
    BY <1>1, <1>2
  <2> QED
    BY <1>4, <1>6, <2>1, <2>2, <2>3 DEF TypeOK
<1>8. HeadsAreFrontier'
  BY <1>1, <1>2 DEF HeadsAreFrontier, Frontier, Children
<1>9. LoopInv'
  <2>1. \A e : EntryOK(e) => EntryOK(e)'
    BY <1>1, <1>4 DEF EntryOK
  <2>2. ASSUME NEW p \in arena[t], t \in DOMAIN arena
        PROVE  EntryOK(<<p, k + 1>>)'
    BY <1>1, <1>3, <1>4, <2>2 DEF EntryOK
  <2>3. (\A i \in 1..Len(queue) : EntryOK(queue[i]))'
    <3>1. \A j \in 1..Len(Rest) : EntryOK(Rest[j])
      <4>1. ASSUME NEW j \in 1..Len(Rest)
            PROVE  j \in 1..Len(queue) /\ Rest[j] = queue[j]
        BY <1>3
      <4>2. \A j \in 1..Len(queue) : EntryOK(queue[j])
        BY <1>2 DEF LoopInv
      <4> QED
        BY <4>1, <4>2
    <3>2. ASSUME NEW i \in 1..Len(queue')
          PROVE  EntryOK(queue[i])'
      <4>1. CASE \E j \in 1..Len(Rest) : queue'[i] = Rest[j]
        BY <2>1, <3>1, <4>1 DEF EntryOK
      <4>2. CASE t \in DOMAIN arena /\ \E p \in arena[t] : queue'[i] = <<p, k + 1>>
        BY <2>2, <4>2 DEF EntryOK
      <4> QED
        BY <1>6, <4>1, <4>2
    <3> QED
      BY <3>2
  <2>4. (\A h \in Marked : EntryOK(<<h, level[h]>>))'
    <3>1. ASSUME NEW h \in Marked
          PROVE  EntryOK(<<h, level[h]>>)'
      <4>1. EntryOK(<<h, level[h]>>)
        BY <1>2 DEF LoopInv
      <4>2. PICK l : l = level[h] /\ l = level'[h]
        BY <1>4
      <4>3. EntryOK(<<h, l>>)'
        BY <2>1, <4>1, <4>2
      <4> QED
        BY <4>2, <4>3 DEF EntryOK
    <3>2. EntryOK(<<t, level[t]>>)'
      BY <1>0, <1>3, <1>4, <1>5, <2>1 DEF EntryOK
    <3> QED
      BY <1>4, <3>1, <3>2 DEF EntryOK
  <2>5. ASSUME NEW h, NEW d, Pending(h, d)
        PROVE  h \in Marked' \/ Pending(h, d)'
    <3>1. (\E j \in 1..Len(Rest) : Rest[j] = <<h, d>>) \/ h = t
      BY <1>0, <1>1, <2>5, PendingAfterPop
    <3> QED
      BY <1>4, <1>6, <3>1 DEF Pending
  <2>6. (\A h \in heads : h \in Marked \/ h \in remote \/ Pending(h, 0))'
    BY <1>1, <1>2, <1>4, <2>5 DEF LoopInv
  <2>7. ASSUME NEW c \in Marked' \cap DOMAIN arena, NEW p \in arena[c],
               level'[c] < HistoryDepth
        PROVE  p \in Marked' \/ p \in remote \/ Pending(p, level[c] + 1)'
    <3>1. CASE c = t
      BY <1>4, <1>6, <2>7, <3>1 DEF Pending
    <3>2. CASE c \in Marked
      <4>1. p \in Marked \/ p \in remote \/ Pending(p, level[c] + 1)
        BY <1>2, <1>4, <2>7, <3>2 DEF LoopInv
      <4>2. Pending(p, level[c] + 1) => p \in Marked' \/ Pending(p, level[c] + 1)'
        BY <1>4, <2>5, <3>2 DEF Pending
      <4> QED
        BY <1>4, <4>1, <4>2 DEF Pending
    <3> QED
      BY <1>4, <3>1, <3>2
  <2>8. (op = "compact_history" => remote = {})' /\ (Marked \cap remote = {})'
    BY <1>1, <1>2, <1>4 DEF LoopInv
  <2> QED
    BY <1>1, <2>3, <2>4, <2>6, <2>7, <2>8 DEF LoopInv
<1> QED
  BY <1>2, <1>7, <1>8, <1>9 DEF IInv

-----------------------------------------------------------------------------
(* When the worklist is empty, the marked nodes of the arena are a walk.   *)
LEMMA MarksAreWalk ==
  ASSUME IInv, ~done, queue = << >>
  PROVE  /\ [h \in Delta |-> level[h]] \in Walks(arena, heads, remote, HistoryDepth)
         /\ op = "compact_history" => heads \subseteq Delta
<1> DEFINE L == [h \in Delta |-> level[h]]
<1>1. /\ LoopInv /\ HeadsAreFrontier
      /\ \E held \in SUBSET Hashes : arena \in [held -> SUBSET Hashes]
      /\ level \in [Marked -> 0..HistoryDepth]
      /\ heads \subseteq DOMAIN arena
  BY DEF IInv, TypeOK, HeadsAreFrontier, Frontier
<1>2. \A h, d : ~Pending(h, d)
  BY DEF Pending
<1>3. /\ DOMAIN L = Delta /\ Delta = Marked \cap DOMAIN arena
      /\ L \in [Delta -> 0..HistoryDepth]
      /\ \A h \in Delta : L[h] = level[h]
  BY <1>1 DEF Delta
<1>4. Delta \subseteq DOMAIN arena \ remote
  BY <1>1, <1>3 DEF LoopInv
<1>5. ASSUME NEW h \in heads, h \notin remote
      PROVE  h \in Delta /\ L[h] = 0
  <2>1. h \in Marked /\ h \in Delta
    BY <1>1, <1>2, <1>3, <1>5 DEF LoopInv
  <2>2. EntryOK(<<h, level[h]>>)
    BY <1>1, <2>1 DEF LoopInv
  <2>3. \A c \in DOMAIN arena : h \notin arena[c]
    BY <1>1 DEF HeadsAreFrontier, Frontier, Children
  <2> QED
    BY <1>3, <2>1, <2>2, <2>3 DEF EntryOK
<1>6. ASSUME NEW h \in Delta \ heads
      PROVE  \E c \in Delta : h \in arena[c] /\ L[h] = L[c] + 1
  BY <1>1, <1>3 DEF LoopInv, EntryOK
<1>7. ASSUME NEW c \in Delta, L[c] < HistoryDepth
      PROVE  arena[c] \cap DOMAIN arena \subseteq Delta \cup remote
  BY <1>1, <1>2, <1>3, <1>7 DEF LoopInv
<1>8. IsWalk(arena, heads, remote, HistoryDepth, L)
  <2> HIDE DEF L
  <2> QED
    BY <1>3, <1>4, <1>5, <1>6, <1>7 DEF IsWalk
<1>9. L \in Walks(arena, heads, remote, HistoryDepth)
  <2> HIDE DEF L
  <2>1. Delta \in SUBSET (DOMAIN arena \ remote)
    BY <1>4
  <2>2. L \in UNION {[V -> 0..HistoryDepth] : V \in SUBSET (DOMAIN arena \ remote)}
    BY <1>3, <2>1
  <2> QED
    BY <1>8, <2>2 DEF Walks
<1>10. op = "compact_history" => heads \subseteq Delta
  BY <1>1, <1>5 DEF LoopInv
<1> QED
  BY <1>9, <1>10

(* The sweep keeps every head, and a node that loses its children loses    *)
(* its place with them: no node becomes a head because its child went.     *)
LEMMA SweepIInv ==
  IInv /\ Sweep => IInv' /\ heads' = heads /\ Marked \cap DOMAIN arena' = Delta
<1> SUFFICES ASSUME IInv, Sweep
             PROVE  IInv' /\ heads' = heads /\ Marked \cap DOMAIN arena' = Delta
  OBVIOUS
<1>1. /\ queue = << >> /\ ~done /\ op = "compact_history" /\ done' = TRUE
      /\ arena' = [h \in Delta |-> arena[h]]
      /\ UNCHANGED <<op, remote, queue, level, Marked>>
  BY DEF Sweep, Retain, Delta, Marked
<1>2. /\ IsWalk(arena, heads, remote, HistoryDepth, [h \in Delta |-> level[h]])
      /\ heads \subseteq Delta
  BY <1>1, MarksAreWalk DEF Walks
<1>3. heads' = heads
  BY <1>2 DEF Sweep, Delta
<1>4. DOMAIN arena' = Delta /\ \A h \in Delta : arena'[h] = arena[h]
  BY <1>1
<1>5. HeadsAreFrontier /\ Delta \subseteq DOMAIN arena
  BY DEF IInv, Delta
<1>6. HeadsAreFrontier'
  <2>1. ASSUME NEW h \in Delta, \A c \in Delta : h \notin arena[c]
        PROVE  h \in heads
    BY <1>2, <2>1 DEF IsWalk
  <2>2. ASSUME NEW h \in heads
        PROVE  h \in Delta /\ \A c \in Delta : h \notin arena[c]
    BY <1>2, <1>5 DEF HeadsAreFrontier, Frontier, Children
  <2>3. Frontier(arena)' = {h \in Delta : \A c \in Delta : h \notin arena[c]}
    BY <1>4 DEF Frontier, Children
  <2> QED
    BY <1>3, <2>1, <2>2, <2>3 DEF HeadsAreFrontier
<1>7. TypeOK'
  <2>1. PICK held \in SUBSET Hashes : arena \in [held -> SUBSET Hashes]
    BY DEF IInv, TypeOK
  <2>2. Delta \in SUBSET Hashes /\ arena' \in [Delta -> SUBSET Hashes]
    BY <1>1, <1>5, <2>1
  <2>3. ParentsPrecede(arena)'
    BY <1>4, <1>5 DEF IInv, TypeOK, ParentsPrecede
  <2>4. \E A \in SUBSET Hashes : arena' \in [A -> SUBSET Hashes]
    BY <2>2
  <2> QED
    BY <1>1, <1>3, <2>3, <2>4 DEF IInv, TypeOK
<1> QED
  BY <1>1, <1>3, <1>4, <1>5, <1>6, <1>7 DEF IInv, Delta

(* The same for every step.                                                *)
LEMMA NextIInv == IInv /\ [Next]_vars => IInv'
<1> SUFFICES ASSUME IInv, [Next]_vars PROVE IInv'
  OBVIOUS
<1>1. CASE Skip
  BY <1>1, SkipIInv
<1>2. CASE Visit
  BY <1>2, VisitIInv
<1>3. CASE Sweep
  BY <1>3, SweepIInv
<1>4. CASE Return
  <2>1. done' /\ queue' = << >> /\ done' \in BOOLEAN
        /\ UNCHANGED <<op, arena, heads, remote, queue, level, Marked>>
    BY <1>4 DEF Return, Marked
  <2>2. TypeOK' /\ HeadsAreFrontier'
    BY <2>1 DEF IInv, TypeOK, HeadsAreFrontier, Frontier, Children, ParentsPrecede
  <2> QED
    BY <2>1, <2>2 DEF IInv
<1>5. CASE UNCHANGED vars
  <2>1. UNCHANGED <<op, arena, heads, remote, queue, level, done, Marked>>
    BY <1>5 DEF vars, Marked
  <2>2. TypeOK' /\ HeadsAreFrontier'
    BY <2>1 DEF IInv, TypeOK, HeadsAreFrontier, Frontier, Children, ParentsPrecede
  <2>3. LoopInv => LoopInv'
    BY <2>1 DEF LoopInv, EntryOK, Pending
  <2> QED
    BY <2>1, <2>2, <2>3 DEF IInv
<1> QED
  BY <1>1, <1>2, <1>3, <1>4, <1>5 DEF Next

LEMMA Invariant == Spec => []IInv
<1>1. Init => IInv
  BY InitIInv
<1>2. IInv /\ [Next]_vars => IInv'
  BY NextIInv
<1> QED
  BY <1>1, <1>2, PTL DEF Spec

-----------------------------------------------------------------------------
(* The loop stays within its types: in particular no mark is deeper than   *)
(* HistoryDepth.                                                           *)
THEOREM TypeCorrect == Spec => []TypeOK
<1>1. IInv => TypeOK
  BY DEF IInv
<1> QED
  BY <1>1, Invariant, PTL

(* compact_history filters its heads instead of recomputing them, and they *)
(* are the frontier of what is left all the same.                          *)
THEOREM HeadsStayFrontier == Spec => []HeadsAreFrontier
<1>1. IInv => HeadsAreFrontier
  BY DEF IInv
<1> QED
  BY <1>1, Invariant, PTL

(* ADR 002, "Frontier Preservation": no call loses a head.                 *)
THEOREM HeadsPreserved == Spec => FrontierPreserved
<1>1. IInv /\ [Next]_vars => [heads' = heads]_vars
  <2> SUFFICES ASSUME IInv, Next PROVE heads' = heads
    BY DEF vars
  <2> QED
    BY SweepIInv DEF Next, Skip, Visit, Return
<1> QED
  BY <1>1, Invariant, PTL DEF Spec, FrontierPreserved

(* Whatever the push order, the loop answers with one of the walks the     *)
(* atomic specification allows, and at the same moment.                    *)
THEOREM LoopImplementsWalk == Spec => RefinesBoundedWalk
<1>1. Init => Walk!Init
  <2> SUFFICES ASSUME Init PROVE Walk!Init
    OBVIOUS
  <2>1. op \in {"compact_history", "get_vdiff"}
    BY OpsAssumption DEF Init
  <2> QED
    BY <2>1 DEF Init, Walk!Init, Walk!Frontier, Frontier, Walk!Children, Children
<1>2. IInv /\ [Next]_vars => [Walk!Answer]_(Walk!vars)
  <2> SUFFICES ASSUME IInv, [Next]_vars
               PROVE  Walk!Answer \/ UNCHANGED Walk!vars
    OBVIOUS
  <2>0. /\ Walk!Walks(arena, heads, remote, HistoryDepth)
             = Walks(arena, heads, remote, HistoryDepth)
        /\ \A keep : Walk!Retain(arena, keep) = Retain(arena, keep)
    BY DEF Walk!Walks, Walks, Walk!IsWalk, IsWalk, Walk!Retain, Retain
  <2>1. CASE Skip
    <3>1. ~done /\ ~done' /\ UNCHANGED <<op, arena, heads, remote, done>>
      BY <2>1 DEF IInv, Skip
    <3> QED
      BY <3>1 DEF Walk!vars
  <2>2. CASE Visit
    <3>1. ~done /\ ~done' /\ UNCHANGED <<op, arena, heads, remote, done>>
      BY <2>2 DEF IInv, Visit
    <3> QED
      BY <3>1 DEF Walk!vars
  <2>3. CASE Sweep
    <3> DEFINE L == [h \in Delta |-> level[h]]
    <3>1. L \in Walks(arena, heads, remote, HistoryDepth) /\ DOMAIN L = Delta
      BY <2>3, MarksAreWalk DEF Sweep
    <3>2. heads' = heads /\ Delta' = Delta
      BY <2>3, SweepIInv DEF Sweep, Delta, Marked
    <3>3. arena' = Retain(arena, DOMAIN L)
      BY <2>3, <3>1 DEF Sweep, Retain, Delta
    <3> HIDE DEF L
    <3> QED
      BY <2>0, <2>3, <3>1, <3>2, <3>3 DEF Sweep, Walk!Answer
  <2>4. CASE Return
    <3> DEFINE L == [h \in Delta |-> level[h]]
    <3>1. L \in Walks(arena, heads, remote, HistoryDepth) /\ DOMAIN L = Delta
      BY <2>4, MarksAreWalk DEF Return
    <3>2. Delta' = Delta
      BY <2>4 DEF Return, Delta, Marked
    <3> HIDE DEF L
    <3> QED
      BY <2>0, <2>4, <3>1, <3>2 DEF Return, Walk!Answer
  <2>5. CASE UNCHANGED vars
    BY <2>5 DEF vars, Walk!vars, Delta, Marked
  <2> QED
    BY <2>1, <2>2, <2>3, <2>4, <2>5 DEF Next
<1> QED
  BY <1>1, <1>2, Invariant, PTL DEF Spec, RefinesBoundedWalk, Walk!Spec

-----------------------------------------------------------------------------
LEMMA ArenaIsDag == TypeOK => IsDag(arena)
BY HashesAssumption, FS_Subset DEF TypeOK, IsDag

(* README, "Max DAG depth retained after GC": whatever the push order, what *)
(* compact_history keeps, or get_vdiff answers, is within HistoryDepth of a *)
(* head along some chain of children.                                      *)
THEOREM MarksWithinDepth == Spec => WithinDepth
<1>1. IInv /\ [Next]_vars =>
        [done' # done =>
           \A h \in Marked \cap DOMAIN arena : Nearest(arena)[h] <= HistoryDepth]_vars
  <2> SUFFICES ASSUME IInv, Next, done' # done, NEW h \in Marked \cap DOMAIN arena
               PROVE  Nearest(arena)[h] <= HistoryDepth
    BY DEF vars
  <2> DEFINE L == [g \in Delta |-> level[g]]
  <2>1. queue = << >> /\ ~done
    BY DEF Next, Skip, Visit, Sweep, Return
  <2>2. IsWalk(arena, Frontier(arena), remote, HistoryDepth, L)
    BY <2>1, MarksAreWalk DEF Walks, IInv, HeadsAreFrontier
  <2>3. h \in DOMAIN L /\ L[h] \in 0..HistoryDepth
    BY DEF Delta, IInv, TypeOK
  <2>4. IsDag(arena) /\ HistoryDepth \in Nat
    BY ArenaIsDag, DepthAssumption DEF IInv
  <2>5. h \in DOMAIN arena /\ Nearest(arena) \in [DOMAIN arena -> Nat]
    BY <2>4, NearestIs
  <2> HIDE DEF L
  <2>6. Nearest(arena)[h] <= L[h]
    BY <2>2, <2>3, <2>4, WalkDepths
  <2> QED
    BY <2>3, <2>4, <2>5, <2>6
<1> QED
  BY <1>1, Invariant, PTL DEF Spec, WithinDepth

LEMMA NoAncestryOfNothing ==
  ASSUME NEW A, IsDag(A)
  PROVE  Ancestry(A, {}) = {}
BY AncestryIs

(* No push order loses a node that every chain of children puts within     *)
(* HistoryDepth: the skipping of nodes seen at a greater depth first,      *)
(* which does lose nodes a shorter chain reaches, cannot lose these.       *)
THEOREM ShallowNodesSurvive == Spec => ShallowSurvives
<1>1. IInv /\ [Next]_vars =>
        [op = "compact_history" /\ done' # done =>
           \A h \in DOMAIN arena :
              Deepest(arena)[h] <= HistoryDepth => h \in DOMAIN arena']_vars
  <2> SUFFICES ASSUME IInv, Next, op = "compact_history", done' # done,
                      NEW h \in DOMAIN arena, Deepest(arena)[h] <= HistoryDepth
               PROVE  h \in DOMAIN arena'
    BY DEF vars
  <2> DEFINE L == [g \in Delta |-> level[g]]
  <2>1. queue = << >> /\ ~done /\ Sweep
    BY DEF Next, Skip, Visit, Sweep, Return
  <2>2. remote = {} /\ IsWalk(arena, Frontier(arena), remote, HistoryDepth, L)
    BY <2>1, MarksAreWalk DEF Walks, IInv, LoopInv, HeadsAreFrontier
  <2>3. IsDag(arena) /\ HistoryDepth \in Nat
    BY ArenaIsDag, DepthAssumption DEF IInv
  <2>4. DOMAIN L = Delta /\ DOMAIN arena' = Delta
    BY <2>1 DEF Sweep, Retain, Delta
  <2> HIDE DEF L
  <2>5. h \in DOMAIN L \cup Ancestry(arena, remote)
    BY <2>2, <2>3, WalkReachesShallow
  <2> QED
    BY <2>2, <2>3, <2>4, <2>5, NoAncestryOfNothing
<1> QED
  BY <1>1, Invariant, PTL DEF Spec, ShallowSurvives

(* What get_vdiff returned stays a walk: nothing moves after the return.   *)
AnswerInv ==
  done /\ op = "get_vdiff" =>
    [h \in Delta |-> level[h]] \in Walks(arena, heads, remote, HistoryDepth)

LEMMA AnswerIsWalk == Spec => []AnswerInv
<1>1. Init => AnswerInv
  BY DEF Init, AnswerInv
<1>2. IInv /\ AnswerInv /\ [Next]_vars => AnswerInv'
  <2> SUFFICES ASSUME IInv, AnswerInv, [Next]_vars PROVE AnswerInv'
    OBVIOUS
  <2>1. CASE Skip
    BY <2>1 DEF Skip, IInv, AnswerInv
  <2>2. CASE Visit
    BY <2>2 DEF Visit, IInv, AnswerInv
  <2>3. CASE Sweep
    BY <2>3 DEF Sweep, AnswerInv
  <2>4. CASE Return
    <3>1. [h \in Delta |-> level[h]] \in Walks(arena, heads, remote, HistoryDepth)
      BY <2>4, MarksAreWalk DEF Return
    <3>2. UNCHANGED <<Delta, level, arena, heads, remote>>
      BY <2>4 DEF Return, Delta, Marked
    <3> QED
      BY <3>1, <3>2 DEF AnswerInv
  <2>5. CASE UNCHANGED vars
    BY <2>5 DEF vars, AnswerInv, Delta, Marked
  <2> QED
    BY <2>1, <2>2, <2>3, <2>4, <2>5 DEF Next
<1> QED
  BY <1>1, <1>2, Invariant, PTL DEF Spec

(* get_vdiff sends nothing the peer named, and when no chain is longer     *)
(* than HistoryDepth the delta and the ancestry of the peer's heads make   *)
(* up the whole arena: the peer misses nothing, whatever the push order.   *)
THEOREM DeltaIsComplete == Spec => []DeltaCompletes
<1>1. IInv /\ AnswerInv => DeltaCompletes
  <2> SUFFICES ASSUME IInv, AnswerInv, done, op = "get_vdiff"
               PROVE  /\ Delta \cap remote = {}
                      /\ (\A h \in DOMAIN arena : Deepest(arena)[h] <= HistoryDepth)
                           => Delta \cup Ancestry(arena, remote) = DOMAIN arena
    BY DEF DeltaCompletes
  <2> DEFINE L == [h \in Delta |-> level[h]]
  <2>1. IsWalk(arena, Frontier(arena), remote, HistoryDepth, L) /\ DOMAIN L = Delta
    BY DEF AnswerInv, Walks, IInv, HeadsAreFrontier
  <2>2. IsDag(arena) /\ HistoryDepth \in Nat
    BY ArenaIsDag, DepthAssumption DEF IInv
  <2> HIDE DEF L
  <2>3. Delta \cap remote = {}
    BY <2>1 DEF IsWalk
  <2>4. Ancestry(arena, remote) \subseteq DOMAIN arena
    BY <2>2, AncestryIs
  <2>5. ASSUME \A h \in DOMAIN arena : Deepest(arena)[h] <= HistoryDepth,
               NEW h \in DOMAIN arena
        PROVE  h \in Delta \cup Ancestry(arena, remote)
    BY <2>1, <2>2, <2>5, WalkReachesShallow
  <2> QED
    BY <2>3, <2>4, <2>5 DEF Delta
<1> QED
  BY <1>1, Invariant, AnswerIsWalk, PTL
=============================================================================
