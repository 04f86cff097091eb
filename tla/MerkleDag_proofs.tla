-------------------------- MODULE MerkleDag_proofs --------------------------
(***************************************************************************)
(* Facts about the Merkle-DAG operators, for every finite arena whose      *)
(* parents precede their children: what the recursive notions of depth     *)
(* and of ancestry compute, and what a depth-bounded walk visits.          *)
(*                                                                         *)
(* Induction is by least counterexample: a set of naturals that is not     *)
(* empty has a least element (LeastNat, from WFMin).  A recursive function *)
(* is a CHOOSE of a solution of its equation; RecursiveSolution gives one. *)
(***************************************************************************)
EXTENDS MerkleDag, FiniteSetTheorems, WellFoundedInduction, TLAPS

LEMMA LeastNat ==
  ASSUME NEW S \in SUBSET Nat, S # {}
  PROVE  \E x \in S : \A y \in S : x <= y
<1> DEFINE R == OpToRel(<, Nat)
<1>1. IsWellFoundedOn(R, Nat)
  BY NatLessThanWellFounded
<1>2. \A x, y \in Nat : x < y => <<x, y>> \in R
  BY DEF OpToRel
<1> HIDE DEF R
<1>3. PICK x \in S : \A y \in S : ~(<<y, x>> \in R)
  BY <1>1, WFMin
<1>4. x \in Nat
  OBVIOUS
<1>5. ASSUME NEW y \in S PROVE x <= y
  <2>1. y \in Nat /\ ~(y < x)
    BY <1>2, <1>3, <1>4
  <2>2. QED
    BY <1>4, <2>1
<1>6. QED
  BY <1>5

LEMMA BoundedAbove ==
  ASSUME NEW S \in SUBSET Nat, IsFiniteSet(S)
  PROVE  \E m \in Nat : \A x \in S : x <= m
<1> DEFINE Unbounded(U) == \A m \in Nat : \E x \in U : x > m
           T == {n \in Nat : \E U \in SUBSET S : Unbounded(U) /\ n = Cardinality(U)}
<1>1. SUFFICES ASSUME Unbounded(S) PROVE FALSE
  OBVIOUS
<1>2. T # {} /\ T \in SUBSET Nat
  BY <1>1, FS_CardinalityType
<1>3. PICK n \in T : \A k \in T : n <= k
  BY <1>2, LeastNat
<1>4. PICK U \in SUBSET S : Unbounded(U) /\ n = Cardinality(U)
  BY <1>3
<1>5. PICK x \in U : x > 0
  BY <1>4
<1> DEFINE V == U \ {x}
<1>6. /\ IsFiniteSet(V) /\ Cardinality(V) = n - 1
      /\ Cardinality(V) \in Nat
  BY <1>4, <1>5, FS_Subset, FS_RemoveElement, FS_CardinalityType
<1>7. Unbounded(V)
  <2>1. TAKE m \in Nat
  <2>2. CASE m < x
    BY <1>4, <1>5, <2>2
  <2>3. CASE m >= x
    BY <1>4, <1>5, <2>3
  <2>4. QED
    BY <1>5, <2>2, <2>3
<1>8. QED
  BY <1>3, <1>6, <1>7

(* Least and Greatest of MerkleDag are what their names say.               *)
LEMMA LeastIs ==
  ASSUME NEW S \in SUBSET Nat, S # {}
  PROVE  Least(S) \in S /\ \A y \in S : Least(S) <= y
BY LeastNat DEF Least

LEMMA GreatestIs ==
  ASSUME NEW S \in SUBSET Nat, S # {}, IsFiniteSet(S)
  PROVE  Greatest(S) \in S /\ \A y \in S : Greatest(S) >= y
<1>1. PICK m \in Nat : \A x \in S : x <= m
  BY BoundedAbove
<1> DEFINE T == {n \in Nat : \A x \in S : x <= n}
<1>2. PICK n \in T : \A k \in T : n <= k
  BY <1>1, LeastNat
<1>3. n \in S
  <2>1. SUFFICES ASSUME n \notin S PROVE FALSE
    OBVIOUS
  <2>2. \A x \in S : x < n
    BY <1>2, <2>1
  <2>3. n \in Nat /\ n # 0
    <3>1. PICK x \in S : x < n
      BY <2>2
    <3>2. x \in Nat /\ n \in Nat
      BY <1>2
    <3>3. QED
      BY <3>1, <3>2
  <2>4. n - 1 \in Nat /\ \A x \in S : x <= n - 1
    BY <2>2, <2>3
  <2>5. n <= n - 1
    BY <1>2, <2>4
  <2>6. QED
    BY <2>3, <2>5
<1>4. QED
  BY <1>2, <1>3 DEF Greatest

LEMMA FiniteImage ==
  ASSUME NEW S, IsFiniteSet(S), NEW f \in [S -> Nat], NEW T \in SUBSET S
  PROVE  IsFiniteSet({f[x] : x \in T})
<1> DEFINE U == {f[x] : x \in T}
           g == [x \in T |-> f[x]]
<1>1. g \in Surjection(T, U)
  BY DEF Surjection
<1>2. IsFiniteSet(T)
  BY FS_Subset
<1>3. QED
  BY <1>1, <1>2, FS_Surjection

-----------------------------------------------------------------------------
(* An equation f[x] = F[x][f] whose right-hand side looks only at f's      *)
(* values below the rank of x has a solution.                              *)
LooksLower(F, rank, S, V) ==
  /\ F \in [S -> [[S -> V] -> V]]
  /\ \A g, h \in [S -> V] : \A x \in S :
        (\A y \in S : rank[y] < rank[x] => g[y] = h[y]) => F[x][g] = F[x][h]

LEMMA RecursiveSolution ==
  ASSUME NEW S, NEW V, V # {}, NEW rank \in [S -> Nat], NEW bound \in Nat,
         \A x \in S : rank[x] < bound,
         NEW F, LooksLower(F, rank, S, V)
  PROVE  \E f \in [S -> V] : \A x \in S : f[x] = F[x][f]
<1> USE DEF LooksLower
<1> DEFINE Good(n) == \E f \in [S -> V] : \A x \in S : rank[x] < n => f[x] = F[x][f]
           T == {n \in Nat : ~Good(n)}
<1>1. SUFFICES Good(bound)
  BY Zenon
<1>2. SUFFICES ASSUME T # {} PROVE FALSE
  OBVIOUS
<1>3. PICK n \in T : \A k \in T : n <= k
  BY <1>2, LeastNat
<1>4. Good(0)
  <2>1. PICK v \in V : TRUE
    OBVIOUS
  <2>2. [x \in S |-> v] \in [S -> V]
    OBVIOUS
  <2>3. \A x \in S : ~(rank[x] < 0)
    OBVIOUS
  <2>4. QED
    BY <2>2, <2>3
<1>5. n \in Nat \ {0} /\ n - 1 \in Nat /\ Good(n - 1)
  BY <1>3, <1>4
<1>6. PICK f \in [S -> V] : \A x \in S : rank[x] < n - 1 => f[x] = F[x][f]
  BY <1>5
<1> DEFINE g == [x \in S |-> IF rank[x] < n - 1 THEN f[x] ELSE F[x][f]]
<1>7. \A x \in S : F[x][f] \in V
  OBVIOUS
<1>8. g \in [S -> V]
  BY <1>7
<1>9. ASSUME NEW x \in S, rank[x] < n
      PROVE  g[x] = F[x][g]
  <2>1. \A y \in S : rank[y] < rank[x] => g[y] = f[y]
    BY <1>5, <1>9
  <2>2. F[x][g] = F[x][f]
    BY <1>8, <2>1
  <2>3. QED
    BY <1>6, <2>2
<1>10. Good(n)
  BY <1>8, <1>9
<1>11. QED
  BY <1>3, <1>10

-----------------------------------------------------------------------------
(* The arenas the engine holds: finitely many nodes, parents hashed first. *)
IsDag(arena) ==
  /\ DOMAIN arena \in SUBSET Nat /\ IsFiniteSet(DOMAIN arena)
  /\ ParentsPrecede(arena)

LEMMA ChildrenFollow ==
  ASSUME NEW arena, IsDag(arena), NEW h \in DOMAIN arena
  PROVE  /\ Children(arena, h) \in SUBSET DOMAIN arena
         /\ \A c \in Children(arena, h) : c \in Nat /\ h < c
BY DEF IsDag, Children, ParentsPrecede

(* A recursion from the children down has a solution: pick stands for      *)
(* Least or Greatest.                                                      *)
LEMMA DepthRecursion ==
  ASSUME NEW arena, IsDag(arena), NEW pick \in [SUBSET Nat -> Nat]
  PROVE  \E f \in [DOMAIN arena -> Nat] : f = [h \in DOMAIN arena |->
           IF Children(arena, h) = {} THEN 0
           ELSE 1 + pick[{f[c] : c \in Children(arena, h)}]]
<1> DEFINE D == DOMAIN arena
           Step(f, h) == IF Children(arena, h) = {} THEN 0
                         ELSE 1 + pick[{f[c] : c \in Children(arena, h)}]
           F == [h \in D |-> [f \in [D -> Nat] |-> Step(f, h)]]
<1>1. D \in SUBSET Nat /\ IsFiniteSet(D)
  BY DEF IsDag
<1>2. PICK m \in Nat : \A h \in D : h <= m
  BY <1>1, BoundedAbove
<1> DEFINE rank == [h \in D |-> m - h]
<1>3. rank \in [D -> Nat] /\ \A h \in D : rank[h] < m + 1
  BY <1>1, <1>2
<1>4. ASSUME NEW f \in [D -> Nat], NEW h \in D
      PROVE  Step(f, h) \in Nat
  <2>1. {f[c] : c \in Children(arena, h)} \in SUBSET Nat
    BY <1>1, ChildrenFollow
  <2> QED
    BY <2>1
<1>5. F \in [D -> [[D -> Nat] -> Nat]]
  BY <1>4
<1>6. ASSUME NEW f \in [D -> Nat], NEW g \in [D -> Nat], NEW h \in D,
             \A y \in D : rank[y] < rank[h] => f[y] = g[y]
      PROVE  F[h][f] = F[h][g]
  <2>1. \A c \in Children(arena, h) : c \in D /\ rank[c] < rank[h]
    BY <1>1, ChildrenFollow
  <2>2. \A c \in Children(arena, h) : f[c] = g[c]
    BY <1>6, <2>1
  <2>3. {f[c] : c \in Children(arena, h)} = {g[c] : c \in Children(arena, h)}
    BY <2>2
  <2>4. Step(f, h) = Step(g, h)
    BY <2>3
  <2> QED
    BY <2>4
<1>7. PICK f \in [D -> Nat] : \A h \in D : f[h] = F[h][f]
  <2>1. m + 1 \in Nat /\ Nat # {}
    OBVIOUS
  <2> HIDE DEF D, F, rank
  <2>2. LooksLower(F, rank, D, Nat)
    BY <1>5, <1>6 DEF LooksLower
  <2> QED
    BY <1>3, <2>1, <2>2, RecursiveSolution
<1>8. f = [h \in D |-> Step(f, h)]
  BY <1>7
<1> QED
  BY <1>8

LEMMA DeepestUnfolds ==
  ASSUME NEW arena, IsDag(arena)
  PROVE  Deepest(arena) = [h \in DOMAIN arena |->
           IF Children(arena, h) = {} THEN 0
           ELSE 1 + Greatest({Deepest(arena)[c] : c \in Children(arena, h)})]
<1> DEFINE D == DOMAIN arena
           pick == [U \in SUBSET Nat |-> IF Greatest(U) \in Nat THEN Greatest(U) ELSE 0]
<1>1. pick \in [SUBSET Nat -> Nat]
  OBVIOUS
<1>2. PICK f \in [D -> Nat] : f = [h \in D |->
         IF Children(arena, h) = {} THEN 0
         ELSE 1 + pick[{f[c] : c \in Children(arena, h)}]]
  <2> HIDE DEF pick
  <2> QED BY <1>1, DepthRecursion
<1>3. ASSUME NEW h \in D, Children(arena, h) # {}
      PROVE  pick[{f[c] : c \in Children(arena, h)}]
               = Greatest({f[c] : c \in Children(arena, h)})
  <2> DEFINE U == {f[c] : c \in Children(arena, h)}
  <2>1. U \in SUBSET Nat /\ U # {} /\ IsFiniteSet(U)
    BY <1>3, ChildrenFollow, FiniteImage DEF IsDag
  <2>2. Greatest(U) \in Nat
    <3> HIDE DEF U
    <3> QED BY <2>1, GreatestIs
  <2> QED
    BY <2>1, <2>2
<1> HIDE DEF pick
<1>4. f = [h \in D |-> IF Children(arena, h) = {} THEN 0
                       ELSE 1 + Greatest({f[c] : c \in Children(arena, h)})]
  BY <1>2, <1>3
<1> QED
  BY <1>4 DEF Deepest

(* Deepest is 0 at a head, and one more than the deepest child elsewhere.  *)
LEMMA DeepestIs ==
  ASSUME NEW arena, IsDag(arena)
  PROVE  /\ Deepest(arena) \in [DOMAIN arena -> Nat]
         /\ \A h \in DOMAIN arena : \A c \in Children(arena, h) :
               Deepest(arena)[c] < Deepest(arena)[h]
         /\ \A h \in DOMAIN arena : Deepest(arena)[h] # 0 =>
               \E c \in Children(arena, h) : Deepest(arena)[h] = Deepest(arena)[c] + 1
<1> DEFINE D == DOMAIN arena
           d == Deepest(arena)
           Below(h) == {d[c] : c \in Children(arena, h)}
<1>1. D \in SUBSET Nat /\ IsFiniteSet(D)
  BY DEF IsDag
<1>2. d = [h \in D |-> IF Children(arena, h) = {} THEN 0 ELSE 1 + Greatest(Below(h))]
  BY DeepestUnfolds
<1> HIDE DEF d
<1>3. \A h \in D : d[h] \in Nat
  <2> DEFINE Bad == {h \in D : d[h] \notin Nat}
  <2>1. SUFFICES ASSUME Bad # {} PROVE FALSE
    OBVIOUS
  <2>2. Bad \in SUBSET Nat /\ IsFiniteSet(Bad)
    BY <1>1, FS_Subset
  <2>3. PICK h \in Bad : \A y \in Bad : h >= y
    <3> HIDE DEF Bad
    <3> QED BY <2>1, <2>2, GreatestIs
  <2>4. h \in D /\ \A c \in Children(arena, h) : c \in D /\ d[c] \in Nat
    BY <1>1, <2>3, ChildrenFollow
  <2>5. CASE Children(arena, h) = {}
    BY <1>2, <2>3, <2>5
  <2>6. CASE Children(arena, h) # {}
    <3>1. Below(h) \in SUBSET Nat /\ Below(h) # {} 
      BY <2>4, <2>6
    <3>2. IsFiniteSet(Below(h))
      <4> DEFINE f == [x \in D |-> IF d[x] \in Nat THEN d[x] ELSE 0]
      <4>1. f \in [D -> Nat] /\ Children(arena, h) \in SUBSET D
        BY <2>4
      <4>2. IsFiniteSet({f[c] : c \in Children(arena, h)})
        <5> HIDE DEF f
        <5> QED BY <1>1, <4>1, FiniteImage
      <4>3. \A c \in Children(arena, h) : f[c] = d[c]
        BY <2>4
      <4>4. {f[c] : c \in Children(arena, h)} = Below(h)
        BY <4>3
      <4>5. QED
        BY <4>2, <4>4
    <3>3. Greatest(Below(h)) \in Nat
      <4> HIDE DEF Below
      <4> QED BY <3>1, <3>2, GreatestIs
    <3>4. d[h] = 1 + Greatest(Below(h)) /\ d[h] \notin Nat
      BY <1>2, <2>3, <2>6
    <3>5. QED
      <4> HIDE DEF Below
      <4> QED BY <3>3, <3>4
  <2>7. QED
    BY <2>5, <2>6
<1>4. d \in [D -> Nat]
  BY <1>2, <1>3
<1>5. ASSUME NEW h \in D, Children(arena, h) # {}
      PROVE  /\ \A c \in Children(arena, h) : d[c] < d[h]
             /\ \E c \in Children(arena, h) : d[h] = d[c] + 1
  <2>1. Below(h) \in SUBSET Nat /\ Below(h) # {} /\ IsFiniteSet(Below(h))
    BY <1>1, <1>4, <1>5, ChildrenFollow, FiniteImage
  <2>2. d[h] = 1 + Greatest(Below(h))
    BY <1>2, <1>5
  <2>3. Greatest(Below(h)) \in Below(h) /\ \A y \in Below(h) : Greatest(Below(h)) >= y
    <3> HIDE DEF Below
    <3> QED BY <2>1, GreatestIs
  <2>4. PICK g \in Nat : d[h] = 1 + g /\ g \in Below(h) /\ \A y \in Below(h) : g >= y
    <3> HIDE DEF Below
    <3> QED BY <2>1, <2>2, <2>3
  <2>5. PICK k \in Children(arena, h) : d[k] = g
    BY <2>4
  <2>6. ASSUME NEW c \in Children(arena, h)
        PROVE  d[c] < d[h]
    <3>1. d[c] \in Below(h) /\ d[c] \in Nat
      BY <2>1
    <3>2. QED
      BY <2>4, <3>1
  <2>7. d[h] = d[k] + 1
    BY <2>4, <2>5
  <2>8. QED
    BY <2>6, <2>7
<1>6. \A h \in D : Children(arena, h) = {} => d[h] = 0
  BY <1>2
<1>7. QED
  BY <1>4, <1>5, <1>6 DEF d

LEMMA NearestUnfolds ==
  ASSUME NEW arena, IsDag(arena)
  PROVE  Nearest(arena) = [h \in DOMAIN arena |->
           IF Children(arena, h) = {} THEN 0
           ELSE 1 + Least({Nearest(arena)[c] : c \in Children(arena, h)})]
<1> DEFINE D == DOMAIN arena
           pick == [U \in SUBSET Nat |-> IF Least(U) \in Nat THEN Least(U) ELSE 0]
<1>1. pick \in [SUBSET Nat -> Nat]
  OBVIOUS
<1>2. PICK f \in [D -> Nat] : f = [h \in D |->
         IF Children(arena, h) = {} THEN 0
         ELSE 1 + pick[{f[c] : c \in Children(arena, h)}]]
  <2> HIDE DEF pick
  <2> QED BY <1>1, DepthRecursion
<1>3. ASSUME NEW h \in D, Children(arena, h) # {}
      PROVE  pick[{f[c] : c \in Children(arena, h)}]
               = Least({f[c] : c \in Children(arena, h)})
  <2> DEFINE U == {f[c] : c \in Children(arena, h)}
  <2>1. U \in SUBSET Nat /\ U # {}
    BY <1>3, ChildrenFollow DEF IsDag
  <2>2. Least(U) \in Nat
    <3> HIDE DEF U
    <3> QED BY <2>1, LeastIs
  <2> QED
    BY <2>1, <2>2
<1> HIDE DEF pick
<1>4. f = [h \in D |-> IF Children(arena, h) = {} THEN 0
                       ELSE 1 + Least({f[c] : c \in Children(arena, h)})]
  BY <1>2, <1>3
<1> QED
  BY <1>4 DEF Nearest

(* Nearest is 0 at a head, and at most one more than at any child.         *)
LEMMA NearestIs ==
  ASSUME NEW arena, IsDag(arena)
  PROVE  /\ Nearest(arena) \in [DOMAIN arena -> Nat]
         /\ \A h \in Frontier(arena) : Nearest(arena)[h] = 0
         /\ \A h \in DOMAIN arena : \A c \in Children(arena, h) :
               Nearest(arena)[h] <= Nearest(arena)[c] + 1
<1> DEFINE D == DOMAIN arena
           d == Nearest(arena)
           Below(h) == {d[c] : c \in Children(arena, h)}
<1>1. D \in SUBSET Nat /\ IsFiniteSet(D)
  BY DEF IsDag
<1>2. d = [h \in D |-> IF Children(arena, h) = {} THEN 0 ELSE 1 + Least(Below(h))]
  BY NearestUnfolds
<1> HIDE DEF d
<1>3. \A h \in D : d[h] \in Nat
  <2> DEFINE Bad == {h \in D : d[h] \notin Nat}
  <2>1. SUFFICES ASSUME Bad # {} PROVE FALSE
    OBVIOUS
  <2>2. Bad \in SUBSET Nat /\ IsFiniteSet(Bad)
    BY <1>1, FS_Subset
  <2>3. PICK h \in Bad : \A y \in Bad : h >= y
    <3> HIDE DEF Bad
    <3> QED BY <2>1, <2>2, GreatestIs
  <2>4. h \in D /\ \A c \in Children(arena, h) : c \in D /\ d[c] \in Nat
    BY <1>1, <2>3, ChildrenFollow
  <2>5. CASE Children(arena, h) = {}
    BY <1>2, <2>3, <2>5
  <2>6. CASE Children(arena, h) # {}
    <3>1. Below(h) \in SUBSET Nat /\ Below(h) # {} 
      BY <2>4, <2>6
    <3>2. Least(Below(h)) \in Nat
      <4> HIDE DEF Below
      <4> QED BY <3>1, LeastIs
    <3>3. d[h] = 1 + Least(Below(h)) /\ d[h] \notin Nat
      BY <1>2, <2>3, <2>6
    <3>4. QED
      <4> HIDE DEF Below
      <4> QED BY <3>2, <3>3
  <2>7. QED
    BY <2>5, <2>6
<1>4. d \in [D -> Nat]
  BY <1>2, <1>3
<1>5. ASSUME NEW h \in D, NEW c \in Children(arena, h)
      PROVE  d[h] <= d[c] + 1
  <2>1. Below(h) \in SUBSET Nat /\ d[c] \in Below(h)
    BY <1>4, ChildrenFollow
  <2>2. d[h] = 1 + Least(Below(h))
    BY <1>2
  <2>3. Least(Below(h)) \in Nat /\ Least(Below(h)) <= d[c]
    <3> HIDE DEF Below
    <3> QED BY <2>1, LeastIs
  <2>4. d[c] \in Nat
    BY <2>1
  <2>5. QED
    <3> HIDE DEF Below
    <3> QED BY <2>2, <2>3, <2>4
<1>6. \A h \in D : Children(arena, h) = {} => d[h] = 0
  BY <1>2
<1>7. QED
  BY <1>4, <1>5, <1>6 DEF d, Frontier

-----------------------------------------------------------------------------
(* below[h] of Ancestry.                                                   *)
BelowEquation(arena, below) ==
  below = [h \in DOMAIN arena |->
             {h} \cup UNION {below[p] : p \in arena[h] \cap DOMAIN arena}]

LEMMA BelowExists ==
  ASSUME NEW arena, IsDag(arena)
  PROVE  \E below : BelowEquation(arena, below)
<1> DEFINE D == DOMAIN arena
           V == SUBSET D
           Step(f, h) == {h} \cup UNION {f[p] : p \in arena[h] \cap D}
           F == [h \in D |-> [f \in [D -> V] |-> Step(f, h)]]
           rank == [h \in D |-> h]
<1>1. D \in SUBSET Nat /\ IsFiniteSet(D)
  BY DEF IsDag
<1>2. PICK m \in Nat : \A h \in D : h <= m
  BY <1>1, BoundedAbove
<1>3. rank \in [D -> Nat] /\ \A h \in D : rank[h] < m + 1
  BY <1>1, <1>2
<1>4. ASSUME NEW f \in [D -> V], NEW h \in D
      PROVE  Step(f, h) \in V
  OBVIOUS
<1>5. F \in [D -> [[D -> V] -> V]]
  BY <1>4
<1>6. ASSUME NEW f \in [D -> V], NEW g \in [D -> V], NEW h \in D,
             \A y \in D : rank[y] < rank[h] => f[y] = g[y]
      PROVE  F[h][f] = F[h][g]
  <2>1. \A p \in arena[h] \cap D : rank[p] < rank[h]
    BY DEF IsDag, ParentsPrecede
  <2>2. \A p \in arena[h] \cap D : f[p] = g[p]
    BY <1>6, <2>1
  <2>3. {f[p] : p \in arena[h] \cap D} = {g[p] : p \in arena[h] \cap D}
    BY <2>2
  <2>4. Step(f, h) = Step(g, h)
    BY <2>3
  <2>5. QED
    BY <2>4
<1>7. PICK f \in [D -> V] : \A h \in D : f[h] = F[h][f]
  <2>1. m + 1 \in Nat /\ V # {}
    OBVIOUS
  <2> HIDE DEF D, V, F, rank
  <2>2. LooksLower(F, rank, D, V)
    BY <1>5, <1>6 DEF LooksLower
  <2>3. QED
    BY <1>3, <2>1, <2>2, RecursiveSolution
<1>8. f = [h \in D |-> Step(f, h)]
  BY <1>7
<1>9. QED
  BY <1>8 DEF BelowEquation

(* Ancestry is the least set that holds what S has in the arena and, with  *)
(* a node, the parents of it that the arena has.                           *)
LEMMA AncestryIs ==
  ASSUME NEW arena, IsDag(arena), NEW S
  PROVE  /\ S \cap DOMAIN arena \subseteq Ancestry(arena, S)
         /\ \A h \in Ancestry(arena, S) \cap DOMAIN arena :
               arena[h] \cap DOMAIN arena \subseteq Ancestry(arena, S)
         /\ \A T : /\ S \cap DOMAIN arena \subseteq T
                   /\ \A h \in T \cap DOMAIN arena : arena[h] \cap DOMAIN arena \subseteq T
                   => Ancestry(arena, S) \subseteq T
<1> DEFINE D == DOMAIN arena
<1>1. D \in SUBSET Nat /\ \A h \in D : \A p \in arena[h] : p < h
  BY DEF IsDag, ParentsPrecede
<1>2. PICK below : /\ BelowEquation(arena, below)
                   /\ Ancestry(arena, S) = UNION {below[h] : h \in S \cap D}
  <2> DEFINE b == CHOOSE below : BelowEquation(arena, below)
  <2>1. BelowEquation(arena, b)
    BY BelowExists
  <2>2. Ancestry(arena, S) = UNION {b[h] : h \in S \cap D}
    BY DEF Ancestry, BelowEquation
  <2>3. QED
    BY <2>1, <2>2
<1>3. /\ \A h \in D : below[h] = {h} \cup UNION {below[p] : p \in arena[h] \cap D}
  BY <1>2 DEF BelowEquation
<1>4. \A h \in D : h \in below[h] /\ \A p \in arena[h] \cap D : below[p] \subseteq below[h]
  BY <1>3
<1>5. \A h \in D : \A x \in below[h] \cap D : arena[x] \cap D \subseteq below[h]
  <2> DEFINE Bad == {h \in D : ~(\A x \in below[h] \cap D : arena[x] \cap D \subseteq below[h])}
  <2>1. SUFFICES ASSUME Bad # {} PROVE FALSE
    OBVIOUS
  <2>2. PICK h \in Bad : \A y \in Bad : h <= y
    <3>1. Bad \in SUBSET Nat
      BY <1>1
    <3> HIDE DEF Bad
    <3> QED BY <2>1, <3>1, LeastNat
  <2>3. PICK x \in below[h] \cap D : \E q \in arena[x] \cap D : q \notin below[h]
    OBVIOUS
  <2>4. x # h
    BY <1>4, <2>3
  <2>5. PICK p \in arena[h] \cap D : x \in below[p]
    BY <1>3, <2>3, <2>4
  <2>6. p < h /\ p \in Nat /\ h \in Nat
    BY <1>1, <2>5
  <2>7. p \notin Bad
    BY <2>2, <2>6
  <2>8. arena[x] \cap D \subseteq below[p]
    BY <2>3, <2>5, <2>7
  <2>9. QED
    BY <1>4, <2>3, <2>5, <2>8
<1>6. ASSUME NEW T, S \cap D \subseteq T, \A h \in T \cap D : arena[h] \cap D \subseteq T
      PROVE  Ancestry(arena, S) \subseteq T
  <2>1. \A h \in D : h \in T => below[h] \subseteq T
    <3> DEFINE Bad == {h \in D : h \in T /\ ~(below[h] \subseteq T)}
    <3>1. SUFFICES ASSUME Bad # {} PROVE FALSE
      OBVIOUS
    <3>2. PICK h \in Bad : \A y \in Bad : h <= y
      <4>1. Bad \in SUBSET Nat
        BY <1>1
      <4> HIDE DEF Bad
      <4> QED BY <3>1, <4>1, LeastNat
    <3>3. \A p \in arena[h] \cap D : p \in T /\ below[p] \subseteq T
      <4>1. TAKE p \in arena[h] \cap D
      <4>2. p \in T
        BY <1>6
      <4>3. p < h /\ p \in Nat /\ h \in Nat
        BY <1>1
      <4>4. p \notin Bad
        BY <3>2, <4>3
      <4>5. QED
        BY <4>2, <4>4
    <3>4. below[h] \subseteq T
      BY <1>3, <3>3
    <3>5. QED
      BY <3>4
  <2>2. QED
    BY <1>2, <1>6, <2>1
<1>7. S \cap D \subseteq Ancestry(arena, S)
  BY <1>2, <1>4
<1>8. \A h \in Ancestry(arena, S) \cap D : arena[h] \cap D \subseteq Ancestry(arena, S)
  BY <1>2, <1>5
<1>9. QED
  BY <1>6, <1>7, <1>8

-----------------------------------------------------------------------------
(* The depth at which a walk marks a node lies between the two reference   *)
(* depths.                                                                 *)
LEMMA WalkDepths ==
  ASSUME NEW arena, IsDag(arena), NEW stop, NEW limit \in Nat, NEW level,
         IsWalk(arena, Frontier(arena), stop, limit, level)
  PROVE  \A h \in DOMAIN level :
            Nearest(arena)[h] <= level[h] /\ level[h] <= Deepest(arena)[h]
<1> DEFINE W == DOMAIN level
           near == Nearest(arena)
           deep == Deepest(arena)
<1>1. /\ W \subseteq DOMAIN arena
      /\ \A h \in W : level[h] \in Nat
      /\ \A h \in W \cap Frontier(arena) : level[h] = 0
      /\ \A h \in W \ Frontier(arena) :
            \E c \in W : h \in arena[c] /\ level[h] = level[c] + 1
  BY DEF IsWalk, Frontier
<1>2. /\ near \in [DOMAIN arena -> Nat]
      /\ \A h \in Frontier(arena) : near[h] = 0
      /\ \A h \in DOMAIN arena : \A c \in Children(arena, h) : near[h] <= near[c] + 1
  BY NearestIs
<1>3. /\ deep \in [DOMAIN arena -> Nat]
      /\ \A h \in DOMAIN arena : \A c \in Children(arena, h) : deep[c] < deep[h]
  BY DeepestIs
<1> DEFINE OK(h) == near[h] <= level[h] /\ level[h] <= deep[h]
           Bad == {n \in Nat : \E h \in W : n = level[h] /\ ~OK(h)}
<1> HIDE DEF near, deep
<1>4. SUFFICES ASSUME Bad # {} PROVE FALSE
  BY <1>1 DEF near, deep
<1>5. PICK n \in Bad : \A k \in Bad : n <= k
  BY <1>4, LeastNat
<1>6. PICK h \in W : n = level[h] /\ ~OK(h)
  BY <1>5
<1>7. CASE h \in Frontier(arena)
  BY <1>1, <1>2, <1>3, <1>6, <1>7
<1>8. CASE h \notin Frontier(arena)
  <2>1. PICK c \in W : h \in arena[c] /\ level[h] = level[c] + 1
    BY <1>1, <1>8
  <2>2. c \in Children(arena, h) /\ h \in DOMAIN arena
    BY <1>1, <2>1 DEF Children
  <2>3. OK(c)
    <3>1. level[c] \in Nat /\ level[h] \in Nat /\ level[c] < level[h]
      BY <1>1, <2>1
    <3>2. level[c] \notin Bad
      BY <1>5, <1>6, <3>1
    <3>3. QED
      BY <3>1, <3>2
  <2>4. near[h] <= near[c] + 1 /\ deep[c] < deep[h]
    BY <1>2, <1>3, <2>2
  <2>5. near[h] \in Nat /\ near[c] \in Nat /\ deep[h] \in Nat /\ deep[c] \in Nat
    BY <1>1, <1>2, <1>3
  <2>6. level[h] \in Nat /\ level[c] \in Nat
    BY <1>1
  <2>7. QED
    BY <1>6, <2>1, <2>3, <2>4, <2>5, <2>6
<1>9. QED
  BY <1>7, <1>8

(* A node no chain puts below the limit is visited, unless it is a stop    *)
(* point or below one.                                                     *)
LEMMA WalkReachesShallow ==
  ASSUME NEW arena, IsDag(arena), NEW stop, NEW limit \in Nat, NEW level,
         IsWalk(arena, Frontier(arena), stop, limit, level),
         NEW g \in DOMAIN arena, Deepest(arena)[g] <= limit
  PROVE  g \in DOMAIN level \cup Ancestry(arena, stop)
<1> DEFINE D == DOMAIN arena
           deep == Deepest(arena)
           A == Ancestry(arena, stop)
           Bad == {h \in D : deep[h] <= limit /\ h \notin DOMAIN level \cup A}
<1>1. /\ deep \in [D -> Nat]
      /\ \A h \in D : \A c \in Children(arena, h) : deep[c] < deep[h]
  BY DeepestIs
<1>2. /\ stop \cap D \subseteq A
      /\ \A h \in A \cap D : arena[h] \cap D \subseteq A
  BY AncestryIs
<1>3. \A h \in DOMAIN level : level[h] <= deep[h] /\ level[h] \in Nat
  BY WalkDepths DEF IsWalk
<1>4. /\ D \in SUBSET Nat /\ IsFiniteSet(D)
      /\ \A h \in D : Children(arena, h) \in SUBSET D /\ \A c \in Children(arena, h) : c > h
  BY ChildrenFollow DEF IsDag
<1> HIDE DEF deep, A
<1>5. SUFFICES ASSUME Bad # {} PROVE FALSE
  BY DEF deep, A
<1>6. PICK h \in Bad : \A y \in Bad : h >= y
  <2>1. Bad \in SUBSET Nat /\ IsFiniteSet(Bad)
    BY <1>4, FS_Subset
  <2> HIDE DEF Bad
  <2>2. QED
    BY <1>5, <2>1, GreatestIs
<1>7. CASE h \in Frontier(arena)
  BY <1>2, <1>6, <1>7 DEF IsWalk, Frontier
<1>8. CASE h \notin Frontier(arena)
  <2>1. PICK c \in Children(arena, h) : c \in D /\ c > h /\ h \in arena[c]
    BY <1>4, <1>6, <1>8 DEF Frontier, Children
  <2>2. deep[c] < deep[h] /\ deep[h] <= limit /\ deep[c] \in Nat /\ deep[h] \in Nat
    BY <1>1, <1>6, <2>1
  <2>3. c \in DOMAIN level \cup A
    <3>1. c \notin Bad
      BY <1>4, <1>6, <2>1
    <3>2. deep[c] <= limit
      BY <2>2
    <3>3. QED
      BY <2>1, <3>1, <3>2
  <2>4. CASE c \in A
    BY <1>2, <1>6, <2>1, <2>4
  <2>5. CASE c \in DOMAIN level
    <3>1. level[c] < limit
      BY <1>3, <2>2, <2>5
    <3>2. h \in DOMAIN level \cup stop
      BY <1>6, <2>1, <2>5, <3>1 DEF IsWalk
    <3>3. QED
      BY <1>2, <1>6, <3>2
  <2>6. QED
    BY <2>3, <2>4, <2>5
<1>9. QED
  BY <1>7, <1>8

-----------------------------------------------------------------------------
(* An arena that only gains nodes never brings one closer to the top along *)
(* its longest chain.                                                      *)
LEMMA DeepestGrows ==
  ASSUME NEW old, IsDag(old), NEW new, IsDag(new),
         DOMAIN old \subseteq DOMAIN new,
         \A h \in DOMAIN old : new[h] = old[h]
  PROVE  \A h \in DOMAIN old : Deepest(old)[h] <= Deepest(new)[h]
<1> DEFINE D == DOMAIN old
           d == Deepest(old)
           e == Deepest(new)
           Bad == {h \in D : ~(d[h] <= e[h])}
<1>1. /\ d \in [D -> Nat]
      /\ \A h \in D : d[h] # 0 => \E c \in Children(old, h) : d[h] = d[c] + 1
  BY DeepestIs
<1>2. /\ e \in [DOMAIN new -> Nat]
      /\ \A h \in DOMAIN new : \A c \in Children(new, h) : e[c] < e[h]
  BY DeepestIs
<1> HIDE DEF d, e
<1>3. SUFFICES ASSUME Bad # {} PROVE FALSE
  BY DEF d, e
<1>4. D \in SUBSET Nat /\ IsFiniteSet(D)
  BY DEF IsDag
<1>5. PICK h \in Bad : \A y \in Bad : h >= y
  <2>1. Bad \in SUBSET Nat /\ IsFiniteSet(Bad)
    BY <1>4, FS_Subset
  <2> HIDE DEF Bad
  <2> QED
    BY <1>3, <2>1, GreatestIs
<1>6. h \in D /\ d[h] \in Nat /\ e[h] \in Nat /\ ~(d[h] <= e[h])
  BY <1>1, <1>2, <1>5
<1>7. PICK c \in Children(old, h) : d[h] = d[c] + 1
  BY <1>1, <1>6
<1>8. c \in D /\ c \in Nat /\ h \in Nat /\ h < c /\ c \in Children(new, h)
  BY <1>4, <1>6, ChildrenFollow DEF Children
<1>9. d[c] <= e[c]
  BY <1>5, <1>8
<1>10. e[c] < e[h] /\ e[c] \in Nat /\ d[c] \in Nat
  BY <1>1, <1>2, <1>6, <1>8
<1> QED
  BY <1>6, <1>7, <1>9, <1>10

(* Two arenas that hold the parents of what they hold, agree on what they  *)
(* share and have the same frontier are the same: the newest node held by  *)
(* only one of them would be in its frontier.                              *)
LEMMA SameFrontierSameNodes ==
  ASSUME NEW A, IsDag(A), NEW B, IsDag(B),
         \A h \in DOMAIN A \cap DOMAIN B : A[h] = B[h],
         \A h \in DOMAIN B : B[h] \subseteq DOMAIN B,
         Frontier(A) \subseteq DOMAIN B
  PROVE  DOMAIN A \subseteq DOMAIN B
<1> DEFINE Bad == DOMAIN A \ DOMAIN B
<1>1. SUFFICES ASSUME Bad # {} PROVE FALSE
  OBVIOUS
<1>2. PICK h \in Bad : \A y \in Bad : h >= y
  <2>1. Bad \in SUBSET Nat /\ IsFiniteSet(Bad)
    BY FS_Subset DEF IsDag
  <2> HIDE DEF Bad
  <2> QED
    BY <1>1, <2>1, GreatestIs
<1>3. PICK c \in Children(A, h) : TRUE
  BY <1>2 DEF Frontier
<1>4. c \in DOMAIN A /\ h \in A[c] /\ c \in Nat /\ h \in Nat /\ h < c
  BY <1>2, <1>3, ChildrenFollow DEF Children, IsDag
<1>5. c \in DOMAIN B
  BY <1>2, <1>4
<1> QED
  BY <1>2, <1>4, <1>5
=============================================================================
