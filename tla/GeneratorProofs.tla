-------------------------- MODULE GeneratorProofs ---------------------------
(***************************************************************************)
(* Proofs about the queue that DependencyGraph generates from the trees of *)
(* NodeGraph, for any finite set of nodes: it has the synths of the tree,  *)
(* in the order of the tree, and never more items than there is room for.  *)
(* The argument compares three plans, which are nested blocks in an order: *)
(* that of all nodes, that of the groups the generator visits and the runs *)
(* of synths in them, and the queue it makes of the latter.                *)
(***************************************************************************)
EXTENDS ParallelProofs, FunctionTheorems

(* A plan: blocks, each but the root in a parent, and the ones that share a *)
(* sequential parent in an order.  A block with no block in it is a leaf.  *)
Plan(B) ==
    /\ IsFiniteSet(B.blocks) /\ B.leaves \subseteq B.blocks
    /\ Root \in B.blocks /\ Root \notin B.leaves /\ B.parent[Root] \notin B.blocks
    /\ B.seq \subseteq B.blocks
    /\ \A n \in B.blocks : n # Root => B.parent[n] \in B.blocks \ B.leaves
    /\ \A S \in SUBSET B.blocks :
          Root \in S /\ (\A c \in B.blocks : B.parent[c] \in S => c \in S) => B.blocks \subseteq S
    /\ \A n \in B.blocks : B.at[n] \in Nat
    /\ \A m, n \in B.blocks : B.parent[m] = B.parent[n] /\ B.at[m] = B.at[n] => m = n
    /\ \A n \in B.blocks \ B.leaves : \E c \in B.blocks : B.parent[c] = n

\* Block m comes before block n of the same sequential group.
Before(B, m, n) ==
    /\ m \in B.blocks /\ n \in B.blocks
    /\ B.parent[m] = B.parent[n] /\ B.parent[m] \in B.seq /\ B.at[m] < B.at[n]
NextTo(B, n) ==
    {m \in B.blocks : Before(B, n, m) /\ \A c \in B.blocks : Before(B, n, c) => B.at[m] <= B.at[c]}
PrevTo(B, n) == {m \in B.blocks : n \in NextTo(B, m)}

\* What is reached from n through the children in C.
Closure(B, C, n) ==
    {m \in B.blocks : \A S \in SUBSET B.blocks :
        n \in S /\ (\A c \in C : B.parent[c] \in S => c \in S) => m \in S}
Within(B, n) == Closure(B, B.blocks, n)
Lasts(B)     == {c \in B.blocks : NextTo(B, c) = {}}
Firsts(B)    == {c \in B.blocks : PrevTo(B, c) = {}}

LEMMA ClosureFacts ==
  ASSUME NEW B, NEW C \in SUBSET B.blocks, NEW n \in B.blocks
  PROVE  /\ Closure(B, C, n) \subseteq B.blocks /\ n \in Closure(B, C, n)
         /\ \A c \in C : B.parent[c] \in Closure(B, C, n) => c \in Closure(B, C, n)
         /\ \A S \in SUBSET B.blocks :
               n \in S /\ (\A c \in C : B.parent[c] \in S => c \in S) => Closure(B, C, n) \subseteq S
         /\ \A m \in Closure(B, C, n) : m # n => m \in C /\ B.parent[m] \in Closure(B, C, n)
  <1>1. Closure(B, C, n) \subseteq B.blocks /\ n \in Closure(B, C, n)
    BY DEF Closure
  <1>2. \A c \in C : B.parent[c] \in Closure(B, C, n) => c \in Closure(B, C, n)
    BY DEF Closure
  <1>3. \A S \in SUBSET B.blocks :
           n \in S /\ (\A c \in C : B.parent[c] \in S => c \in S) => Closure(B, C, n) \subseteq S
    BY DEF Closure
  <1>4. ASSUME NEW m \in Closure(B, C, n), m # n
        PROVE  m \in C /\ B.parent[m] \in Closure(B, C, n)
    <2>1. SUFFICES ASSUME ~(m \in C /\ B.parent[m] \in Closure(B, C, n)) PROVE FALSE
      OBVIOUS
    <2>2. PICK S : S = Closure(B, C, n) \ {m}
      OBVIOUS
    <2>3. S \in SUBSET B.blocks /\ n \in S
      BY <1>1, <1>4, <2>2
    <2>4. \A c \in C : B.parent[c] \in S => c \in S
      BY <1>2, <2>1, <2>2
    <2> QED BY <1>3, <1>4, <2>2, <2>3, <2>4
  <1> QED BY <1>1, <1>2, <1>3, <1>4

LEMMA ClosureOn ==
  ASSUME NEW B, NEW C \in SUBSET B.blocks, NEW n \in B.blocks, NEW m \in Closure(B, C, n)
  PROVE  Closure(B, C, m) \subseteq Closure(B, C, n) /\ Closure(B, C, n) \subseteq Within(B, n)
  <1>1. m \in B.blocks
    BY ClosureFacts
  <1>2. Closure(B, C, m) \subseteq Closure(B, C, n)
    <2>1. Closure(B, C, n) \in SUBSET B.blocks /\ m \in Closure(B, C, n)
      BY ClosureFacts
    <2>2. \A c \in C : B.parent[c] \in Closure(B, C, n) => c \in Closure(B, C, n)
      BY ClosureFacts
    <2> QED BY <1>1, <2>1, <2>2, ClosureFacts
  <1>3. Closure(B, C, n) \subseteq Within(B, n)
    <2>1. B.blocks \in SUBSET B.blocks
      OBVIOUS
    <2>2. Within(B, n) \in SUBSET B.blocks /\ n \in Within(B, n)
      BY <2>1, ClosureFacts DEF Within
    <2>3. \A c \in C : B.parent[c] \in Within(B, n) => c \in Within(B, n)
      BY <2>1, ClosureFacts DEF Within
    <2> QED BY <2>2, <2>3, ClosureFacts
  <1> QED BY <1>2, <1>3

LEMMA WithinFacts ==
  ASSUME NEW B, NEW n \in B.blocks
  PROVE  /\ Within(B, n) \subseteq B.blocks /\ n \in Within(B, n)
         /\ \A c \in B.blocks : B.parent[c] \in Within(B, n) => c \in Within(B, n)
         /\ \A S \in SUBSET B.blocks :
               n \in S /\ (\A c \in B.blocks : B.parent[c] \in S => c \in S) => Within(B, n) \subseteq S
         /\ \A m \in Within(B, n) : m # n => B.parent[m] \in Within(B, n)
         /\ \A m \in Within(B, n) : Within(B, m) \subseteq Within(B, n)
  <1>1. B.blocks \in SUBSET B.blocks
    OBVIOUS
  <1>2. \A m \in Within(B, n) : Within(B, m) \subseteq Within(B, n)
    BY <1>1, ClosureOn DEF Within
  <1> QED BY <1>1, <1>2, ClosureFacts DEF Within

(* A block is in none of its children, and its children have nothing in    *)
(* common.                                                                 *)
LEMMA Nested ==
  ASSUME NEW B, Plan(B), NEW c \in B.blocks, B.parent[c] \in B.blocks
  PROVE  B.parent[c] \notin Within(B, c)
  <1> DEFINE S == {n \in B.blocks : \A d \in B.blocks : B.parent[d] = n => n \notin Within(B, d)}
  <1>1. Root \in S
    <2> SUFFICES ASSUME NEW d \in B.blocks, B.parent[d] = Root, Root \in Within(B, d) PROVE FALSE
      BY DEF Plan
    <2>1. Root = d
      BY WithinFacts DEF Plan
    <2> QED BY <2>1 DEF Plan
  <1>2. \A n \in B.blocks : B.parent[n] \in S => n \in S
    <2> SUFFICES ASSUME NEW n \in B.blocks, B.parent[n] \in S,
                        NEW d \in B.blocks, B.parent[d] = n, n \in Within(B, d)
                 PROVE  FALSE
      OBVIOUS
    <2>1. B.parent[n] \notin Within(B, n)
      OBVIOUS
    <2>2. d \in Within(B, n)
      BY WithinFacts
    <2>3. n # d
      <3> SUFFICES ASSUME n = d PROVE FALSE
        OBVIOUS
      <3> QED BY <2>1, WithinFacts
    <2>4. B.parent[n] \in Within(B, d)
      BY <2>3, WithinFacts
    <2> QED BY <2>1, <2>2, <2>4, WithinFacts
  <1>3. S \in SUBSET B.blocks
    OBVIOUS
  <1> HIDE DEF S
  <1>4. B.blocks \subseteq S
    BY <1>1, <1>2, <1>3 DEF Plan
  <1> QED BY <1>4 DEF S

LEMMA Comparable ==
  ASSUME NEW B, NEW m \in B.blocks, NEW n \in B.blocks, NEW x \in Within(B, m), x \in Within(B, n)
  PROVE  m \in Within(B, n) \/ n \in Within(B, m)
  <1> SUFFICES ASSUME m \notin Within(B, n), n \notin Within(B, m) PROVE FALSE
    OBVIOUS
  <1>1. PICK S : S = Within(B, m) \ Within(B, n)
    OBVIOUS
  <1>2. S \in SUBSET B.blocks /\ m \in S
    BY <1>1, WithinFacts
  <1>3. \A c \in B.blocks : B.parent[c] \in S => c \in S
    BY <1>1, WithinFacts
  <1>4. Within(B, m) \subseteq S
    BY <1>2, <1>3, WithinFacts
  <1> QED BY <1>1, <1>4

LEMMA Apartness ==
  ASSUME NEW B, Plan(B), NEW m \in B.blocks, NEW n \in B.blocks, m # n,
         B.parent[m] = B.parent[n], B.parent[m] \in B.blocks
  PROVE  Within(B, m) \cap Within(B, n) = {}
  <1> SUFFICES ASSUME NEW x \in Within(B, m), x \in Within(B, n) PROVE FALSE
    OBVIOUS
  <1>1. m \in Within(B, n) \/ n \in Within(B, m)
    BY Comparable
  <1>2. B.parent[m] \in Within(B, n) \/ B.parent[n] \in Within(B, m)
    BY <1>1, WithinFacts
  <1> QED BY <1>2, Nested

(* What holds of a block when it holds of its children holds of all.       *)
LEMMA Upward ==
  ASSUME NEW B, Plan(B), NEW S \in SUBSET B.blocks,
         \A n \in B.blocks : (\A c \in B.blocks : B.parent[c] = n => c \in S) => n \in S
  PROVE  S = B.blocks
  <1> SUFFICES ASSUME S # B.blocks PROVE FALSE
    OBVIOUS
  <1>1. PICK b \in B.blocks \ S : TRUE
    OBVIOUS
  <1>2. \A n \in B.blocks : IsFiniteSet(Within(B, n)) /\ Cardinality(Within(B, n)) \in Nat
    BY WithinFacts, FS_Subset, FS_CardinalityType DEF Plan
  <1> DEFINE size(x) == Cardinality(Within(B, x))
             K == {size(x) : x \in B.blocks \ S}
  <1>3. K \subseteq Nat /\ K # {} /\ \A x \in B.blocks \ S : size(x) \in K
    BY <1>1, <1>2
  <1>4. \A l \in K : \E x \in B.blocks \ S : size(x) = l
    OBVIOUS
  <1> HIDE DEF K
  <1>5. PICK k \in K : \A l \in K : k <= l
    BY <1>3, LeastNat
  <1>6. PICK n \in B.blocks \ S : size(n) = k
    BY <1>4, <1>5
  <1>7. PICK c \in B.blocks \ S : B.parent[c] = n
    BY <1>6
  <1>8. Within(B, c) \subseteq Within(B, n) /\ n \in Within(B, n) /\ n \notin Within(B, c)
    BY <1>6, <1>7, WithinFacts, Nested
  <1>9. Within(B, c) # Within(B, n)
    BY <1>8
  <1>10. size(c) < size(n)
    BY SMTT(40), <1>2, <1>6, <1>8, <1>9, FS_Subset
  <1>11. size(c) \in K
    BY <1>3, <1>7
  <1> QED BY <1>2, <1>5, <1>6, <1>7, <1>10, <1>11

(* The order of siblings.                                                  *)
LEMMA Siblings ==
  ASSUME NEW B, Plan(B), NEW m \in B.blocks, NEW n \in B.blocks
  PROVE  /\ m \in NextTo(B, n) => Before(B, n, m) /\ NextTo(B, n) = {m}
         /\ Before(B, n, m) => NextTo(B, n) # {} /\ PrevTo(B, m) # {}
         /\ m \in PrevTo(B, n) <=>
               Before(B, m, n) /\ \A c \in B.blocks : Before(B, c, n) => B.at[c] <= B.at[m]
         /\ m \in PrevTo(B, n) => PrevTo(B, n) = {m}
         /\ NextTo(B, Root) = {} /\ PrevTo(B, Root) = {}
         /\ B.parent[n] \notin B.seq => NextTo(B, n) = {} /\ PrevTo(B, n) = {}
         /\ B.parent[m] = B.parent[n] /\ B.parent[m] \in B.seq =>
               m = n \/ Before(B, m, n) \/ Before(B, n, m)
  <1>1. \A x \in B.blocks : B.at[x] \in Nat
    BY DEF Plan
  <1>2. \A x, y \in B.blocks : B.parent[x] = B.parent[y] /\ B.at[x] = B.at[y] => x = y
    BY DEF Plan
  <1>3. m \in NextTo(B, n) => Before(B, n, m) /\ NextTo(B, n) = {m}
    BY <1>1, <1>2 DEF NextTo, Before
  <1>4. ASSUME NEW x \in B.blocks, NEW y \in B.blocks, Before(B, x, y) PROVE NextTo(B, x) # {}
    <2> DEFINE K == {B.at[c] : c \in {c \in B.blocks : Before(B, x, c)}}
    <2>1. K \subseteq Nat /\ B.at[y] \in K
      BY <1>1, <1>4
    <2>2. \A k \in K : \E c \in B.blocks : Before(B, x, c) /\ B.at[c] = k
      OBVIOUS
    <2>3. \A c \in B.blocks : Before(B, x, c) => B.at[c] \in K
      OBVIOUS
    <2> HIDE DEF K
    <2>4. PICK k \in K : \A l \in K : k <= l
      BY <2>1, LeastNat
    <2> QED BY <2>2, <2>3, <2>4 DEF NextTo
  <1>5. ASSUME NEW x \in B.blocks, NEW y \in B.blocks
        PROVE  x \in PrevTo(B, y) <=>
               Before(B, x, y) /\ \A c \in B.blocks : Before(B, c, y) => B.at[c] <= B.at[x]
    <2>1. ASSUME x \in PrevTo(B, y), NEW c \in B.blocks, Before(B, c, y) PROVE B.at[c] <= B.at[x]
      <3>1. Before(B, x, y) /\ \A d \in B.blocks : Before(B, x, d) => B.at[y] <= B.at[d]
        BY <2>1 DEF PrevTo, NextTo
      <3>2. ~Before(B, x, c)
        BY <1>1, <2>1, <3>1 DEF Before
      <3> QED BY <1>1, <2>1, <3>1, <3>2 DEF Before
    <2>2. ASSUME Before(B, x, y), \A c \in B.blocks : Before(B, c, y) => B.at[c] <= B.at[x]
          PROVE  x \in PrevTo(B, y)
      <3>1. ASSUME NEW d \in B.blocks, Before(B, x, d) PROVE B.at[y] <= B.at[d]
        <4>1. ~Before(B, d, y)
          BY <1>1, <2>2, <3>1 DEF Before
        <4> QED BY <1>1, <2>2, <3>1, <4>1 DEF Before
      <3> QED BY <2>2, <3>1 DEF PrevTo, NextTo
    <2>3. x \in PrevTo(B, y) => Before(B, x, y)
      BY DEF PrevTo, NextTo
    <2> QED BY <2>1, <2>2, <2>3
  <1>6. m \in PrevTo(B, n) => PrevTo(B, n) = {m}
    <2> SUFFICES ASSUME m \in PrevTo(B, n), NEW x \in PrevTo(B, n) PROVE x = m
      OBVIOUS
    <2>1. x \in B.blocks
      BY DEF PrevTo
    <2>2. Before(B, m, n) /\ Before(B, x, n) /\ B.at[x] <= B.at[m] /\ B.at[m] <= B.at[x]
      BY <1>5, <2>1
    <2> QED BY <1>1, <1>2, <2>1, <2>2 DEF Before
  <1>7. ASSUME NEW x \in B.blocks, NEW y \in B.blocks, Before(B, x, y) PROVE PrevTo(B, y) # {}
    <2>1. B.at[y] \in Nat /\ \A c \in B.blocks : Before(B, c, y) => B.at[c] \in 0 .. B.at[y]
      BY <1>1 DEF Before
    <2> DEFINE K == {B.at[y] - B.at[c] : c \in {c \in B.blocks : Before(B, c, y)}}
    <2>2. K \subseteq Nat /\ B.at[y] - B.at[x] \in K
      BY <1>1, <1>7, <2>1
    <2>3. \A k \in K : \E c \in B.blocks : Before(B, c, y) /\ B.at[y] - B.at[c] = k
      OBVIOUS
    <2>4. \A c \in B.blocks : Before(B, c, y) => B.at[y] - B.at[c] \in K
      OBVIOUS
    <2> HIDE DEF K
    <2>5. PICK k \in K : \A l \in K : k <= l
      BY <2>2, LeastNat
    <2>6. PICK c \in B.blocks : Before(B, c, y) /\ B.at[y] - B.at[c] = k
      BY <2>3, <2>5
    <2>7. \A d \in B.blocks : Before(B, d, y) => B.at[d] <= B.at[c]
      BY <1>1, <2>4, <2>5, <2>6
    <2> QED BY <1>5, <2>6, <2>7
  <1>8. B.parent[n] \notin B.seq => NextTo(B, n) = {} /\ PrevTo(B, n) = {}
    BY DEF NextTo, PrevTo, Before
  <1>9. NextTo(B, Root) = {} /\ PrevTo(B, Root) = {}
    BY DEF NextTo, PrevTo, Before, Plan
  <1>10. B.parent[m] = B.parent[n] /\ B.parent[m] \in B.seq =>
             m = n \/ Before(B, m, n) \/ Before(B, n, m)
    BY <1>1, <1>2 DEF Before
  <1> QED BY <1>3, <1>4, <1>5, <1>6, <1>7, <1>8, <1>9, <1>10

(* What a block gets from the block after it or, if there is none, from    *)
(* its parent.                                                             *)
Chain(B, C, nx, V, n) ==
    UNION {UNION {V[k] : k \in nx[m]} : m \in {m \in B.blocks : n \in Closure(B, C, m)}}

Chained(B, C, nx) ==
    C \in SUBSET B.blocks /\ nx[Root] = {} /\ \A c \in B.blocks : c \in C <=> nx[c] = {}

LEMMA ChainMember ==
  ASSUME NEW B, NEW nx, NEW V, NEW C, NEW n, NEW x
  PROVE  x \in Chain(B, C, nx, V, n) <=>
            \E m \in B.blocks : n \in Closure(B, C, m) /\ \E k \in nx[m] : x \in V[k]
  <1> DEFINE U(m) == UNION {V[k] : k \in nx[m]}
             M == {m \in B.blocks : n \in Closure(B, C, m)}
  <1>1. \A m : x \in U(m) <=> \E k \in nx[m] : x \in V[k]
    OBVIOUS
  <1>2. \A m : m \in M <=> m \in B.blocks /\ n \in Closure(B, C, m)
    OBVIOUS
  <1>3. Chain(B, C, nx, V, n) = UNION {U(m) : m \in M}
    BY DEF Chain
  <1> HIDE DEF U, M
  <1>4. x \in UNION {U(m) : m \in M} <=> \E m \in M : x \in U(m)
    OBVIOUS
  <1> QED BY <1>1, <1>2, <1>3, <1>4

LEMMA ChainFacts ==
  ASSUME NEW B, Plan(B), NEW nx, NEW V, NEW C, Chained(B, C, nx)
  PROVE  /\ Chain(B, C, nx, V, Root) = {}
         /\ \A n \in B.blocks : n # Root =>
               Chain(B, C, nx, V, n) =
                  IF nx[n] = {} THEN Chain(B, C, nx, V, B.parent[n]) ELSE UNION {V[k] : k \in nx[n]}
  <1>1. /\ Root \in B.blocks /\ B.parent[Root] \notin B.blocks
        /\ C \in SUBSET B.blocks /\ nx[Root] = {} /\ \A c \in B.blocks : c \in C <=> nx[c] = {}
    BY DEF Plan, Chained
  <1>2. \A n : \A x : x \in Chain(B, C, nx, V, n) <=>
           \E m \in B.blocks : n \in Closure(B, C, m) /\ \E k \in nx[m] : x \in V[k]
    BY ChainMember
  <1>3. Chain(B, C, nx, V, Root) = {}
    <2> SUFFICES ASSUME NEW x \in Chain(B, C, nx, V, Root) PROVE FALSE
      OBVIOUS
    <2>1. PICK m \in B.blocks : Root \in Closure(B, C, m) /\ \E k \in nx[m] : x \in V[k]
      BY <1>2
    <2>2. m = Root
      <3> SUFFICES ASSUME m # Root PROVE FALSE
        OBVIOUS
      <3>1. B.parent[Root] \in Closure(B, C, m) /\ Closure(B, C, m) \subseteq B.blocks
        BY <1>1, <2>1, ClosureFacts
      <3> QED BY <1>1, <3>1
    <2> QED BY <1>1, <2>1, <2>2
  <1>4. ASSUME NEW n \in B.blocks, n # Root, nx[n] # {}
        PROVE  Chain(B, C, nx, V, n) = UNION {V[k] : k \in nx[n]}
    <2>1. ASSUME NEW m \in B.blocks PROVE n \in Closure(B, C, m) <=> m = n
      <3>1. n \notin C
        BY <1>1, <1>4
      <3> QED BY <1>1, <3>1, ClosureFacts
    <2>2. \A x : x \in Chain(B, C, nx, V, n) <=> \E k \in nx[n] : x \in V[k]
      BY <1>2, <2>1
    <2> QED BY <2>2
  <1>5. ASSUME NEW n \in B.blocks, n # Root, nx[n] = {}
        PROVE  Chain(B, C, nx, V, n) = Chain(B, C, nx, V, B.parent[n])
    <2>1. n \in C /\ B.parent[n] \in B.blocks
      BY <1>1, <1>5 DEF Plan
    <2>2. ASSUME NEW m \in B.blocks, m # n
          PROVE  n \in Closure(B, C, m) <=> B.parent[n] \in Closure(B, C, m)
      BY <1>1, <2>1, <2>2, ClosureFacts
    <2>3. \A x : x \in Chain(B, C, nx, V, n) <=> x \in Chain(B, C, nx, V, B.parent[n])
      BY <1>2, <1>5, <2>2
    <2> QED BY <2>3
  <1> QED BY <1>3, <1>4, <1>5

(* The leaves a block begins and ends with, those that follow it, and the  *)
(* ones it follows.                                                        *)
FirstLeaves(B, n) == Closure(B, Firsts(B), n) \cap B.leaves
LastLeaves(B, n)  == Closure(B, Lasts(B), n) \cap B.leaves
Follow(B, n) == Chain(B, Lasts(B), [x \in B.blocks |-> NextTo(B, x)],
                      [x \in B.blocks |-> FirstLeaves(B, x)], n)
Lead(B, n) == Chain(B, Firsts(B), [x \in B.blocks |-> PrevTo(B, x)],
                    [x \in B.blocks |-> LastLeaves(B, x)], n)

LEMMA FollowFacts ==
  ASSUME NEW B, Plan(B)
  PROVE  /\ Follow(B, Root) = {}
         /\ \A n \in B.blocks : n # Root /\ NextTo(B, n) = {} => Follow(B, n) = Follow(B, B.parent[n])
         /\ \A n \in B.blocks : \A m \in NextTo(B, n) : Follow(B, n) = FirstLeaves(B, m)
         /\ \A n : \A x : x \in Follow(B, n) <=>
               \E m \in B.blocks : n \in Closure(B, Lasts(B), m) /\
                  \E k \in NextTo(B, m) : x \in FirstLeaves(B, k)
  <1> DEFINE nx == [x \in B.blocks |-> NextTo(B, x)]
             V  == [x \in B.blocks |-> FirstLeaves(B, x)]
  <1>1. /\ Root \in B.blocks /\ Lasts(B) \in SUBSET B.blocks
        /\ \A n \in B.blocks : nx[n] = NextTo(B, n) /\ V[n] = FirstLeaves(B, n)
        /\ \A n \in B.blocks : n \in Lasts(B) <=> nx[n] = {}
        /\ \A n : NextTo(B, n) \subseteq B.blocks
    BY DEF Plan, Lasts, NextTo
  <1>2. NextTo(B, Root) = {}
    BY <1>1, Siblings
  <1>3. \A n : Follow(B, n) = Chain(B, Lasts(B), nx, V, n)
    BY DEF Follow
  <1> HIDE DEF nx, V
  <1>4. nx[Root] = {}
    BY <1>1, <1>2
  <1>8. Chained(B, Lasts(B), nx)
    BY <1>1, <1>4 DEF Chained
  <1>5. /\ Chain(B, Lasts(B), nx, V, Root) = {}
        /\ \A n \in B.blocks : n # Root =>
              Chain(B, Lasts(B), nx, V, n) =
                 IF nx[n] = {} THEN Chain(B, Lasts(B), nx, V, B.parent[n]) ELSE UNION {V[k] : k \in nx[n]}
    BY <1>8, ChainFacts
  <1>6. ASSUME NEW n \in B.blocks, NEW m \in NextTo(B, n) PROVE Follow(B, n) = FirstLeaves(B, m)
    <2>1. n # Root /\ nx[n] = {m} /\ m \in B.blocks
      BY <1>1, <1>2, <1>6, Siblings
    <2>2. Follow(B, n) = UNION {V[k] : k \in nx[n]}
      BY <1>3, <1>5, <2>1
    <2>3. UNION {V[k] : k \in {m}} = V[m]
      OBVIOUS
    <2> QED BY <1>1, <2>1, <2>2, <2>3
  <1>7. ASSUME NEW n, NEW x
        PROVE  x \in Follow(B, n) <=>
                 \E m \in B.blocks : n \in Closure(B, Lasts(B), m) /\
                    \E k \in NextTo(B, m) : x \in FirstLeaves(B, k)
    <2>1. x \in Follow(B, n) <=>
             \E m \in B.blocks : n \in Closure(B, Lasts(B), m) /\ \E k \in nx[m] : x \in V[k]
      BY <1>3, ChainMember
    <2> QED BY <1>1, <2>1
  <1> QED BY <1>1, <1>3, <1>5, <1>6, <1>7

LEMMA LeadFacts ==
  ASSUME NEW B, Plan(B)
  PROVE  /\ Lead(B, Root) = {}
         /\ \A n \in B.blocks : n # Root /\ PrevTo(B, n) = {} => Lead(B, n) = Lead(B, B.parent[n])
         /\ \A n \in B.blocks : \A m \in PrevTo(B, n) : Lead(B, n) = LastLeaves(B, m)
         /\ \A n : \A x : x \in Lead(B, n) <=>
               \E m \in B.blocks : n \in Closure(B, Firsts(B), m) /\
                  \E k \in PrevTo(B, m) : x \in LastLeaves(B, k)
  <1> DEFINE nx == [x \in B.blocks |-> PrevTo(B, x)]
             V  == [x \in B.blocks |-> LastLeaves(B, x)]
  <1>1. /\ Root \in B.blocks /\ Firsts(B) \in SUBSET B.blocks
        /\ \A n \in B.blocks : nx[n] = PrevTo(B, n) /\ V[n] = LastLeaves(B, n)
        /\ \A n \in B.blocks : n \in Firsts(B) <=> nx[n] = {}
        /\ \A n : PrevTo(B, n) \subseteq B.blocks
    BY DEF Plan, Firsts, PrevTo
  <1>2. PrevTo(B, Root) = {}
    BY <1>1, Siblings
  <1>3. \A n : Lead(B, n) = Chain(B, Firsts(B), nx, V, n)
    BY DEF Lead
  <1> HIDE DEF nx, V
  <1>4. nx[Root] = {}
    BY <1>1, <1>2
  <1>8. Chained(B, Firsts(B), nx)
    BY <1>1, <1>4 DEF Chained
  <1>5. /\ Chain(B, Firsts(B), nx, V, Root) = {}
        /\ \A n \in B.blocks : n # Root =>
              Chain(B, Firsts(B), nx, V, n) =
                 IF nx[n] = {} THEN Chain(B, Firsts(B), nx, V, B.parent[n]) ELSE UNION {V[k] : k \in nx[n]}
    BY <1>8, ChainFacts
  <1>6. ASSUME NEW n \in B.blocks, NEW m \in PrevTo(B, n) PROVE Lead(B, n) = LastLeaves(B, m)
    <2>1. n # Root /\ nx[n] = {m} /\ m \in B.blocks
      BY <1>1, <1>2, <1>6, Siblings
    <2>2. Lead(B, n) = UNION {V[k] : k \in nx[n]}
      BY <1>3, <1>5, <2>1
    <2>3. UNION {V[k] : k \in {m}} = V[m]
      OBVIOUS
    <2> QED BY <1>1, <2>1, <2>2, <2>3
  <1>7. ASSUME NEW n, NEW x
        PROVE  x \in Lead(B, n) <=>
                 \E m \in B.blocks : n \in Closure(B, Firsts(B), m) /\
                    \E k \in PrevTo(B, m) : x \in LastLeaves(B, k)
    <2>1. x \in Lead(B, n) <=>
             \E m \in B.blocks : n \in Closure(B, Firsts(B), m) /\ \E k \in nx[m] : x \in V[k]
      BY <1>3, ChainMember
    <2> QED BY <1>1, <2>1
  <1> QED BY <1>1, <1>3, <1>5, <1>6, <1>7

(* A leaf follows the leaves that lead to it.                              *)
LEMMA Duality ==
  ASSUME NEW B, Plan(B), NEW i \in B.leaves, NEW j \in B.leaves
  PROVE  j \in Follow(B, i) <=> i \in Lead(B, j)
  <1>1. j \in Follow(B, i) <=>
           \E m, k \in B.blocks : /\ i \in Closure(B, Lasts(B), m) /\ k \in NextTo(B, m)
                                  /\ j \in Closure(B, Firsts(B), k)
    BY FollowFacts DEF FirstLeaves, NextTo
  <1>2. i \in Lead(B, j) <=>
           \E m, k \in B.blocks : /\ j \in Closure(B, Firsts(B), k) /\ m \in PrevTo(B, k)
                                  /\ i \in Closure(B, Lasts(B), m)
    BY LeadFacts DEF LastLeaves, PrevTo
  <1> QED BY <1>1, <1>2 DEF PrevTo

(* The order of the leaves: they part in a sequential group.               *)
Ahead(B, x, y) ==
    \E m, n \in B.blocks : Before(B, m, n) /\ x \in Within(B, m) /\ y \in Within(B, n)

LEMMA AheadOrder ==
  ASSUME NEW B, Plan(B)
  PROVE  /\ \A x : ~Ahead(B, x, x)
         /\ \A x, y, z : Ahead(B, x, y) /\ Ahead(B, y, z) => Ahead(B, x, z)
  <1>1. \A n \in B.blocks : B.at[n] \in Nat
    BY DEF Plan
  <1>2. \A m, n \in B.blocks : Before(B, m, n) =>
            m # n /\ B.parent[m] = B.parent[n] /\ B.parent[m] \in B.blocks
    BY <1>1 DEF Before, Plan
  <1>3. ASSUME NEW x, Ahead(B, x, x) PROVE FALSE
    <2>1. PICK m \in B.blocks, n \in B.blocks :
             Before(B, m, n) /\ x \in Within(B, m) /\ x \in Within(B, n)
      BY <1>3 DEF Ahead
    <2> QED BY <1>2, <2>1, Apartness
  <1>4. ASSUME NEW x, NEW y, NEW z, Ahead(B, x, y), Ahead(B, y, z) PROVE Ahead(B, x, z)
    <2>1. PICK m \in B.blocks, n \in B.blocks :
             Before(B, m, n) /\ x \in Within(B, m) /\ y \in Within(B, n)
      BY <1>4 DEF Ahead
    <2>2. PICK k \in B.blocks, l \in B.blocks :
             Before(B, k, l) /\ y \in Within(B, k) /\ z \in Within(B, l)
      BY <1>4 DEF Ahead
    <2>3. CASE k = n
      <3>1. Before(B, m, l)
        BY <1>1, <2>1, <2>2, <2>3 DEF Before
      <3> QED BY <2>1, <2>2, <3>1 DEF Ahead
    <2>4. CASE k # n /\ n \in Within(B, k)
      <3>1. B.parent[m] \in Within(B, k)
        BY <1>2, <2>1, <2>4, WithinFacts
      <3>2. m \in Within(B, k)
        BY <3>1, WithinFacts
      <3>3. x \in Within(B, k)
        BY <2>1, <3>2, WithinFacts
      <3> QED BY <2>2, <3>3 DEF Ahead
    <2>5. CASE k # n /\ k \in Within(B, n)
      <3>1. B.parent[l] \in Within(B, n)
        BY <1>2, <2>2, <2>5, WithinFacts
      <3>2. l \in Within(B, n)
        BY <3>1, WithinFacts
      <3>3. z \in Within(B, n)
        BY <2>2, <3>2, WithinFacts
      <3> QED BY <2>1, <3>3 DEF Ahead
    <2>6. n \in Within(B, k) \/ k \in Within(B, n)
      BY <2>1, <2>2, Comparable
    <2> QED BY <2>3, <2>4, <2>5, <2>6
  <1> QED BY <1>3, <1>4

LEMMA FollowAhead ==
  ASSUME NEW B, Plan(B), NEW i, NEW j \in Follow(B, i)
  PROVE  Ahead(B, i, j) /\ j \in B.leaves
  <1>1. PICK m \in B.blocks : i \in Closure(B, Lasts(B), m) /\ \E k \in NextTo(B, m) : j \in FirstLeaves(B, k)
    BY FollowFacts
  <1>2. PICK k \in NextTo(B, m) : j \in FirstLeaves(B, k)
    BY <1>1
  <1>3. k \in B.blocks /\ Before(B, m, k) /\ j \in B.leaves /\ j \in Closure(B, Firsts(B), k)
    BY <1>2 DEF NextTo, FirstLeaves
  <1>4. Lasts(B) \in SUBSET B.blocks /\ Firsts(B) \in SUBSET B.blocks
    BY DEF Lasts, Firsts
  <1>5. i \in Within(B, m)
    BY <1>1, <1>4, ClosureOn
  <1>6. j \in Within(B, k)
    BY <1>3, <1>4, ClosureOn
  <1> QED BY <1>3, <1>5, <1>6 DEF Ahead

(* What is inside a block is inside one of its children.                   *)
LEMMA WithinChild ==
  ASSUME NEW B, NEW n \in B.blocks, NEW x \in Within(B, n), x # n
  PROVE  \E c \in B.blocks : B.parent[c] = n /\ x \in Within(B, c)
  <1> DEFINE K == {c \in B.blocks : B.parent[c] = n}
             S == {m \in B.blocks : m = n \/ \E c \in K : m \in Within(B, c)}
  <1>1. n \in S /\ S \in SUBSET B.blocks
    OBVIOUS
  <1>2. \A c \in B.blocks : B.parent[c] \in S => c \in S
    <2> SUFFICES ASSUME NEW c \in B.blocks, B.parent[c] \in S PROVE c \in S
      OBVIOUS
    <2>1. CASE B.parent[c] = n
      BY <2>1, WithinFacts
    <2>2. CASE \E d \in K : B.parent[c] \in Within(B, d)
      BY <2>2, WithinFacts
    <2> QED BY <2>1, <2>2
  <1>3. x \in S
    <2> HIDE DEF S
    <2> QED BY <1>1, <1>2, WithinFacts
  <1> QED BY <1>3

(* Of the children of a block one is last.                                 *)
LEMMA LastChild ==
  ASSUME NEW B, Plan(B), NEW K \in SUBSET B.blocks, K # {}
  PROVE  \E c \in K : \A d \in K : B.at[d] <= B.at[c]
  <1> DEFINE U(c) == {d \in K : B.at[c] <= B.at[d]}
             C == {U(c) : c \in K}
  <1>1. \A n \in B.blocks : B.at[n] \in Nat
    BY DEF Plan
  <1>2. C \in SUBSET (SUBSET B.blocks) /\ C # {}
    OBVIOUS
  <1>6. IsFiniteSet(B.blocks)
    BY DEF Plan
  <1> HIDE DEF C
  <1>3. PICK X : MinimalIn(X, C)
    BY <1>2, <1>6, MinSubset
  <1>4. PICK c \in K : X = U(c)
    BY <1>3 DEF MinimalIn, C
  <1>5. ASSUME NEW d \in K, ~(B.at[d] <= B.at[c]) PROVE FALSE
    <2>1. U(d) \in C
      BY DEF C
    <2>2. U(d) \subseteq U(c) /\ c \in U(c) /\ c \notin U(d)
      BY <1>1, <1>5
    <2> QED BY <1>3, <1>4, <2>1, <2>2 DEF MinimalIn
  <1> QED BY <1>5

(* A set of leaves that has whatever follows a leaf of it.                 *)
Onward(B, S) == S \subseteq B.leaves /\ \A k \in S : Follow(B, k) \subseteq S

\* It has all of a block, and what follows the block, if it has the block's first.
Passed(B, S, n) ==
    n # Root /\ FirstLeaves(B, n) \subseteq S =>
        Within(B, n) \cap B.leaves \subseteq S /\ Follow(B, n) \subseteq S

LEMMA FirstWithin ==
  ASSUME NEW B, NEW n \in B.blocks, NEW c \in B.blocks, B.parent[c] = n, PrevTo(B, c) = {}
  PROVE  FirstLeaves(B, c) \subseteq FirstLeaves(B, n)
  <1>1. Firsts(B) \in SUBSET B.blocks /\ c \in Firsts(B)
    BY DEF Firsts
  <1>3. /\ n \in Closure(B, Firsts(B), n)
        /\ \A d \in Firsts(B) : B.parent[d] \in Closure(B, Firsts(B), n) => d \in Closure(B, Firsts(B), n)
    BY <1>1 DEF Closure
  <1>2. c \in Closure(B, Firsts(B), n)
    BY <1>1, <1>3
  <1> QED BY <1>1, <1>2, ClosureOn DEF FirstLeaves

LEMMA PassedParallel ==
  ASSUME NEW B, Plan(B), NEW S, Onward(B, S), NEW n \in B.blocks \ B.leaves, n \notin B.seq,
         \A c \in B.blocks : B.parent[c] = n => Passed(B, S, c)
  PROVE  Passed(B, S, n)
  <1> SUFFICES ASSUME n # Root, FirstLeaves(B, n) \subseteq S
               PROVE  Within(B, n) \cap B.leaves \subseteq S /\ Follow(B, n) \subseteq S
    BY DEF Passed
  <1>1. Root \in B.blocks /\ B.parent[Root] \notin B.blocks
    BY DEF Plan
  <1>2. ASSUME NEW c \in B.blocks, B.parent[c] = n
        PROVE  Within(B, c) \cap B.leaves \subseteq S /\ Follow(B, n) \subseteq S
    <2>1. PrevTo(B, c) = {} /\ NextTo(B, c) = {}
      BY <1>2, Siblings
    <2>2. FirstLeaves(B, c) \subseteq S
      BY <1>2, <2>1, FirstWithin
    <2>3. c # Root
      BY <1>1, <1>2
    <2>4. Follow(B, c) = Follow(B, n)
      BY <1>2, <2>1, <2>3, FollowFacts
    <2> QED BY <1>2, <2>2, <2>3, <2>4 DEF Passed
  <1>3. PICK c \in B.blocks : B.parent[c] = n
    BY DEF Plan
  <1>4. Follow(B, n) \subseteq S
    BY <1>2, <1>3
  <1>5. ASSUME NEW x \in Within(B, n), x \in B.leaves PROVE x \in S
    <2>1. PICK d \in B.blocks : B.parent[d] = n /\ x \in Within(B, d)
      BY <1>5, WithinChild
    <2> QED BY <1>2, <1>5, <2>1
  <1> QED BY <1>4, <1>5

(* Along the children of a sequential block: from one the set has passed   *)
(* on to those after it.                                                   *)
LEMMA PassedAlong ==
  ASSUME NEW B, Plan(B), NEW S, NEW z \in B.blocks, Follow(B, z) \subseteq S,
         \A d \in B.blocks : Before(B, z, d) => Passed(B, S, d)
  PROVE  /\ \A d \in B.blocks : Before(B, z, d) =>
               Within(B, d) \cap B.leaves \subseteq S /\ Follow(B, d) \subseteq S
         /\ z # Root => Follow(B, B.parent[z]) \subseteq S
  <1> DEFINE D == {d \in B.blocks : Before(B, z, d)}
             L == {d \in D : ~(FirstLeaves(B, d) \subseteq S)}
  <1>1. /\ Root \in B.blocks /\ B.parent[Root] \notin B.blocks
        /\ \A n \in B.blocks : B.at[n] \in Nat
        /\ \A n \in B.blocks : n # Root => B.parent[n] \in B.blocks
    BY DEF Plan
  <1>2. \A d \in D : d # Root
    BY <1>1 DEF Before
  <1>3. \A d \in D : FirstLeaves(B, d) \subseteq S => Within(B, d) \cap B.leaves \subseteq S /\ Follow(B, d) \subseteq S
    BY <1>2 DEF Passed
  <1>4. L = {}
    <2> SUFFICES ASSUME L # {} PROVE FALSE
      OBVIOUS
    <2> DEFINE T == {B.at[d] : d \in L}
    <2>1. T \subseteq Nat /\ T # {} /\ \A d \in L : B.at[d] \in T
      BY <1>1
    <2>2. \A k \in T : \E d \in L : B.at[d] = k
      OBVIOUS
    <2> HIDE DEF T
    <2>3. PICK k \in T : \A l \in T : k <= l
      BY <2>1, LeastNat
    <2>4. PICK d \in L : B.at[d] = k
      BY <2>2, <2>3
    <2>5. d \in B.blocks /\ Before(B, z, d)
      OBVIOUS
    <2>6. PrevTo(B, d) # {}
      BY <2>5, Siblings
    <2>7. PICK m \in PrevTo(B, d) : TRUE
      BY <2>6
    <2>8. m \in B.blocks /\ d \in NextTo(B, m)
      BY <2>7 DEF PrevTo
    <2>9. Before(B, m, d) /\ \A c \in B.blocks : Before(B, c, d) => B.at[c] <= B.at[m]
      BY <2>5, <2>7, <2>8, Siblings
    <2>10. m = z \/ Before(B, z, m)
      BY <1>1, <2>5, <2>8, <2>9, Siblings DEF Before
    <2>11. Follow(B, m) = FirstLeaves(B, d)
      BY <2>8, FollowFacts
    <2>12. m # z
      BY <2>4, <2>11
    <2>13. m \in D
      BY <2>8, <2>10, <2>12
    <2>14. m \notin L
      BY <1>1, <2>1, <2>3, <2>4, <2>5, <2>8, <2>9 DEF Before
    <2> QED BY <1>3, <2>4, <2>11, <2>13, <2>14
  <1>5. \A d \in D : Within(B, d) \cap B.leaves \subseteq S /\ Follow(B, d) \subseteq S
    BY <1>3, <1>4
  <1>6. ASSUME z # Root PROVE Follow(B, B.parent[z]) \subseteq S
    <2>1. CASE NextTo(B, z) = {}
      BY <1>6, <2>1, FollowFacts
    <2>2. CASE NextTo(B, z) # {}
      <3>1. D # {} /\ D \in SUBSET B.blocks
        BY <2>2 DEF NextTo
      <3> HIDE DEF D
      <3>2. PICK c \in D : \A d \in D : B.at[d] <= B.at[c]
        BY <3>1, LastChild
      <3>3. c \in B.blocks /\ Before(B, z, c)
        BY <3>2 DEF D
      <3>4. \A d \in B.blocks : ~ Before(B, c, d)
        <4> SUFFICES ASSUME NEW d \in B.blocks, Before(B, c, d) PROVE FALSE
          OBVIOUS
        <4>1. Before(B, z, d)
          BY <1>1, <3>3 DEF Before
        <4>2. d \in D
          BY <4>1 DEF D
        <4> QED BY <1>1, <3>2, <3>3, <4>2 DEF Before
      <3>5. NextTo(B, c) = {}
        BY <3>4 DEF NextTo
      <3>6. Follow(B, c) = Follow(B, B.parent[c])
        BY <1>2, <3>2, <3>3, <3>5, FollowFacts
      <3>7. B.parent[c] = B.parent[z]
        BY <3>3 DEF Before
      <3> QED BY <1>5, <3>2, <3>6, <3>7
    <2> QED BY <2>1, <2>2
  <1> QED BY <1>5, <1>6

LEMMA PassedSequential ==
  ASSUME NEW B, Plan(B), NEW S, Onward(B, S), NEW n \in B.blocks \ B.leaves, n \in B.seq,
         \A c \in B.blocks : B.parent[c] = n => Passed(B, S, c)
  PROVE  Passed(B, S, n)
  <1> SUFFICES ASSUME n # Root, FirstLeaves(B, n) \subseteq S
               PROVE  Within(B, n) \cap B.leaves \subseteq S /\ Follow(B, n) \subseteq S
    BY DEF Passed
  <1>1. /\ Root \in B.blocks /\ B.parent[Root] \notin B.blocks
        /\ \A x \in B.blocks : B.at[x] \in Nat
    BY DEF Plan
  <1> DEFINE K == {c \in B.blocks : B.parent[c] = n}
             T == {B.at[c] : c \in K}
  <1>2. PICK c0 \in B.blocks : B.parent[c0] = n
    BY DEF Plan
  <1>3. T \subseteq Nat /\ T # {} /\ \A c \in K : B.at[c] \in T
    BY <1>1, <1>2
  <1>4. \A k \in T : \E c \in K : B.at[c] = k
    OBVIOUS
  <1> HIDE DEF T
  <1>5. PICK k \in T : \A l \in T : k <= l
    BY <1>3, LeastNat
  <1>6. PICK c \in K : B.at[c] = k
    BY <1>4, <1>5
  <1>7. c \in B.blocks /\ B.parent[c] = n /\ c # Root
    BY <1>1, <1>6
  <1>8. \A d \in B.blocks : ~ Before(B, d, c)
    <2> SUFFICES ASSUME NEW d \in B.blocks, Before(B, d, c) PROVE FALSE
      OBVIOUS
    <2>1. d \in K /\ B.at[d] < k /\ B.at[d] \in T
      BY <1>3, <1>6, <1>7 DEF Before
    <2> QED BY <1>1, <1>5, <1>6, <2>1
  <1>9. PrevTo(B, c) = {}
    BY <1>8 DEF PrevTo, NextTo
  <1>10. FirstLeaves(B, c) \subseteq S
    BY <1>7, <1>9, FirstWithin
  <1>11. Within(B, c) \cap B.leaves \subseteq S /\ Follow(B, c) \subseteq S
    BY <1>7, <1>10 DEF Passed
  <1>12. \A d \in B.blocks : Before(B, c, d) => Passed(B, S, d)
    BY <1>7 DEF Before
  <1>13. /\ \A d \in B.blocks : Before(B, c, d) => Within(B, d) \cap B.leaves \subseteq S
         /\ Follow(B, n) \subseteq S
    BY <1>7, <1>11, <1>12, PassedAlong
  <1>14. ASSUME NEW x \in Within(B, n), x \in B.leaves PROVE x \in S
    <2>1. PICK d \in B.blocks : B.parent[d] = n /\ x \in Within(B, d)
      BY <1>14, WithinChild
    <2>2. d = c \/ Before(B, c, d)
      BY <1>7, <1>8, <2>1, Siblings
    <2> QED BY <1>11, <1>13, <1>14, <2>1, <2>2
  <1> QED BY <1>13, <1>14

LEMMA AllPassed ==
  ASSUME NEW B, Plan(B), NEW S, Onward(B, S)
  PROVE  \A n \in B.blocks : Passed(B, S, n)
  <1> DEFINE G == {n \in B.blocks : Passed(B, S, n)}
  <1>1. ASSUME NEW n \in B.blocks, \A c \in B.blocks : B.parent[c] = n => c \in G
        PROVE  n \in G
    <2>1. \A c \in B.blocks : B.parent[c] = n => Passed(B, S, c)
      BY <1>1
    <2>2. CASE n \in B.leaves
      <3>1. n \in FirstLeaves(B, n)
        BY <2>2 DEF FirstLeaves, Closure
      <3>2. \A c \in B.blocks : B.parent[c] # n
        BY <2>2 DEF Plan
      <3>3. Within(B, n) \subseteq {n}
        BY <3>2, WithinChild
      <3>4. Passed(B, S, n)
        BY <3>1, <3>3 DEF Passed, Onward
      <3> QED BY <3>4
    <2>3. CASE n \notin B.leaves /\ n \in B.seq
      BY <2>1, <2>3, PassedSequential
    <2>4. CASE n \notin B.leaves /\ n \notin B.seq
      BY <2>1, <2>4, PassedParallel
    <2> QED BY <2>2, <2>3, <2>4
  <1>2. G \in SUBSET B.blocks
    OBVIOUS
  <1> HIDE DEF G
  <1>3. G = B.blocks
    BY <1>1, <1>2, Upward
  <1> QED BY <1>3 DEF G

(* What follows a leaf, and so on, is every leaf the order puts after it.  *)
LEMMA AheadReached ==
  ASSUME NEW B, Plan(B), NEW S, Onward(B, S), NEW x \in B.blocks, Follow(B, x) \subseteq S,
         NEW y \in B.leaves, Ahead(B, x, y)
  PROVE  y \in S
  <1> DEFINE G == {n \in B.blocks : x \in Within(B, n) => Follow(B, n) \subseteq S}
  <1>1. \A n \in B.blocks : Passed(B, S, n)
    BY AllPassed
  <1>2. ASSUME NEW n \in B.blocks, \A c \in B.blocks : B.parent[c] = n => c \in G,
               x \in Within(B, n)
        PROVE  Follow(B, n) \subseteq S
    <2>1. CASE x = n
      BY <2>1
    <2>2. CASE x # n
      <3>1. PICK c \in B.blocks : B.parent[c] = n /\ x \in Within(B, c)
        BY <1>2, <2>2, WithinChild
      <3>2. Follow(B, c) \subseteq S
        BY <1>2, <3>1
      <3>3. c # Root
        BY <3>1 DEF Plan
      <3> QED BY <1>1, <3>1, <3>2, <3>3, PassedAlong
    <2> QED BY <2>1, <2>2
  <1>3. G \in SUBSET B.blocks /\ \A n \in B.blocks : (\A c \in B.blocks : B.parent[c] = n => c \in G) => n \in G
    BY <1>2
  <1>4. G = B.blocks
    <2> HIDE DEF G
    <2> QED BY <1>3, Upward
  <1>5. PICK m \in B.blocks, n \in B.blocks : Before(B, m, n) /\ x \in Within(B, m) /\ y \in Within(B, n)
    BY DEF Ahead
  <1>6. Follow(B, m) \subseteq S
    BY <1>4, <1>5
  <1>7. Within(B, n) \cap B.leaves \subseteq S
    BY <1>1, <1>5, <1>6, PassedAlong
  <1> QED BY <1>5, <1>7

(* A queue that has each leaf lead to those that follow it.                *)
Fits(B, q) ==
    q.items = B.leaves /\ \A i \in B.leaves : q.succ[i] = Follow(B, i)

LEMMA FitsPreds ==
  ASSUME NEW B, Plan(B), NEW q, Fits(B, q), NEW i \in B.leaves
  PROVE  Preds(q, i) = Lead(B, i) /\ q.succ[i] \subseteq B.leaves
  <1>1. \A j \in B.leaves : i \in Follow(B, j) <=> j \in Lead(B, i)
    BY Duality
  <1>2. Lead(B, i) \subseteq B.leaves
    BY LeadFacts DEF LastLeaves
  <1>3. Follow(B, i) \subseteq B.leaves
    BY FollowAhead
  <1> QED BY <1>1, <1>2, <1>3 DEF Fits, Preds

LEMMA FitsLeads ==
  ASSUME NEW B, Plan(B), NEW q, Fits(B, q), NEW i \in B.leaves, NEW j \in B.leaves
  PROVE  Leads(q, i, j) <=> Ahead(B, i, j)
  <1>1. B.leaves \subseteq B.blocks
    BY DEF Plan
  <1>2. ASSUME Leads(q, i, j) PROVE Ahead(B, i, j)
    <2> DEFINE S == {k \in B.leaves : Ahead(B, i, k)}
    <2>1. S \in SUBSET q.items
      BY DEF Fits
    <2>2. \A k \in B.leaves : q.succ[k] = Follow(B, k)
      BY DEF Fits
    <2>3. Follow(B, i) \subseteq S
      BY FollowAhead
    <2>4. \A k \in S : Follow(B, k) \subseteq S
      BY FollowAhead, AheadOrder
    <2> HIDE DEF S
    <2>5. S \subseteq B.leaves
      BY DEF S
    <2>6. q.succ[i] \subseteq S /\ \A k \in S : q.succ[k] \subseteq S
      BY <2>2, <2>3, <2>4, <2>5
    <2>7. j \in S
      BY <1>2, <2>1, <2>6 DEF Leads
    <2> QED BY <2>7 DEF S
  <1>3. ASSUME Ahead(B, i, j), NEW S \in SUBSET q.items,
               q.succ[i] \subseteq S, \A k \in S : q.succ[k] \subseteq S
        PROVE  j \in S
    <2>1. Onward(B, S) /\ Follow(B, i) \subseteq S
      BY <1>3 DEF Onward, Fits
    <2> QED BY <1>1, <1>3, <2>1, AheadReached
  <1> QED BY <1>2, <1>3 DEF Leads

LEMMA FitsAcyclic ==
  ASSUME NEW B, Plan(B), NEW q, Fits(B, q)
  PROVE  Acyclic(q)
  <1> SUFFICES ASSUME NEW S \in SUBSET q.items, S # {} PROVE \E i \in S : Preds(q, i) \cap S = {}
    BY DEF Acyclic
  <1>1. S \subseteq B.leaves /\ IsFiniteSet(B.blocks) /\ S \subseteq B.blocks
    BY DEF Fits, Plan
  <1> DEFINE U(j) == {i \in S : i = j \/ Ahead(B, i, j)}
             C == {U(j) : j \in S}
  <1>2. C \in SUBSET (SUBSET B.blocks) /\ C # {}
    BY <1>1
  <1> HIDE DEF C
  <1>3. PICK X : MinimalIn(X, C)
    BY <1>1, <1>2, MinSubset
  <1>4. PICK j \in S : X = U(j)
    BY <1>3 DEF MinimalIn, C
  <1>5. ASSUME NEW i \in Preds(q, j), i \in S PROVE FALSE
    <2>1. j \in Follow(B, i)
      BY <1>1, <1>5 DEF Preds, Fits
    <2>2. Ahead(B, i, j)
      BY <2>1, FollowAhead
    <2>3. U(i) \subseteq U(j) /\ j \in U(j) /\ j \notin U(i)
      BY <2>2, AheadOrder
    <2>4. U(i) \in C
      BY <1>5 DEF C
    <2> QED BY <1>3, <1>4, <2>3, <2>4 DEF MinimalIn
  <1> QED BY <1>5

-----------------------------------------------------------------------------
(* The plan of a tree: the groups that the generator visits and the synths *)
(* that begin a run.                                                       *)
Live(t) == Reached(Filled(t), Root)
At(t, n) == SelectInSeq(t.kids[t.parent[n]], LAMBDA m : m = n)
Starts(t) ==
    {n \in SynthsIn(t) : \/ t.parent[n] \in ParGroups \/ At(t, n) = 1
                         \/ t.kids[t.parent[n]][At(t, n) - 1] \in Groups}
PlanOf(t) ==
    [blocks |-> Live(t) \cup Starts(t), leaves |-> Starts(t), parent |-> t.parent,
     at |-> [n \in Nodes |-> IF n = Root THEN 0 ELSE At(t, n)], seq |-> Live(t) \cap SeqGroups]

LEMMA GroupsAreKids ==
  ASSUME NEW t, Sound(t)
  PROVE  /\ t.groups = Kids(t.parent) /\ t.parent \in Parents /\ t.parent[Root] = Nil
         /\ \A x \in Groups : HasSynths(t, x) <=> \E h \in Reached(Kids(t.parent), x) : t.nsyn[h] # 0
         /\ \A h \in Groups : Filled(t)[h] = {x \in Groups : t.parent[x] = h /\ HasSynths(t, x)}
         /\ \A h \in Groups : t.nsyn[h] # 0 <=> \E n \in Synths : t.parent[n] = h
  <1>1. PICK p : p = t.parent
    OBVIOUS
  <1>2. /\ t \in Trees /\ p \in Parents /\ Hangs(p) /\ \A x \in Groups : FitsAt(t, x)
    BY <1>1, TreeFacts DEF Sound, Parents
  <1>3. t.groups = Kids(p)
    <2>1. t.groups \in [Groups -> SUBSET Groups]
      BY <1>2, TreeFacts
    <2>2. \A x \in Groups : t.groups[x] = Kids(p)[x]
      BY <1>1, <1>2, NodeFacts DEF FitsAt, Kin, Kids
    <2>3. Kids(p) = [x \in Groups |-> Kids(p)[x]]
      BY DEF Kids
    <2> QED BY <2>1, <2>2, <2>3
  <1>4. \A x \in Groups : HasSynths(t, x) <=> \E h \in Reached(Kids(p), x) : t.nsyn[h] # 0
    BY <1>3 DEF HasSynths
  <1>5. \A h \in Groups : Filled(t)[h] = {x \in Groups : p[x] = h /\ HasSynths(t, x)}
    BY <1>1, <1>2, NodeFacts DEF Filled, FitsAt, Kin
  <1>6. ASSUME NEW h \in Groups PROVE t.nsyn[h] # 0 <=> \E n \in Synths : p[n] = h
    <2>1. PICK K : K = Kin(p, h) \cap Synths
      OBVIOUS
    <2>2. t.nsyn[h] = Cardinality(K)
      BY <1>1, <1>2, <2>1 DEF FitsAt
    <2>3. IsFiniteSet(K)
      BY <2>1, NodeFacts, FS_Subset DEF Kin
    <2>4. K = {n \in Synths : p[n] = h}
      BY <2>1, NodeFacts DEF Kin
    <2>5. Cardinality(K) = 0 <=> K = {}
      BY <2>3, FS_EmptySet
    <2> QED BY <2>2, <2>4, <2>5
  <1> QED BY <1>1, <1>2, <1>3, <1>4, <1>5, <1>6 DEF Hangs

(* A group has synths when it or one of its subgroups has.                 *)
LEMMA SynthsBelow ==
  ASSUME NEW t, Sound(t), NEW h \in Groups
  PROVE  /\ HasSynths(t, h) <=>
               \/ \E n \in Synths : t.parent[n] = h
               \/ \E x \in Groups : t.parent[x] = h /\ HasSynths(t, x)
  <1>1. PICK p : p = t.parent
    OBVIOUS
  <1>2. /\ \A x \in Groups : HasSynths(t, x) <=> \E i \in Reached(Kids(p), x) : t.nsyn[i] # 0
        /\ \A i \in Groups : t.nsyn[i] # 0 <=> \E n \in Synths : p[n] = i
    BY <1>1, GroupsAreKids
  <1>3. \A g \in Groups : /\ g \in Reached(Kids(p), g) /\ Reached(Kids(p), g) \in SUBSET Groups
                          /\ \A x \in Groups : p[x] \in Reached(Kids(p), g) => x \in Reached(Kids(p), g)
    BY KidsFacts
  <1>4. ASSUME NEW x \in Groups, p[x] = h PROVE Reached(Kids(p), x) \subseteq Reached(Kids(p), h)
    BY <1>3, <1>4, KidsFacts
  <1>5. ASSUME NEW i \in Reached(Kids(p), h)
        PROVE  i = h \/ \E x \in Groups : p[x] = h /\ i \in Reached(Kids(p), x)
    <2> DEFINE S == {j \in Groups : j = h \/ \E x \in Groups : p[x] = h /\ j \in Reached(Kids(p), x)}
    <2>1. S \in SUBSET Groups /\ h \in S
      OBVIOUS
    <2>2. \A j \in Groups : p[j] \in S => j \in S
      BY <1>3
    <2>3. i \in S
      <3> HIDE DEF S
      <3> QED BY <2>1, <2>2, KidsFacts
    <2> QED BY <2>3
  <1> QED BY <1>1, <1>2, <1>3, <1>4, <1>5

LEMMA LiveFacts ==
  ASSUME NEW t, Sound(t), HasSynths(t, Root)
  PROVE  /\ Root \in Live(t) /\ Live(t) \subseteq Groups
         /\ \A h \in Live(t) : HasSynths(t, h) /\ (h # Root => t.parent[h] \in Live(t))
         /\ \A h \in Groups : t.parent[h] \in Live(t) /\ HasSynths(t, h) => h \in Live(t)
         /\ \A S \in SUBSET Groups :
               Root \in S /\ (\A h \in Live(t) : t.parent[h] \in S => h \in S) => Live(t) \subseteq S
  <1>1. \A h \in Groups : Filled(t)[h] = {x \in Groups : t.parent[x] = h /\ HasSynths(t, x)}
    BY GroupsAreKids
  <1>2. \A h \in Groups : Filled(t)[h] \subseteq Groups
    BY <1>1
  <1>3. /\ Root \in Live(t) /\ Live(t) \subseteq Groups
        /\ \A h \in Live(t) : Filled(t)[h] \subseteq Live(t)
        /\ \A S \in SUBSET Groups :
              Root \in S /\ (\A i \in S : Filled(t)[i] \subseteq S) => Live(t) \subseteq S
    BY <1>2, NodeFacts, ReachedFacts DEF Live
  <1>4. ASSUME NEW S \in SUBSET Groups, Root \in S, \A h \in Live(t) : t.parent[h] \in S => h \in S
        PROVE  Live(t) \subseteq S
    <2>1. PICK R : R = S \cap Live(t)
      OBVIOUS
    <2>2. R \in SUBSET Groups /\ Root \in R
      BY <1>3, <1>4, <2>1
    <2>3. \A i \in R : Filled(t)[i] \subseteq R
      BY <1>1, <1>3, <1>4, <2>1
    <2> QED BY <1>3, <2>1, <2>2, <2>3
  <1>5. ASSUME NEW h \in Live(t) PROVE HasSynths(t, h) /\ (h # Root => t.parent[h] \in Live(t))
    <2> DEFINE S == {x \in Live(t) : HasSynths(t, x) /\ (x # Root => t.parent[x] \in Live(t))}
    <2>1. S \in SUBSET Groups /\ Root \in S
      BY <1>3
    <2>2. \A i \in S : Filled(t)[i] \subseteq S
      BY <1>1, <1>3
    <2>3. Live(t) \subseteq S
      <3> HIDE DEF S
      <3> QED BY <1>3, <2>1, <2>2
    <2> QED BY <2>3
  <1> QED BY <1>1, <1>3, <1>4, <1>5

\* The k-th child of group g.
KidsAt(t, g) ==
    /\ t.kids[g] \in Seq(Nodes) /\ Len(t.kids[g]) \in Nat
    /\ \A j \in 1 .. Len(t.kids[g]) :
          /\ t.kids[g][j] \in Nodes /\ t.kids[g][j] # Root
          /\ t.parent[t.kids[g][j]] = g /\ At(t, t.kids[g][j]) = j
    /\ \A n \in Nodes : t.parent[n] = g => At(t, n) \in 1 .. Len(t.kids[g]) /\ t.kids[g][At(t, n)] = n

LEMMA KidsAtFacts ==
  ASSUME NEW t, Sound(t), NEW g \in Groups
  PROVE  KidsAt(t, g)
  <1>1. t \in Trees /\ FitsAt(t, g) /\ t.parent[Root] = Nil
    BY DEF Sound, Hangs
  <1>2. PICK s : s = t.kids[g]
    OBVIOUS
  <1>3. s \in Seq(Nodes) /\ Len(s) \in Nat /\ IsInjective(s) /\ ToSet(s) = Kin(t.parent, g)
    BY <1>1, <1>2, TreeFacts DEF FitsAt
  <1>4. ASSUME NEW n \in Nodes, t.parent[n] = g PROVE At(t, n) \in 1 .. Len(s) /\ s[At(t, n)] = n
    <2>1. t.parent[n] # Nil
      BY <1>4, NodeFacts
    <2> QED BY <1>2, <1>4, <2>1, PositionIn DEF At
  <1>5. ASSUME NEW j \in 1 .. Len(s) PROVE s[j] \in Nodes /\ t.parent[s[j]] = g /\ At(t, s[j]) = j
    <2>1. s[j] \in Nodes /\ t.parent[s[j]] = g
      BY <1>3 DEF Kin, ToSet
    <2>2. At(t, s[j]) \in 1 .. Len(s) /\ s[At(t, s[j])] = s[j]
      BY <1>4, <2>1
    <2> QED BY <1>3, <2>1, <2>2 DEF IsInjective
  <1>6. \A j \in 1 .. Len(s) : s[j] # Root
    BY <1>1, <1>5, NodeFacts
  <1> QED BY <1>2, <1>3, <1>4, <1>5, <1>6 DEF KidsAt

LEMMA StartsAre ==
  ASSUME NEW t, Sound(t), NEW g \in Groups, NEW j \in 1 .. Len(t.kids[g])
  PROVE  t.kids[g][j] \in Starts(t) <=>
            t.kids[g][j] \in Synths /\ (g \in ParGroups \/ j = 1 \/ t.kids[g][j - 1] \in Groups)
  <1>1. /\ t.kids[g][j] \in Nodes /\ t.parent[t.kids[g][j]] = g /\ At(t, t.kids[g][j]) = j
        /\ g # Nil
    BY KidsAtFacts, NodeFacts DEF KidsAt
  <1> QED BY <1>1 DEF Starts, SynthsIn

LEMMA RunStarts ==
  ASSUME NEW t, Sound(t), NEW g \in Groups, g \notin ParGroups,
         NEW k \in 1 .. Len(t.kids[g]), t.kids[g][k] \in Synths
  PROVE  LET a == RunStart(t, g, k) IN
         /\ a \in 1 .. k /\ t.kids[g][a] \in Starts(t)
         /\ \A i \in a .. k : t.kids[g][i] \in Synths
         /\ \A i \in a + 1 .. k : t.kids[g][i] \notin Starts(t)
  <1>1. PICK s : s = t.kids[g]
    OBVIOUS
  <1>2. PICK a : a = RunStart(t, g, k)
    OBVIOUS
  <1>3. s \in Seq(Nodes) /\ Len(s) \in Nat
    BY <1>1, KidsAtFacts DEF KidsAt
  <1>4. a \in 1 .. k /\ (a = 1 \/ s[a - 1] \in Groups) /\ \A i \in a .. k : s[i] \in Synths
    BY <1>1, <1>2, <1>3, RunFacts
  <1>5. \A j \in 1 .. Len(s) : s[j] \in Starts(t) <=> s[j] \in Synths /\ (j = 1 \/ s[j - 1] \in Groups)
    BY <1>1, StartsAre
  <1>6. s[a] \in Starts(t)
    BY <1>1, <1>3, <1>4, <1>5
  <1>7. \A i \in a + 1 .. k : s[i] \notin Starts(t)
    <2> TAKE i \in a + 1 .. k
    <2>1. i \in 1 .. Len(s) /\ i # 1 /\ i - 1 \in a .. k
      BY <1>1, <1>3, <1>4
    <2> QED BY <1>4, <1>5, <2>1, NodeFacts
  <1> QED BY <1>1, <1>2, <1>4, <1>6, <1>7

LEMMA BlocksAre ==
  ASSUME NEW t, Sound(t), HasSynths(t, Root)
  PROVE  /\ PlanOf(t).blocks = Live(t) \cup Starts(t) /\ PlanOf(t).leaves = Starts(t)
         /\ PlanOf(t).parent = t.parent /\ PlanOf(t).seq = Live(t) \cap SeqGroups
         /\ \A n \in Nodes : n # Root => PlanOf(t).at[n] = At(t, n)
         /\ PlanOf(t).at[Root] = 0
         /\ Starts(t) \subseteq Synths /\ PlanOf(t).blocks \subseteq Nodes
         /\ Live(t) \cap Starts(t) = {}
         /\ \A n \in Starts(t) : t.parent[n] \in Live(t)
  <1>1. Starts(t) \subseteq Synths /\ Live(t) \subseteq Groups
    BY LiveFacts DEF Starts, SynthsIn
  <1>2. \A n \in Starts(t) : t.parent[n] \in Live(t)
    BY FilledReached DEF Starts, Live
  <1> QED BY <1>1, <1>2, NodeFacts DEF PlanOf

LEMMA PlanRight ==
  ASSUME NEW t, Sound(t), HasSynths(t, Root)
  PROVE  Plan(PlanOf(t))
  <1>1. PICK B : B = PlanOf(t)
    OBVIOUS
  <1>2. /\ B.blocks = Live(t) \cup Starts(t) /\ B.leaves = Starts(t)
        /\ B.parent = t.parent /\ B.seq = Live(t) \cap SeqGroups
        /\ \A n \in Nodes : n # Root => B.at[n] = At(t, n)
        /\ B.at[Root] = 0
        /\ Starts(t) \subseteq Synths /\ B.blocks \subseteq Nodes
        /\ Live(t) \cap Starts(t) = {}
        /\ \A n \in Starts(t) : t.parent[n] \in Live(t)
    BY <1>1, BlocksAre
  <1>3. /\ Root \in Live(t) /\ Live(t) \subseteq Groups
        /\ \A h \in Live(t) : HasSynths(t, h) /\ (h # Root => t.parent[h] \in Live(t))
        /\ \A h \in Groups : t.parent[h] \in Live(t) /\ HasSynths(t, h) => h \in Live(t)
    BY LiveFacts
  <1>4. t.parent[Root] = Nil /\ Nil \notin Nodes /\ Root \notin Synths
    BY GroupsAreKids, NodeFacts
  <1>5. IsFiniteSet(B.blocks)
    BY <1>2, NodeFacts, FS_Subset
  <1>6. \A n \in B.blocks : n # Root => B.parent[n] \in B.blocks \ B.leaves
    BY <1>2, <1>3
  <1>7. ASSUME NEW S \in SUBSET B.blocks, Root \in S, \A c \in B.blocks : B.parent[c] \in S => c \in S
        PROVE  B.blocks \subseteq S
    <2>1. PICK R : R = S \cap Groups
      OBVIOUS
    <2>2. R \in SUBSET Groups /\ Root \in R
      BY <1>3, <1>7, <2>1
    <2>3. \A h \in Live(t) : t.parent[h] \in R => h \in R
      BY <1>2, <1>3, <1>7, <2>1
    <2>4. Live(t) \subseteq R
      BY <2>2, <2>3, LiveFacts
    <2> QED BY <1>2, <1>7, <2>1, <2>4
  <1>8. ASSUME NEW n \in B.blocks, n # Root
        PROVE  /\ B.parent[n] \in Groups /\ B.at[n] \in 1 .. Len(t.kids[B.parent[n]])
               /\ t.kids[B.parent[n]][B.at[n]] = n
    <2>1. n \in Nodes /\ B.parent[n] \in Groups /\ B.parent[n] = t.parent[n]
      BY <1>2, <1>3, <1>6, <1>8
    <2> QED BY <1>2, <1>8, <2>1, KidsAtFacts DEF KidsAt
  <1>9. \A n \in B.blocks : B.at[n] \in Nat
    <2> TAKE n \in B.blocks
    <2>1. CASE n = Root
      BY <1>2, <2>1
    <2>2. CASE n # Root
      BY <1>8, <2>2
    <2> QED BY <2>1, <2>2
  <1>10. \A m, n \in B.blocks : B.parent[m] = B.parent[n] /\ B.at[m] = B.at[n] => m = n
    BY <1>2, <1>4, <1>8, NodeFacts
  <1>11. ASSUME NEW n \in B.blocks \ B.leaves PROVE \E c \in B.blocks : B.parent[c] = n
    <2>1. n \in Groups /\ n \in Live(t) /\ HasSynths(t, n)
      BY <1>2, <1>3
    <2>2. CASE \E x \in Groups : t.parent[x] = n /\ HasSynths(t, x)
      BY <1>2, <1>3, <2>1, <2>2
    <2>3. CASE \E x \in Synths : t.parent[x] = n
      <3>1. PICK x \in Synths : t.parent[x] = n
        BY <2>3
      <3>2. PICK k : k = At(t, x)
        OBVIOUS
      <3>3. k \in 1 .. Len(t.kids[n]) /\ t.kids[n][k] = x /\ KidsAt(t, n)
        BY <2>1, <3>1, <3>2, KidsAtFacts, NodeFacts DEF KidsAt
      <3>4. CASE n \in ParGroups
        <4>1. x \in Starts(t)
          BY <2>1, <3>1, <3>3, <3>4, StartsAre
        <4> QED BY <1>2, <3>1, <4>1
      <3>5. CASE n \notin ParGroups
        <4>1. PICK a : a = RunStart(t, n, k)
          OBVIOUS
        <4>2. a \in 1 .. k /\ t.kids[n][a] \in Starts(t)
          BY <2>1, <3>1, <3>3, <3>5, <4>1, RunStarts
        <4>3. a \in 1 .. Len(t.kids[n])
          BY <3>3, <4>2 DEF KidsAt
        <4>4. t.parent[t.kids[n][a]] = n
          BY <3>3, <4>3 DEF KidsAt
        <4> QED BY <1>2, <4>2, <4>4
      <3> QED BY <3>4, <3>5
    <2> QED BY <2>1, <2>2, <2>3, SynthsBelow
  <1>12. Root \in B.blocks /\ Root \notin B.leaves /\ B.parent[Root] \notin B.blocks /\ B.leaves \subseteq B.blocks /\ B.seq \subseteq B.blocks
    BY <1>2, <1>3, <1>4
  <1>13. Plan(B)
    BY <1>5, <1>6, <1>7, <1>9, <1>10, <1>11, <1>12 DEF Plan
  <1> QED BY <1>1, <1>13

-----------------------------------------------------------------------------
(* What the selections in the list of a group find.                        *)
NextAfter(t, s, k)  == SelectInSeq(SubSeq(s, k + 1, Len(s)), LAMBDA n : Plays(t, n))
LastBefore(t, s, k) ==
    SelectLastInSeq(SubSeq(s, 1, k - 1), LAMBDA n : (IF n \in Synths THEN 1 ELSE TailNodes(t, n)) # 0)

LEMMA NextPlaying ==
  ASSUME NEW t, NEW s \in Seq(Nodes), NEW k \in 0 .. Len(s)
  PROVE  LET r == NextAfter(t, s, k)
         IN \/ r = 0 /\ \A i \in k + 1 .. Len(s) : ~ Plays(t, s[i])
            \/ /\ r # 0 /\ r \in Nat /\ k + r \in k + 1 .. Len(s) /\ Plays(t, s[k + r])
               /\ \A i \in k + 1 .. k + r - 1 : ~ Plays(t, s[i])
  <1>1. PICK u : u = SubSeq(s, k + 1, Len(s))
    OBVIOUS
  <1>2. PICK r : r = NextAfter(t, s, k)
    OBVIOUS
  <1>3. Len(s) \in Nat /\ Len(u) = Len(s) - k /\ \A i \in 1 .. Len(s) - k : u[i] = s[k + i]
    BY <1>1
  <1> DEFINE I == {i \in 1 .. Len(u) : Plays(t, u[i])}
  <1>4. r = IF I # {} THEN Min(I) ELSE 0
    BY <1>1, <1>2 DEF SelectInSeq, NextAfter
  <1>5. CASE I = {}
    <2>1. \A i \in k + 1 .. Len(s) : i - k \in 1 .. Len(u) /\ k + (i - k) = i
      BY <1>3
    <2>2. \A i \in 1 .. Len(u) : ~ Plays(t, u[i])
      BY <1>5
    <2>3. \A i \in k + 1 .. Len(s) : ~ Plays(t, s[i])
      BY <1>3, <2>1, <2>2
    <2> QED BY <1>1, <1>2, <1>4, <1>5, <2>3
  <1>6. CASE I # {}
    <2>1. I \subseteq Nat
      OBVIOUS
    <2>2. PICK m \in I : \A i \in I : m <= i
      BY <1>6, <2>1, LeastNat
    <2>3. Min(I) \in I /\ \A i \in I : Min(I) <= i
      BY <2>2 DEF Min
    <2>4. r \in 1 .. Len(u) /\ Plays(t, u[r]) /\ \A i \in I : r <= i
      BY <1>4, <1>6, <2>3
    <2>5. r # 0 /\ r \in Nat /\ k + r \in k + 1 .. Len(s) /\ Plays(t, s[k + r])
      BY <1>3, <2>4
    <2>6. \A i \in k + 1 .. k + r - 1 : ~ Plays(t, s[i])
      <3> SUFFICES ASSUME NEW i \in k + 1 .. k + r - 1, Plays(t, s[i]) PROVE FALSE
        OBVIOUS
      <3>1. i - k \in 1 .. Len(u) /\ s[k + (i - k)] = s[i] /\ ~(r <= i - k)
        BY SMTT(40), <1>3, <2>4
      <3>2. i - k \in I
        BY <1>3, <3>1
      <3> QED BY <2>4, <3>1, <3>2
    <2> QED BY <1>1, <1>2, <2>5, <2>6
  <1> QED BY <1>5, <1>6

\* How many items end before what comes after child n.
Tails(t, n) == IF n \in Synths THEN 1 ELSE TailNodes(t, n)

\* Of what comes before child k, r is the last with items that end there; 0 if
\* there is none.
TailedAt(t, s, k, r) ==
    \/ r = 0 /\ \A i \in 1 .. k - 1 : Tails(t, s[i]) = 0
    \/ /\ r \in 1 .. k - 1 /\ Tails(t, s[r]) # 0 /\ r # 0
       /\ \A i \in r + 1 .. k - 1 : Tails(t, s[i]) = 0

LEMMA PrevTailed ==
  ASSUME NEW t, NEW s \in Seq(Nodes), NEW k \in 1 .. Len(s)
  PROVE  TailedAt(t, s, k, LastBefore(t, s, k))
  <1>2. PICK r : r = LastBefore(t, s, k)
    OBVIOUS
  <1> SUFFICES \/ r = 0 /\ \A i \in 1 .. k - 1 : Tails(t, s[i]) = 0
               \/ /\ r \in 1 .. k - 1 /\ Tails(t, s[r]) # 0 /\ r # 0
                  /\ \A i \in r + 1 .. k - 1 : Tails(t, s[i]) = 0
    BY <1>2 DEF TailedAt
  <1>1. PICK u : u = SubSeq(s, 1, k - 1)
    OBVIOUS
  <1>3. Len(s) \in Nat /\ Len(u) = k - 1 /\ \A i \in 1 .. k - 1 : u[i] = s[i]
    BY <1>1
  <1> DEFINE I == {i \in 1 .. Len(u) : Tails(t, u[i]) # 0}
  <1>4. r = IF I # {} THEN Max(I) ELSE 0
    BY <1>1, <1>2 DEF SelectLastInSeq, LastBefore, Tails
  <1>5. CASE I = {}
    <2>1. \A i \in 1 .. k - 1 : Tails(t, s[i]) = 0
      BY <1>3, <1>5
    <2> QED BY <1>4, <1>5, <2>1
  <1>6. CASE I # {}
    <2>1. I \in SUBSET (1 .. k - 1) /\ k - 1 \in Nat
      BY <1>3
    <2>2. Max(I) \in I /\ \A i \in I : i <= Max(I)
      BY <1>6, <2>1, GreatestIn
    <2>3. r \in 1 .. k - 1 /\ r # 0 /\ Tails(t, s[r]) # 0 /\ \A i \in I : i <= r
      BY <1>3, <1>4, <1>6, <2>2
    <2>4. \A i \in r + 1 .. k - 1 : Tails(t, s[i]) = 0
      <3> SUFFICES ASSUME NEW i \in r + 1 .. k - 1, Tails(t, s[i]) # 0 PROVE FALSE
        OBVIOUS
      <3>1. i \in 1 .. k - 1 /\ ~(i <= r)
        BY <2>3
      <3>2. i \in I
        BY <1>3, <3>1
      <3> QED BY <2>3, <3>1, <3>2
    <2> QED BY <2>3, <2>4
  <1> QED BY <1>5, <1>6

LEMMA LastNodeIs ==
  ASSUME NEW t, NEW g \in Groups, NEW s \in Seq(Nodes), s = t.kids[g]
  PROVE  \/ LastNode(t, g) = {} /\ \A i \in 1 .. Len(s) : s[i] \notin Synths /\ t.kids[s[i]] = <<>>
         \/ \E k \in 1 .. Len(s) : /\ LastNode(t, g) = {s[k]}
                                   /\ \A i \in k + 1 .. Len(s) : s[i] \notin Synths /\ t.kids[s[i]] = <<>>
  <1>1. PICK r : r = SelectLastInSeq(s, LAMBDA n : n \in Synths \/ t.kids[n] # <<>>)
    OBVIOUS
  <1>2. Len(s) \in Nat /\ LastNode(t, g) = IF r = 0 THEN {} ELSE {s[r]}
    BY <1>1 DEF LastNode
  <1> DEFINE I == {i \in 1 .. Len(s) : s[i] \in Synths \/ t.kids[s[i]] # <<>>}
  <1>3. r = IF I # {} THEN Max(I) ELSE 0
    BY SMTT(40), <1>1 DEF SelectLastInSeq
  <1>4. CASE I = {}
    BY <1>2, <1>3, <1>4
  <1>5. CASE I # {}
    <2>1. I \in SUBSET (1 .. Len(s))
      OBVIOUS
    <2>2. Max(I) \in I /\ \A i \in I : i <= Max(I)
      BY <1>2, <1>5, <2>1, GreatestIn
    <2>3. r \in 1 .. Len(s) /\ r # 0 /\ \A i \in I : i <= r
      <3> HIDE DEF I
      <3>1. r = Max(I)
        BY <1>3, <1>5
      <3>2. r \in I /\ \A i \in I : i <= r
        BY <2>2, <3>1
      <3> QED BY <1>2, <2>1, <3>2
    <2>4. \A i \in r + 1 .. Len(s) : s[i] \notin Synths /\ t.kids[s[i]] = <<>>
      <3> TAKE i \in r + 1 .. Len(s)
      <3>1. i \in 1 .. Len(s) /\ ~(i <= r)
        BY <1>2, <2>3
      <3> QED BY <2>3, <3>1
    <2> QED BY <1>2, <2>3, <2>4
  <1> QED BY <1>4, <1>5

-----------------------------------------------------------------------------
(* A group without synths has no tail; nor has one that ends in such a one.*)
LEMMA SubgroupsEnd ==
  ASSUME NEW t, Sound(t)
  PROVE  \A h \in Groups : EndsIn(t)[h] \subseteq Groups /\ \A x \in EndsIn(t)[h] : t.parent[x] = h
  <1> SUFFICES ASSUME NEW h \in Groups PROVE EndsIn(t)[h] \subseteq Groups /\ \A x \in EndsIn(t)[h] : t.parent[x] = h
    OBVIOUS
  <1>1. PICK s : s = t.kids[h]
    OBVIOUS
  <1>2. s \in Seq(Nodes) /\ \A j \in 1 .. Len(s) : t.parent[s[j]] = h
    BY <1>1, KidsAtFacts DEF KidsAt
  <1>3. CASE h \in ParGroups
    <2>1. EndsIn(t)[h] = Kids(t.parent)[h]
      BY <1>3, GroupsAreKids DEF EndsIn
    <2> QED BY <2>1 DEF Kids
  <1>4. CASE h \notin ParGroups
    <2>1. EndsIn(t)[h] = LastNode(t, h) \cap Groups
      BY <1>4 DEF EndsIn
    <2> QED BY <1>1, <1>2, <2>1, LastNodeIs
  <1> QED BY <1>3, <1>4

LEMMA NoTails ==
  ASSUME NEW t, Sound(t), NEW g \in Groups, NEW R \in SUBSET Groups, g \in R,
         \A h \in R : EndsIn(t)[h] \subseteq R /\ OwnTails(t, h) = 0
  PROVE  TailNodes(t, g) = 0
  <1>1. \A h \in Groups : EndsIn(t)[h] \subseteq Groups
    BY SubgroupsEnd
  <1>2. Reached(EndsIn(t), g) \subseteq R
    BY <1>1, ReachedFacts
  <1>3. \A h \in Reached(EndsIn(t), g) : {h} \X (1 .. OwnTails(t, h)) = {}
    BY <1>2
  <1>4. UNION {{h} \X (1 .. OwnTails(t, h)) : h \in Reached(EndsIn(t), g)} = {}
    BY <1>3
  <1> QED BY <1>4, FS_EmptySet DEF TailNodes

LEMMA NoOwnTails ==
  ASSUME NEW t, Sound(t), NEW h \in Groups, ~ HasSynths(t, h)
  PROVE  OwnTails(t, h) = 0 /\ \A x \in EndsIn(t)[h] : ~ HasSynths(t, x)
  <1>1. \A x \in EndsIn(t)[h] : x \in Groups /\ t.parent[x] = h
    BY SubgroupsEnd
  <1>2. \A x \in EndsIn(t)[h] : ~ HasSynths(t, x)
    BY <1>1, SynthsBelow
  <1>3. \A n \in Synths : t.parent[n] # h
    BY SynthsBelow
  <1>4. CASE h \in ParGroups
    BY <1>2, <1>3, <1>4, GroupsAreKids DEF OwnTails
  <1>5. CASE h \notin ParGroups
    <2>1. PICK s : s = t.kids[h]
      OBVIOUS
    <2>2. s \in Seq(Nodes) /\ \A j \in 1 .. Len(s) : t.parent[s[j]] = h
      BY <2>1, KidsAtFacts DEF KidsAt
    <2>3. LastNode(t, h) \cap Synths = {}
      BY <1>3, <2>1, <2>2, LastNodeIs
    <2> QED BY <1>2, <1>5, <2>3, FS_EmptySet DEF OwnTails
  <1> QED BY <1>2, <1>4, <1>5

LEMMA HollowNoTails ==
  ASSUME NEW t, Sound(t), NEW h \in Groups, ~ HasSynths(t, h)
  PROVE  TailNodes(t, h) = 0
  <1> DEFINE R == {x \in Groups : ~ HasSynths(t, x)}
  <1>1. R \in SUBSET Groups /\ h \in R
    OBVIOUS
  <1>2. \A x \in R : EndsIn(t)[x] \subseteq R /\ OwnTails(t, x) = 0
    BY NoOwnTails, SubgroupsEnd
  <1> HIDE DEF R
  <1> QED BY <1>1, <1>2, NoTails

\* The trees the queue is right for: every group with synths has a tail.
Tailed(t) == Sound(t) /\ HasSynths(t, Root) /\ ~ HollowTail(t)

LEMMA TailedFacts ==
  ASSUME NEW t, Tailed(t), NEW g \in Live(t), NEW n \in Nodes, t.parent[n] = g
  PROVE  /\ Plays(t, n) <=> n \in Synths \/ n \in Live(t)
         /\ Tails(t, n) # 0 <=> Plays(t, n)
  <1>1. Sound(t) /\ HasSynths(t, Root) /\ \A h \in Groups : HasSynths(t, h) => TailNodes(t, h) # 0
    BY DEF Tailed, HollowTail
  <1>2. n \in Synths \/ n \in Groups
    BY DEF Nodes
  <1>3. n \in Groups => (HasSynths(t, n) <=> n \in Live(t))
    BY <1>1, LiveFacts
  <1>4. n \in Groups => (TailNodes(t, n) # 0 <=> HasSynths(t, n))
    BY <1>1, HollowNoTails
  <1>5. Live(t) \subseteq Groups /\ Synths \cap Groups = {}
    BY <1>1, LiveFacts, NodeFacts
  <1> QED BY <1>2, <1>3, <1>4, <1>5 DEF Plays, Tails

(* The last child that counts, in a sequential group that has synths, has  *)
(* or is a synth.                                                          *)
LEMMA LastPlays ==
  ASSUME NEW t, Tailed(t), NEW g \in Live(t), g \notin ParGroups, NEW s, s = t.kids[g]
  PROVE  \E k \in 1 .. Len(s) : /\ LastNode(t, g) = {s[k]} /\ Plays(t, s[k])
                                /\ \A i \in k + 1 .. Len(s) : ~ Plays(t, s[i])
  <1>1. Sound(t) /\ HasSynths(t, Root) /\ \A h \in Groups : HasSynths(t, h) => TailNodes(t, h) # 0
    BY DEF Tailed, HollowTail
  <1>2. g \in Groups /\ HasSynths(t, g) /\ TailNodes(t, g) # 0
    BY <1>1, LiveFacts
  <1>3. s \in Seq(Nodes) /\ Len(s) \in Nat /\ \A j \in 1 .. Len(s) : s[j] \in Nodes /\ t.parent[s[j]] = g
    BY <1>1, <1>2, KidsAtFacts DEF KidsAt
  <1>4. ASSUME NEW i \in 1 .. Len(s), s[i] \notin Synths, t.kids[s[i]] = <<>> PROVE ~ Plays(t, s[i])
    <2>1. s[i] \in Groups
      BY <1>3, <1>4 DEF Nodes
    <2>2. KidsAt(t, s[i])
      BY <1>1, <2>1, KidsAtFacts
    <2>3. \A n \in Nodes : t.parent[n] # s[i]
      BY <1>4, <2>2 DEF KidsAt
    <2>4. ~ HasSynths(t, s[i])
      BY <1>1, <2>1, <2>3, NodeFacts, SynthsBelow
    <2> QED BY <1>4, <2>4 DEF Plays
  <1>5. ASSUME ~ \E k \in 1 .. Len(s) : LastNode(t, g) = {s[k]} /\ Plays(t, s[k])
        PROVE  FALSE
    <2>1. LastNode(t, g) \cap Synths = {}
      BY <1>2, <1>3, <1>5, LastNodeIs DEF Plays
    <2>2. \A h \in LastNode(t, g) \cap Groups : ~ HasSynths(t, h)
      BY <1>2, <1>3, <1>5, LastNodeIs DEF Plays
    <2> DEFINE R == {x \in Groups : x = g \/ ~ HasSynths(t, x)}
    <2>3. OwnTails(t, g) = 0
      BY <1>2, <2>1, FS_EmptySet DEF OwnTails
    <2>4. EndsIn(t)[g] = LastNode(t, g) \cap Groups
      BY <1>2 DEF EndsIn
    <2>5. \A h \in R : EndsIn(t)[h] \subseteq R /\ OwnTails(t, h) = 0
      <3> TAKE h \in R
      <3>1. CASE h = g
        BY <2>2, <2>3, <2>4, <3>1
      <3>2. CASE h # g
        BY <1>1, <3>2, NoOwnTails, SubgroupsEnd
      <3> QED BY <3>1, <3>2
    <2>6. R \in SUBSET Groups /\ g \in R
      BY <1>2
    <2> HIDE DEF R
    <2> QED BY <1>1, <1>2, <2>5, <2>6, NoTails
  <1>6. PICK k \in 1 .. Len(s) : LastNode(t, g) = {s[k]} /\ Plays(t, s[k])
    BY <1>5
  <1>7. PICK l \in 1 .. Len(s) :
            LastNode(t, g) = {s[l]} /\ \A i \in l + 1 .. Len(s) : s[i] \notin Synths /\ t.kids[s[i]] = <<>>
    <2>1. LastNode(t, g) # {}
      BY <1>6
    <2> QED BY SMTT(40), <1>2, <1>3, <2>1, LastNodeIs
  <1>8. \A i \in l + 1 .. Len(s) : ~ Plays(t, s[i])
    BY <1>3, <1>4, <1>7
  <1>9. s[l] = s[k]
    BY <1>6, <1>7
  <1> QED BY <1>6, <1>7, <1>8, <1>9

-----------------------------------------------------------------------------
(* The blocks in the list of a group of the plan.                          *)
BlockList(t, g) ==
    LET B == PlanOf(t)
        s == t.kids[g]
    IN /\ s \in Seq(Nodes) /\ Len(s) \in Nat
       /\ \A j \in 1 .. Len(s) :
             /\ s[j] \in Nodes /\ s[j] # Root /\ B.parent[s[j]] = g /\ B.at[s[j]] = j
             /\ s[j] \in B.blocks => Plays(t, s[j])
             /\ Plays(t, s[j]) /\ s[j] \notin B.blocks =>
                   s[j] \in Synths /\ g \notin ParGroups /\ j - 1 \in 1 .. Len(s) /\ s[j - 1] \in Synths
       /\ \A n \in B.blocks : B.parent[n] = g => B.at[n] \in 1 .. Len(s) /\ s[B.at[n]] = n

LEMMA BlockListFacts ==
  ASSUME NEW t, Tailed(t), NEW g \in Live(t)
  PROVE  BlockList(t, g) /\ g \in Groups
  <1>1. Sound(t) /\ HasSynths(t, Root)
    BY DEF Tailed
  <1>2. PICK B : B = PlanOf(t)
    OBVIOUS
  <1>3. PICK s : s = t.kids[g]
    OBVIOUS
  <1>4. /\ B.blocks = Live(t) \cup Starts(t) /\ B.parent = t.parent
        /\ \A n \in Nodes : n # Root => B.at[n] = At(t, n)
        /\ Starts(t) \subseteq Synths /\ B.blocks \subseteq Nodes
    BY <1>1, <1>2, BlocksAre
  <1>5. g \in Groups /\ t.parent[Root] = Nil /\ g # Nil
    BY <1>1, LiveFacts, GroupsAreKids, NodeFacts
  <1>6. /\ s \in Seq(Nodes) /\ Len(s) \in Nat
        /\ \A j \in 1 .. Len(s) : s[j] \in Nodes /\ s[j] # Root /\ t.parent[s[j]] = g /\ At(t, s[j]) = j
        /\ \A n \in Nodes : t.parent[n] = g => At(t, n) \in 1 .. Len(s) /\ s[At(t, n)] = n
    BY <1>1, <1>3, <1>5, KidsAtFacts DEF KidsAt
  <1>7. ASSUME NEW j \in 1 .. Len(s)
        PROVE  /\ s[j] \in B.blocks => Plays(t, s[j])
               /\ Plays(t, s[j]) /\ s[j] \notin B.blocks =>
                   s[j] \in Synths /\ g \notin ParGroups /\ j - 1 \in 1 .. Len(s) /\ s[j - 1] \in Synths
    <2>1. Plays(t, s[j]) <=> s[j] \in Synths \/ s[j] \in Live(t)
      BY <1>6, TailedFacts
    <2>2. s[j] \in Starts(t) <=> s[j] \in Synths /\ (g \in ParGroups \/ j = 1 \/ s[j - 1] \in Groups)
      BY <1>1, <1>3, <1>5, StartsAre
    <2>3. j # 1 => j - 1 \in 1 .. Len(s) /\ s[j - 1] \in Synths \cup Groups
      <3>1. j # 1 => j - 1 \in 1 .. Len(s)
        BY <1>6
      <3> QED BY <1>6, <3>1 DEF Nodes
    <2> QED BY <1>4, <2>1, <2>2, <2>3
  <1>8. \A n \in B.blocks : B.parent[n] = g => B.at[n] \in 1 .. Len(s) /\ s[B.at[n]] = n
    BY <1>4, <1>5, <1>6
  <1> QED BY <1>2, <1>3, <1>4, <1>5, <1>6, <1>7, <1>8 DEF BlockList

\* The run that begins with the block at position a ends at position e.
EndsAt(t, g, a, e) ==
    LET s == t.kids[g] IN
    /\ a \in 1 .. Len(s) /\ e \in a .. Len(s)
    /\ \A i \in a + 1 .. e : s[i] \notin PlanOf(t).blocks
    /\ e = Len(s) \/ s[e + 1] \in Groups \/ s[e] \in Groups

LEMMA NextBlock ==
  ASSUME NEW t, Tailed(t), NEW g \in Live(t), g \in SeqGroups, NEW s, s = t.kids[g],
         NEW a, NEW e, EndsAt(t, g, a, e), s[a] \in PlanOf(t).blocks
  PROVE  LET r == NextAfter(t, s, e)
         IN /\ r = 0 => NextTo(PlanOf(t), s[a]) = {}
            /\ r # 0 => e + r \in 1 .. Len(s) /\ NextTo(PlanOf(t), s[a]) = {s[e + r]}
  <1>1. PICK B : B = PlanOf(t)
    OBVIOUS
  <1>2. /\ s \in Seq(Nodes) /\ Len(s) \in Nat
        /\ \A j \in 1 .. Len(s) :
             /\ s[j] \in Nodes /\ s[j] # Root /\ B.parent[s[j]] = g /\ B.at[s[j]] = j
             /\ s[j] \in B.blocks => Plays(t, s[j])
             /\ Plays(t, s[j]) /\ s[j] \notin B.blocks => s[j] \in Synths /\ j - 1 \in 1 .. Len(s) /\ s[j - 1] \in Synths
        /\ \A n \in B.blocks : B.parent[n] = g => B.at[n] \in 1 .. Len(s) /\ s[B.at[n]] = n
    BY <1>1, BlockListFacts DEF BlockList
  <1>3. /\ a \in 1 .. Len(s) /\ e \in a .. Len(s) /\ e \in 1 .. Len(s)
        /\ \A i \in a + 1 .. e : s[i] \notin B.blocks
        /\ e = Len(s) \/ s[e + 1] \in Groups \/ s[e] \in Groups
    BY <1>1, <1>2 DEF EndsAt
  <1>4. Plan(B) /\ g \in B.seq
    BY <1>1, PlanRight, BlocksAre DEF Tailed
  <1>5. PICK r : r = NextAfter(t, s, e)
    OBVIOUS
  <1>6. \/ r = 0 /\ \A i \in e + 1 .. Len(s) : ~ Plays(t, s[i])
        \/ /\ r # 0 /\ r \in Nat /\ e + r \in e + 1 .. Len(s) /\ Plays(t, s[e + r])
           /\ \A i \in e + 1 .. e + r - 1 : ~ Plays(t, s[i])
    <2>1. e \in 0 .. Len(s)
      BY <1>2, <1>3
    <2>2. s \in Seq(Nodes)
      BY <1>2
    <2> QED BY <1>5, <2>1, <2>2, NextPlaying
  <1>7. ASSUME NEW c \in B.blocks, Before(B, s[a], c)
        PROVE  B.at[c] \in e + 1 .. Len(s) /\ s[B.at[c]] = c /\ Plays(t, s[B.at[c]])
    <2>1. B.parent[c] = g /\ a < B.at[c]
      BY <1>2, <1>3, <1>7 DEF Before
    <2>2. B.at[c] \in 1 .. Len(s) /\ s[B.at[c]] = c
      BY <1>2, <2>1
    <2>3. B.at[c] \notin a + 1 .. e
      BY <1>3, <2>2
    <2> QED BY SMTT(40), <1>2, <1>3, <2>1, <2>2, <2>3
  <1>8. CASE r = 0
    <2>1. \A c \in B.blocks : ~ Before(B, s[a], c)
      BY <1>6, <1>7, <1>8
    <2> QED BY <1>1, <1>5, <1>8, <2>1 DEF NextTo
  <1>9. CASE r # 0
    <2>1. PICK l : l = e + r
      OBVIOUS
    <2>9. r \in Nat /\ e + r \in e + 1 .. Len(s) /\ Plays(t, s[e + r]) /\ \A i \in e + 1 .. e + r - 1 : ~ Plays(t, s[i])
      BY <1>6, <1>9
    <2>8. l \in e + 1 .. Len(s) /\ Plays(t, s[l]) /\ \A i \in e + 1 .. l - 1 : ~ Plays(t, s[i])
      BY <1>2, <1>3, <2>1, <2>9
    <2>2. l \in e + 1 .. Len(s) /\ l \in 1 .. Len(s) /\ Plays(t, s[l]) /\ \A i \in e + 1 .. l - 1 : ~ Plays(t, s[i])
      BY <1>2, <1>3, <2>8
    <2>3. s[l] \in B.blocks
      <3> SUFFICES ASSUME s[l] \notin B.blocks PROVE FALSE
        OBVIOUS
      <3>1. s[l] \in Synths /\ l - 1 \in 1 .. Len(s) /\ s[l - 1] \in Synths
        BY <1>2, <2>2
      <3>2. CASE l = e + 1
        BY <1>2, <1>3, <2>2, <3>1, <3>2, NodeFacts
      <3>3. CASE l # e + 1
        <4>1. l - 1 \in e + 1 .. l - 1
          BY <1>3, <2>2, <3>3
        <4>2. Plays(t, s[l - 1])
          BY <3>1 DEF Plays
        <4> QED BY <2>2, <4>1, <4>2
      <3> QED BY <3>2, <3>3
    <2>4. Before(B, s[a], s[l])
      BY <1>1, <1>2, <1>3, <1>4, <2>2, <2>3 DEF Before
    <2>5. ASSUME NEW c \in B.blocks, Before(B, s[a], c) PROVE B.at[s[l]] <= B.at[c]
      <3>1. B.at[c] \in e + 1 .. Len(s) /\ Plays(t, s[B.at[c]])
        BY <1>7, <2>5
      <3>2. B.at[c] \notin e + 1 .. l - 1
        BY <2>2, <3>1
      <3> QED BY SMTT(40), <1>2, <1>3, <2>2, <3>1, <3>2
    <2>6. s[l] \in NextTo(B, s[a])
      BY <2>3, <2>4, <2>5 DEF NextTo
    <2>7. NextTo(B, s[a]) = {s[l]}
      BY <1>1, <1>4, <2>3, <2>6, Siblings
    <2> QED BY <1>1, <1>5, <1>9, <2>1, <2>2, <2>7
  <1> QED BY <1>8, <1>9

\* Where the block begins that the k-th child of a sequential group belongs to.
BlockOf(t, g, k) == IF t.kids[g][k] \in Synths THEN RunStart(t, g, k) ELSE k

LEMMA BlockOfFacts ==
  ASSUME NEW t, Tailed(t), NEW g \in Live(t), g \in SeqGroups, NEW s, s = t.kids[g],
         NEW k \in 1 .. Len(s), Plays(t, s[k])
  PROVE  /\ BlockOf(t, g, k) \in 1 .. k /\ s[BlockOf(t, g, k)] \in PlanOf(t).blocks
         /\ \A i \in BlockOf(t, g, k) + 1 .. k : s[i] \notin PlanOf(t).blocks
         /\ s[k] \in Synths => s[BlockOf(t, g, k)] \in Starts(t)
         /\ s[k] \notin Synths => BlockOf(t, g, k) = k /\ s[k] \in Live(t)
  <1>1. Sound(t) /\ HasSynths(t, Root) /\ g \in Groups /\ g \notin ParGroups
    BY BlockListFacts, NodesAssumption DEF Tailed
  <1>2. Len(s) \in Nat /\ s[k] \in Nodes /\ t.parent[s[k]] = g
    BY <1>1, KidsAtFacts DEF KidsAt
  <1>3. PlanOf(t).blocks = Live(t) \cup Starts(t) /\ Live(t) \cap Synths = {}
    BY <1>1, BlocksAre, LiveFacts, NodeFacts
  <1>4. CASE s[k] \in Synths
    <2>1. PICK b : b = RunStart(t, g, k)
      OBVIOUS
    <2>2. /\ b \in 1 .. k /\ s[b] \in Starts(t)
          /\ \A i \in b .. k : s[i] \in Synths
          /\ \A i \in b + 1 .. k : s[i] \notin Starts(t)
      BY <1>1, <1>4, <2>1, RunStarts
    <2>3. \A i \in b + 1 .. k : s[i] \notin PlanOf(t).blocks
      <3> TAKE i \in b + 1 .. k
      <3>1. i \in b .. k
        BY <2>2
      <3> QED BY <1>3, <2>2, <3>1
    <2> QED BY <1>3, <1>4, <2>1, <2>2, <2>3 DEF BlockOf
  <1>5. CASE s[k] \notin Synths
    <2>1. s[k] \in Live(t)
      BY <1>2, <1>5, TailedFacts
    <2>2. BlockOf(t, g, k) = k
      BY <1>5 DEF BlockOf
    <2> QED BY <1>2, <1>3, <1>5, <2>1, <2>2
  <1> QED BY <1>4, <1>5

LEMMA PrevBlock ==
  ASSUME NEW t, Tailed(t), NEW g \in Live(t), g \in SeqGroups, NEW s, s = t.kids[g],
         NEW a \in 1 .. Len(s), s[a] \in PlanOf(t).blocks
  PROVE  LET r == LastBefore(t, s, a)
         IN /\ r = 0 => PrevTo(PlanOf(t), s[a]) = {}
            /\ r # 0 => /\ r \in 1 .. Len(s) /\ Plays(t, s[r])
                        /\ PrevTo(PlanOf(t), s[a]) = {s[BlockOf(t, g, r)]}
  <1>1. PICK B : B = PlanOf(t)
    OBVIOUS
  <1>2. /\ s \in Seq(Nodes) /\ Len(s) \in Nat
        /\ \A j \in 1 .. Len(s) :
             /\ s[j] \in Nodes /\ B.parent[s[j]] = g /\ B.at[s[j]] = j
             /\ s[j] \in B.blocks => Plays(t, s[j])
        /\ \A n \in B.blocks : B.parent[n] = g => B.at[n] \in 1 .. Len(s) /\ s[B.at[n]] = n
    BY <1>1, BlockListFacts DEF BlockList
  <1>3. \A j \in 1 .. Len(s) : Tails(t, s[j]) # 0 <=> Plays(t, s[j])
    <2>1. B.parent = t.parent
      BY <1>1, BlocksAre DEF Tailed
    <2> QED BY <1>2, <2>1, TailedFacts
  <1>4. Plan(B) /\ g \in B.seq
    BY <1>1, PlanRight, BlocksAre DEF Tailed
  <1>5. PICK r : r = LastBefore(t, s, a)
    OBVIOUS
  <1>6. \/ r = 0 /\ \A i \in 1 .. a - 1 : Tails(t, s[i]) = 0
        \/ /\ r \in 1 .. a - 1 /\ Tails(t, s[r]) # 0 /\ r # 0
           /\ \A i \in r + 1 .. a - 1 : Tails(t, s[i]) = 0
    <2>1. s \in Seq(Nodes)
      BY <1>2
    <2>2. TailedAt(t, s, a, LastBefore(t, s, a))
      BY <2>1, PrevTailed
    <2> QED BY <1>5, <2>2 DEF TailedAt
  <1>7. ASSUME NEW c \in B.blocks, Before(B, c, s[a])
        PROVE  B.at[c] \in 1 .. a - 1 /\ s[B.at[c]] = c /\ Tails(t, s[B.at[c]]) # 0
    <2>1. B.parent[c] = g /\ B.at[c] < a
      BY <1>2, <1>7 DEF Before
    <2>2. B.at[c] \in 1 .. Len(s) /\ s[B.at[c]] = c
      BY <1>2, <2>1
    <2> QED BY <1>2, <1>3, <2>1, <2>2
  <1>8. CASE r = 0
    <2>1. \A c \in B.blocks : ~ Before(B, c, s[a])
      BY <1>6, <1>7, <1>8
    <2> QED BY <1>1, <1>5, <1>8, <2>1 DEF NextTo, PrevTo
  <1>9. CASE r # 0
    <2>1. r \in 1 .. a - 1 /\ r \in 1 .. Len(s) /\ Tails(t, s[r]) # 0
      BY <1>2, <1>6, <1>9
    <2>2. Plays(t, s[r]) /\ \A i \in r + 1 .. a - 1 : Tails(t, s[i]) = 0
      BY <1>3, <1>6, <1>9, <2>1
    <2>3. PICK b : b = BlockOf(t, g, r)
      OBVIOUS
    <2>4. b \in 1 .. r /\ s[b] \in B.blocks /\ \A i \in b + 1 .. r : s[i] \notin B.blocks
      BY <1>1, <2>1, <2>2, <2>3, BlockOfFacts
    <2>5. b \in 1 .. Len(s) /\ b < a
      BY <1>2, <2>1, <2>4
    <2>6. Before(B, s[b], s[a])
      BY <1>1, <1>2, <1>4, <2>4, <2>5 DEF Before
    <2>7. ASSUME NEW c \in B.blocks, Before(B, c, s[a]) PROVE B.at[c] <= B.at[s[b]]
      <3>1. B.at[c] \in 1 .. a - 1 /\ s[B.at[c]] = c /\ Tails(t, s[B.at[c]]) # 0
        BY <1>7, <2>7
      <3>2. B.at[c] \notin r + 1 .. a - 1 /\ B.at[c] \notin b + 1 .. r
        BY <2>2, <2>4, <3>1
      <3> QED BY SMTT(40), <1>2, <2>1, <2>4, <2>5, <3>1, <3>2
    <2>8. s[b] \in PrevTo(B, s[a])
      BY <1>1, <1>4, <2>4, <2>6, <2>7, Siblings
    <2>9. PrevTo(B, s[a]) = {s[b]}
      BY <1>1, <1>4, <2>4, <2>8, Siblings
    <2> QED BY <1>1, <1>5, <1>9, <2>1, <2>2, <2>3, <2>9
  <1> QED BY <1>8, <1>9

(* The block a sequential group ends with, and the one it begins with.     *)
EndsWith(t, g, k) ==
    LET s == t.kids[g] IN
    /\ LastNode(t, g) = {s[k]} /\ Plays(t, s[k])
    /\ \A c \in PlanOf(t).blocks :
          PlanOf(t).parent[c] = g => (NextTo(PlanOf(t), c) = {} <=> c = s[BlockOf(t, g, k)])
BeginsWith(t, g, k) ==
    LET s == t.kids[g] IN
    /\ FirstNode(t, g) = {s[k]} /\ s[k] \in PlanOf(t).blocks
    /\ \A c \in PlanOf(t).blocks :
          PlanOf(t).parent[c] = g => (PrevTo(PlanOf(t), c) = {} <=> c = s[k])

LEMMA LastBlock ==
  ASSUME NEW t, Tailed(t), NEW g \in Live(t), g \in SeqGroups
  PROVE  \E k \in 1 .. Len(t.kids[g]) : EndsWith(t, g, k)
  <1>1. PICK B : B = PlanOf(t)
    OBVIOUS
  <1> DEFINE s == t.kids[g]
  <1>2. /\ s \in Seq(Nodes) /\ Len(s) \in Nat
        /\ \A j \in 1 .. Len(s) : s[j] \in Nodes /\ B.parent[s[j]] = g /\ B.at[s[j]] = j
        /\ \A n \in B.blocks : B.parent[n] = g => B.at[n] \in 1 .. Len(s) /\ s[B.at[n]] = n
        /\ \A j \in 1 .. Len(s) : s[j] \in B.blocks => Plays(t, s[j])
    BY <1>1, BlockListFacts DEF BlockList
  <1>3. PICK k \in 1 .. Len(s) : /\ LastNode(t, g) = {s[k]} /\ Plays(t, s[k])
                                 /\ \A i \in k + 1 .. Len(s) : ~ Plays(t, s[i])
    BY NodesAssumption, LastPlays
  <1>4. PICK b : b = BlockOf(t, g, k)
    OBVIOUS
  <1>5. b \in 1 .. k /\ s[b] \in B.blocks /\ \A i \in b + 1 .. k : s[i] \notin B.blocks
    BY <1>1, <1>3, <1>4, BlockOfFacts
  <1>6. b \in 1 .. Len(s) /\ k \in 1 .. Len(s)
    BY <1>2, <1>3, <1>5
  <1>7. Plan(B) /\ g \in B.seq
    BY <1>1, PlanRight, BlocksAre DEF Tailed
  <1>8. ASSUME NEW c \in B.blocks, B.parent[c] = g PROVE c = s[b] \/ Before(B, c, s[b])
    <2>1. B.at[c] \in 1 .. Len(s) /\ s[B.at[c]] = c /\ Plays(t, s[B.at[c]])
      BY <1>2, <1>8
    <2>2. B.at[c] \notin b + 1 .. k /\ B.at[c] \notin k + 1 .. Len(s)
      BY <1>3, <1>5, <2>1
    <2>3. B.at[c] <= b
      BY <1>2, <1>5, <1>6, <2>1, <2>2
    <2> QED BY <1>2, <1>5, <1>6, <1>7, <1>8, <2>1, <2>3 DEF Before
  <1>9. \A d \in B.blocks : ~ Before(B, s[b], d)
    <2> SUFFICES ASSUME NEW d \in B.blocks, Before(B, s[b], d) PROVE FALSE
      OBVIOUS
    <2>1. B.parent[d] = g /\ b < B.at[d] /\ B.at[d] \in Nat
      BY <1>2, <1>6, <1>7 DEF Before, Plan
    <2>2. d = s[b] \/ Before(B, d, s[b])
      BY <1>8, <2>1
    <2> QED BY <1>2, <1>6, <2>1, <2>2 DEF Before
  <1>10. NextTo(B, s[b]) = {}
    BY <1>9 DEF NextTo
  <1>11. \A c \in B.blocks : B.parent[c] = g /\ c # s[b] => NextTo(B, c) # {}
    BY <1>1, <1>5, <1>7, <1>8, Siblings
  <1> QED BY <1>1, <1>3, <1>4, <1>10, <1>11 DEF EndsWith

LEMMA FirstBlock ==
  ASSUME NEW t, Tailed(t), NEW g \in Live(t), g \in SeqGroups
  PROVE  \E k \in 1 .. Len(t.kids[g]) : BeginsWith(t, g, k)
  <1>1. PICK B : B = PlanOf(t)
    OBVIOUS
  <1> DEFINE s == t.kids[g]
  <1>2. /\ s \in Seq(Nodes) /\ Len(s) \in Nat
        /\ \A j \in 1 .. Len(s) :
             /\ s[j] \in Nodes /\ B.parent[s[j]] = g /\ B.at[s[j]] = j
             /\ s[j] \in B.blocks => Plays(t, s[j])
             /\ Plays(t, s[j]) /\ s[j] \notin B.blocks => s[j] \in Synths /\ j - 1 \in 1 .. Len(s) /\ s[j - 1] \in Synths
        /\ \A n \in B.blocks : B.parent[n] = g => B.at[n] \in 1 .. Len(s) /\ s[B.at[n]] = n
    BY <1>1, BlockListFacts DEF BlockList
  <1>3. Plan(B) /\ g \in B.seq /\ g \in B.blocks \ B.leaves
    BY <1>1, PlanRight, BlocksAre DEF Tailed
  <1>4. PICK r : r = NextAfter(t, s, 0)
    OBVIOUS
  <1>5. FirstNode(t, g) = IF r = 0 THEN {} ELSE {s[r]}
    <2>1. SubSeq(s, 0 + 1, Len(s)) = s
      BY <1>2
    <2>2. r = SelectInSeq(s, LAMBDA n : Plays(t, n))
      BY <1>4, <2>1 DEF NextAfter
    <2> QED BY <2>2 DEF FirstNode
  <1>6. \/ r = 0 /\ \A i \in 0 + 1 .. Len(s) : ~ Plays(t, s[i])
        \/ /\ r # 0 /\ r \in Nat /\ 0 + r \in 0 + 1 .. Len(s) /\ Plays(t, s[0 + r])
           /\ \A i \in 0 + 1 .. 0 + r - 1 : ~ Plays(t, s[i])
    <2>1. 0 \in 0 .. Len(s) /\ s \in Seq(Nodes)
      BY <1>2
    <2> QED BY <1>4, <2>1, NextPlaying
  <1>7. PICK c \in B.blocks : B.parent[c] = g
    BY <1>3 DEF Plan
  <1>8. B.at[c] \in 1 .. Len(s) /\ Plays(t, s[B.at[c]])
    BY <1>2, <1>7
  <1>9. /\ r \in 1 .. Len(s) /\ r # 0 /\ Plays(t, s[r])
        /\ \A i \in 1 .. r - 1 : ~ Plays(t, s[i])
    <2>1. r # 0
      BY <1>6, <1>8
    <2>2. /\ r \in Nat /\ 0 + r \in 0 + 1 .. Len(s) /\ Plays(t, s[0 + r])
          /\ \A i \in 0 + 1 .. 0 + r - 1 : ~ Plays(t, s[i])
      BY <1>6, <2>1
    <2> QED BY <1>2, <2>1, <2>2
  <1>10. s[r] \in B.blocks
    <2> SUFFICES ASSUME s[r] \notin B.blocks PROVE FALSE
      OBVIOUS
    <2>1. r - 1 \in 1 .. Len(s) /\ s[r - 1] \in Synths
      BY <1>2, <1>9
    <2>2. r - 1 \in 1 .. r - 1 /\ Plays(t, s[r - 1])
      BY <1>9, <2>1 DEF Plays
    <2> QED BY <1>9, <2>2
  <1>11. ASSUME NEW d \in B.blocks, B.parent[d] = g PROVE d = s[r] \/ Before(B, s[r], d)
    <2>1. B.at[d] \in 1 .. Len(s) /\ s[B.at[d]] = d /\ Plays(t, s[B.at[d]])
      BY <1>2, <1>11
    <2>2. r <= B.at[d]
      BY <1>2, <1>9, <2>1
    <2> QED BY <1>2, <1>3, <1>9, <1>10, <1>11, <2>1, <2>2 DEF Before
  <1>12. \A d \in B.blocks : ~ Before(B, d, s[r])
    <2> SUFFICES ASSUME NEW d \in B.blocks, Before(B, d, s[r]) PROVE FALSE
      OBVIOUS
    <2>1. B.parent[d] = g /\ B.at[d] < r /\ B.at[d] \in Nat
      BY <1>2, <1>3, <1>9 DEF Before, Plan
    <2>2. d = s[r] \/ Before(B, s[r], d)
      BY <1>11, <2>1
    <2> QED BY <1>2, <1>9, <2>1, <2>2 DEF Before
  <1>13. PrevTo(B, s[r]) = {}
    BY <1>12 DEF PrevTo, NextTo
  <1>14. \A d \in B.blocks : B.parent[d] = g /\ d # s[r] => PrevTo(B, d) # {}
    BY <1>3, <1>10, <1>11, Siblings
  <1> QED BY <1>1, <1>5, <1>9, <1>10, <1>13, <1>14 DEF BeginsWith

-----------------------------------------------------------------------------
(* What the generator reaches among the groups is the closure in the plan. *)
Mirrors(t, down, C) ==
    /\ \A h \in Groups : down[h] \subseteq Groups
    /\ C \subseteq PlanOf(t).blocks
    /\ \A h \in Groups, x \in Live(t) : x \in down[h] <=> h \in Live(t) /\ x \in C /\ t.parent[x] = h

LEMMA ReachedClosure ==
  ASSUME NEW t, Tailed(t), NEW down, NEW C, Mirrors(t, down, C), NEW n \in Live(t)
  PROVE  Reached(down, n) \cap Live(t) = Closure(PlanOf(t), C, n) \cap Live(t)
  <1>1. PICK B : B = PlanOf(t)
    OBVIOUS
  <1>2. /\ B.blocks = Live(t) \cup Starts(t) /\ B.parent = t.parent /\ Live(t) \subseteq Groups
        /\ B.leaves = Starts(t) /\ Live(t) \cap Starts(t) = {}
    BY <1>1, BlocksAre, LiveFacts DEF Tailed
  <1>3. /\ \A h \in Groups : down[h] \subseteq Groups
        /\ C \in SUBSET B.blocks
        /\ \A h \in Groups, x \in Live(t) : x \in down[h] <=> h \in Live(t) /\ x \in C /\ B.parent[x] = h
    BY <1>1, <1>2 DEF Mirrors
  <1>4. n \in Groups /\ n \in B.blocks
    BY <1>2
  <1>5. /\ n \in Closure(B, C, n)
        /\ \A c \in C : B.parent[c] \in Closure(B, C, n) => c \in Closure(B, C, n)
        /\ \A S \in SUBSET B.blocks :
              n \in S /\ (\A c \in C : B.parent[c] \in S => c \in S) => Closure(B, C, n) \subseteq S
    BY <1>3, <1>4, ClosureFacts
  <1>6. /\ n \in Reached(down, n) /\ Reached(down, n) \subseteq Groups
        /\ \A h \in Reached(down, n) : down[h] \subseteq Reached(down, n)
        /\ \A S \in SUBSET Groups :
              n \in S /\ (\A i \in S : down[i] \subseteq S) => Reached(down, n) \subseteq S
    BY <1>3, <1>4, ReachedFacts
  <1>7. Reached(down, n) \cap Live(t) \subseteq Closure(B, C, n)
    <2> DEFINE S == {h \in Groups : h \in Live(t) => h \in Closure(B, C, n)}
    <2>1. S \in SUBSET Groups /\ n \in S
      BY <1>4, <1>5
    <2>2. ASSUME NEW i \in S, NEW x \in down[i] PROVE x \in S
      <3>1. x \in Groups /\ i \in Groups
        BY <1>3
      <3>2. ASSUME x \in Live(t) PROVE x \in Closure(B, C, n)
        <4>1. i \in Live(t) /\ x \in C /\ B.parent[x] = i
          BY <1>3, <2>2, <3>1, <3>2
        <4> QED BY <1>5, <4>1
      <3> QED BY <3>1, <3>2
    <2>3. Reached(down, n) \subseteq S
      <3> HIDE DEF S
      <3> QED BY <1>6, <2>1, <2>2
    <2> QED BY <2>3
  <1>8. Closure(B, C, n) \cap Live(t) \subseteq Reached(down, n)
    <2> DEFINE S == {b \in B.blocks : b \in Live(t) => b \in Reached(down, n)}
    <2>1. S \in SUBSET B.blocks /\ n \in S
      BY <1>4, <1>6
    <2>2. ASSUME NEW c \in C, B.parent[c] \in S PROVE c \in S
      <3>1. ASSUME c \in Live(t) PROVE c \in Reached(down, n)
        <4>1. Plan(B) /\ c # Root /\ B.parent[c] \in B.blocks \ B.leaves
          <5>1. Plan(B)
            BY <1>1, PlanRight DEF Tailed
          <5> QED BY <1>3, <2>2, <5>1 DEF Plan
        <4>2. B.parent[c] \in Live(t) /\ B.parent[c] \in Groups
          BY <1>2, <4>1
        <4>3. c \in down[B.parent[c]]
          BY <1>3, <3>1, <4>2
        <4> QED BY <1>6, <2>2, <4>2, <4>3
      <3> QED BY <1>3, <3>1
    <2>3. Closure(B, C, n) \subseteq S
      <3> HIDE DEF S
      <3> QED BY <1>5, <2>1, <2>2
    <2> QED BY <2>3
  <1> QED BY <1>1, <1>7, <1>8

LEMMA FirstNodeKid ==
  ASSUME NEW t, Sound(t), NEW h \in Groups, NEW x \in FirstNode(t, h)
  PROVE  t.parent[x] = h
  <1>1. PICK s : s = t.kids[h]
    OBVIOUS
  <1>2. s \in Seq(Nodes) /\ Len(s) \in Nat /\ \A j \in 1 .. Len(s) : t.parent[s[j]] = h
    BY <1>1, KidsAtFacts DEF KidsAt
  <1>3. PICK r : r = NextAfter(t, s, 0)
    OBVIOUS
  <1>4. FirstNode(t, h) = IF r = 0 THEN {} ELSE {s[r]}
    <2>1. SubSeq(s, 0 + 1, Len(s)) = s
      BY <1>2
    <2>2. r = SelectInSeq(s, LAMBDA n : Plays(t, n))
      BY <1>3, <2>1 DEF NextAfter
    <2> QED BY <1>1, <2>2 DEF FirstNode
  <1>5. r # 0 => r \in Nat /\ 0 + r \in 0 + 1 .. Len(s)
    <2>1. 0 \in 0 .. Len(s) /\ s \in Seq(Nodes)
      BY <1>2
    <2> QED BY <1>3, <2>1, NextPlaying
  <1>6. r # 0 /\ x = s[r]
    BY <1>4
  <1>7. r \in 1 .. Len(s)
    BY <1>2, <1>5, <1>6
  <1> QED BY <1>2, <1>6, <1>7

LEMMA EndsMirror ==
  ASSUME NEW t, Tailed(t)
  PROVE  Mirrors(t, EndsIn(t), Lasts(PlanOf(t)))
  <1>1. PICK B : B = PlanOf(t)
    OBVIOUS
  <1>2. /\ B.blocks = Live(t) \cup Starts(t) /\ B.parent = t.parent /\ Live(t) \subseteq Groups
        /\ B.seq = Live(t) \cap SeqGroups /\ Live(t) \cap Starts(t) = {} /\ Plan(B)
    BY <1>1, BlocksAre, LiveFacts, PlanRight DEF Tailed
  <1>3. /\ \A h \in Groups : EndsIn(t)[h] \subseteq Groups /\ \A x \in EndsIn(t)[h] : t.parent[x] = h
        /\ Sound(t)
    BY SubgroupsEnd DEF Tailed
  <1>4. \A x \in Live(t), h \in Groups : t.parent[x] = h => h \in Live(t)
    BY GroupsAreKids, LiveFacts, NodeFacts DEF Tailed
  <1>5. ASSUME NEW h \in Live(t), NEW x \in Live(t), t.parent[x] = h
        PROVE  x \in EndsIn(t)[h] <=> NextTo(B, x) = {}
    <2>1. x \in B.blocks /\ x \in Groups /\ h \in Groups
      BY <1>2
    <2>2. CASE h \in ParGroups
      <3>1. EndsIn(t)[h] = Kids(t.parent)[h]
        BY <1>3, <2>1, <2>2, GroupsAreKids DEF EndsIn
      <3>2. x \in EndsIn(t)[h]
        BY <1>5, <2>1, <3>1 DEF Kids
      <3>3. NextTo(B, x) = {}
        BY <1>2, <1>5, <2>1, <2>2, NodesAssumption, Siblings
      <3> QED BY <3>2, <3>3
    <2>3. CASE h \in SeqGroups
      <3>1. EndsIn(t)[h] = LastNode(t, h) \cap Groups
        BY <2>1, <2>3, NodesAssumption DEF EndsIn
      <3>2. PICK s : s = t.kids[h]
        OBVIOUS
      <3>3. PICK k \in 1 .. Len(s) : /\ LastNode(t, h) = {s[k]} /\ Plays(t, s[k])
                                     /\ \A c \in B.blocks :
                                          B.parent[c] = h => (NextTo(B, c) = {} <=> c = s[BlockOf(t, h, k)])
        <4>1. PICK k \in 1 .. Len(s) : EndsWith(t, h, k)
          BY <2>3, <3>2, LastBlock
        <4> QED BY <1>1, <3>2, <4>1 DEF EndsWith
      <3>4. /\ s[k] \in Synths => s[BlockOf(t, h, k)] \in Starts(t)
            /\ s[k] \notin Synths => BlockOf(t, h, k) = k
        BY <2>3, <3>2, <3>3, BlockOfFacts
      <3>5. NextTo(B, x) = {} <=> x = s[BlockOf(t, h, k)]
        BY <1>2, <1>5, <2>1, <3>3
      <3>6. CASE s[k] \in Synths
        BY <1>2, <2>1, <3>1, <3>3, <3>4, <3>5, <3>6, NodeFacts
      <3>7. CASE s[k] \notin Synths
        BY <2>1, <3>1, <3>3, <3>4, <3>5, <3>7
      <3> QED BY <3>6, <3>7
    <2> QED BY <2>1, <2>2, <2>3 DEF Groups
  <1>6. \A h \in Groups, x \in Live(t) : x \in EndsIn(t)[h] <=> h \in Live(t) /\ x \in Lasts(B) /\ t.parent[x] = h
    BY <1>2, <1>3, <1>4, <1>5 DEF Lasts
  <1>7. Lasts(B) \subseteq B.blocks
    BY DEF Lasts
  <1> QED BY <1>1, <1>3, <1>6, <1>7 DEF Mirrors

LEMMA BeginsMirror ==
  ASSUME NEW t, Tailed(t)
  PROVE  /\ Mirrors(t, BeginsIn(t), Firsts(PlanOf(t)))
         /\ \A h \in Live(t) : BeginsIn(t)[h] \subseteq Live(t)
  <1>1. PICK B : B = PlanOf(t)
    OBVIOUS
  <1>2. /\ B.blocks = Live(t) \cup Starts(t) /\ B.parent = t.parent /\ Live(t) \subseteq Groups
        /\ B.seq = Live(t) \cap SeqGroups /\ Live(t) \cap Starts(t) = {} /\ Plan(B)
        /\ Starts(t) \subseteq Synths
    BY <1>1, BlocksAre, LiveFacts, PlanRight DEF Tailed
  <1>3. /\ \A h \in Groups : BeginsIn(t)[h] \subseteq Groups /\ \A x \in BeginsIn(t)[h] : t.parent[x] = h
        /\ Sound(t)
    <2>1. Sound(t)
      BY DEF Tailed
    <2>2. \A h \in Groups : Filled(t)[h] = {x \in Groups : t.parent[x] = h /\ HasSynths(t, x)}
      BY <2>1, GroupsAreKids
    <2>3. \A h \in Groups : \A x \in FirstNode(t, h) : t.parent[x] = h
      BY <2>1, FirstNodeKid
    <2> QED BY <2>1, <2>2, <2>3 DEF BeginsIn
  <1>4. \A x \in Live(t), h \in Groups : t.parent[x] = h => h \in Live(t)
    BY GroupsAreKids, LiveFacts, NodeFacts DEF Tailed
  <1>5. ASSUME NEW h \in Live(t)
        PROVE  /\ BeginsIn(t)[h] \subseteq Live(t)
               /\ \A x \in Live(t) : t.parent[x] = h => (x \in BeginsIn(t)[h] <=> PrevTo(B, x) = {})
    <2>1. h \in Groups
      BY <1>2
    <2>2. CASE h \in ParGroups
      <3>1. BeginsIn(t)[h] = {x \in Groups : t.parent[x] = h /\ HasSynths(t, x)}
        BY <1>3, <2>1, <2>2, GroupsAreKids DEF BeginsIn
      <3>2. \A x \in Groups : t.parent[x] = h => (x \in Live(t) <=> HasSynths(t, x))
        BY LiveFacts DEF Tailed
      <3>3. \A x \in Live(t) : t.parent[x] = h => PrevTo(B, x) = {}
        BY <1>2, <2>2, NodesAssumption, Siblings
      <3> QED BY <1>2, <3>1, <3>2, <3>3
    <2>3. CASE h \in SeqGroups
      <3>1. BeginsIn(t)[h] = FirstNode(t, h) \cap Groups
        BY <2>1, <2>3, NodesAssumption DEF BeginsIn
      <3>2. PICK s : s = t.kids[h]
        OBVIOUS
      <3>3. PICK k \in 1 .. Len(s) : /\ FirstNode(t, h) = {s[k]} /\ s[k] \in B.blocks
                                     /\ \A c \in B.blocks : B.parent[c] = h => (PrevTo(B, c) = {} <=> c = s[k])
        <4>1. PICK k \in 1 .. Len(s) : BeginsWith(t, h, k)
          BY <2>3, <3>2, FirstBlock
        <4> QED BY <1>1, <3>2, <4>1 DEF BeginsWith
      <3> QED BY <1>2, <3>1, <3>3, NodeFacts
    <2> QED BY <2>1, <2>2, <2>3 DEF Groups
  <1>6. \A h \in Groups, x \in Live(t) : x \in BeginsIn(t)[h] <=> h \in Live(t) /\ x \in Firsts(B) /\ t.parent[x] = h
    BY <1>2, <1>3, <1>4, <1>5 DEF Firsts
  <1>7. Firsts(B) \subseteq B.blocks
    BY DEF Firsts
  <1>8. Mirrors(t, BeginsIn(t), Firsts(B))
    BY <1>1, <1>3, <1>6, <1>7 DEF Mirrors
  <1> QED BY <1>1, <1>5, <1>8

-----------------------------------------------------------------------------
(* The items a group begins with are its first leaves, and the number that *)
(* ends it is the number of its last leaves.                               *)
LEMMA ClosureLeaves ==
  ASSUME NEW B, Plan(B), NEW C \in SUBSET B.blocks, NEW n \in B.blocks, NEW x \in B.leaves
  PROVE  /\ n \notin B.leaves =>
               (x \in Closure(B, C, n) <=>
                   x \in C /\ B.parent[x] \in Closure(B, C, n) /\ B.parent[x] \in B.blocks \ B.leaves)
         /\ Closure(B, C, x) = {x}
  <1>1. x \in B.blocks /\ x # Root /\ B.parent[x] \in B.blocks \ B.leaves
    BY DEF Plan
  <1>2. n \notin B.leaves =>
               (x \in Closure(B, C, n) <=>
                   x \in C /\ B.parent[x] \in Closure(B, C, n) /\ B.parent[x] \in B.blocks \ B.leaves)
    BY <1>1, ClosureFacts
  <1>3. \A c \in B.blocks : B.parent[c] # x
    BY <1>1 DEF Plan
  <1>4. Closure(B, C, x) \subseteq {x}
    <2>1. {x} \in SUBSET B.blocks /\ x \in {x} /\ \A c \in C : B.parent[c] \in {x} => c \in {x}
      BY <1>1, <1>3
    <2> QED BY <1>1, <2>1, ClosureFacts
  <1>5. x \in Closure(B, C, x)
    BY <1>1, ClosureFacts
  <1> QED BY <1>2, <1>4, <1>5

LEMMA LeavesAre ==
  ASSUME NEW B, Plan(B), NEW x \in B.leaves
  PROVE  FirstLeaves(B, x) = {x} /\ LastLeaves(B, x) = {x} /\ x \in B.blocks
  <1>1. x \in B.blocks /\ Firsts(B) \in SUBSET B.blocks /\ Lasts(B) \in SUBSET B.blocks
    BY DEF Plan, Firsts, Lasts
  <1>2. Closure(B, Firsts(B), x) = {x} /\ Closure(B, Lasts(B), x) = {x}
    BY <1>1, ClosureLeaves
  <1> QED BY <1>1, <1>2 DEF FirstLeaves, LastLeaves

\* The synths of group h that begin it or end it.
OwnHeads(t, h) == (IF h \in ParGroups THEN ToSet(t.kids[h]) ELSE FirstNode(t, h)) \cap Synths
OwnFirsts(t, h) == {c \in Starts(t) : t.parent[c] = h /\ PrevTo(PlanOf(t), c) = {}}
OwnLasts(t, h)  == {c \in Starts(t) : t.parent[c] = h /\ NextTo(PlanOf(t), c) = {}}

LEMMA OwnOfParallel ==
  ASSUME NEW t, Tailed(t), NEW h \in Live(t), h \in ParGroups
  PROVE  /\ OwnFirsts(t, h) = Kin(t.parent, h) \cap Synths
         /\ OwnLasts(t, h) = Kin(t.parent, h) \cap Synths
         /\ ToSet(t.kids[h]) = Kin(t.parent, h)
  <1>1. /\ PlanOf(t).blocks = Live(t) \cup Starts(t) /\ PlanOf(t).parent = t.parent
        /\ PlanOf(t).seq = Live(t) \cap SeqGroups /\ Plan(PlanOf(t)) /\ Starts(t) \subseteq Synths
    BY BlocksAre, PlanRight DEF Tailed
  <1>2. h \in Groups /\ h # Nil
    BY LiveFacts, NodeFacts DEF Tailed
  <1>3. ToSet(t.kids[h]) = Kin(t.parent, h)
    BY <1>2 DEF Tailed, Sound, FitsAt
  <1>4. ASSUME NEW c \in Synths, t.parent[c] = h
        PROVE  c \in Starts(t) /\ NextTo(PlanOf(t), c) = {} /\ PrevTo(PlanOf(t), c) = {}
    <2>1. c \in Starts(t)
      BY <1>2, <1>4 DEF Starts, SynthsIn
    <2> QED BY <1>1, <1>4, <2>1, NodesAssumption, Siblings
  <1>5. Kin(t.parent, h) \cap Synths = {c \in Synths : t.parent[c] = h}
    BY NodeFacts DEF Kin
  <1> QED BY <1>1, <1>3, <1>4, <1>5 DEF OwnFirsts, OwnLasts

LEMMA OwnHeadsAre ==
  ASSUME NEW t, Tailed(t), NEW h \in Live(t)
  PROVE  OwnHeads(t, h) = OwnFirsts(t, h)
  <1>1. CASE h \in ParGroups
    BY <1>1, OwnOfParallel DEF OwnHeads
  <1>2. CASE h \notin ParGroups
    <2>1. h \in SeqGroups /\ Live(t) \cap Synths = {}
      BY <1>2, LiveFacts, NodeFacts DEF Tailed, Groups
    <2>2. PlanOf(t).blocks = Live(t) \cup Starts(t) /\ PlanOf(t).parent = t.parent /\ Starts(t) \subseteq Synths
      BY BlocksAre DEF Tailed
    <2>3. PICK s : s = t.kids[h]
      OBVIOUS
    <2>4. PICK k \in 1 .. Len(s) :
            /\ FirstNode(t, h) = {s[k]} /\ s[k] \in PlanOf(t).blocks
            /\ \A c \in PlanOf(t).blocks :
                  PlanOf(t).parent[c] = h => (PrevTo(PlanOf(t), c) = {} <=> c = s[k])
      <3>1. PICK k \in 1 .. Len(s) : BeginsWith(t, h, k)
        BY <2>1, <2>3, FirstBlock
      <3> QED BY <2>3, <3>1 DEF BeginsWith
    <2>5. t.parent[s[k]] = h
      BY <2>1, <2>4, FirstNodeKid DEF Tailed, Groups
    <2>6. OwnHeads(t, h) = {s[k]} \cap Synths
      BY <1>2, <2>4 DEF OwnHeads
    <2> QED BY <2>1, <2>2, <2>4, <2>5, <2>6 DEF OwnFirsts
  <1> QED BY <1>1, <1>2

LEMMA HeadsAre ==
  ASSUME NEW t, Tailed(t), NEW n \in PlanOf(t).blocks
  PROVE  Heads(t, n) = FirstLeaves(PlanOf(t), n)
  <1>1. PICK B : B = PlanOf(t)
    OBVIOUS
  <1>2. /\ B.blocks = Live(t) \cup Starts(t) /\ B.leaves = Starts(t) /\ B.parent = t.parent
        /\ Live(t) \subseteq Groups /\ Starts(t) \subseteq Synths /\ Live(t) \cap Starts(t) = {} /\ Plan(B)
    BY <1>1, BlocksAre, LiveFacts, PlanRight DEF Tailed
  <1>3. CASE n \in Starts(t)
    BY <1>1, <1>2, <1>3, LeavesAre DEF Heads
  <1>4. CASE n \in Live(t)
    <2>1. n \notin Synths /\ n \in Groups
      BY <1>2, <1>4, NodeFacts
    <2>2. Reached(BeginsIn(t), n) \subseteq Live(t)
      <3>1. \A h \in Groups : BeginsIn(t)[h] \subseteq Groups
        BY BeginsMirror DEF Mirrors
      <3>2. \A h \in Live(t) : BeginsIn(t)[h] \subseteq Live(t)
        BY BeginsMirror
      <3>3. Live(t) \in SUBSET Groups
        BY <1>2
      <3> QED BY <1>4, <2>1, <3>1, <3>2, <3>3, ReachedFacts
    <2>3. \A h : h \in Reached(BeginsIn(t), n) <=> h \in Live(t) /\ h \in Closure(B, Firsts(B), n)
      BY <1>1, <1>4, <2>2, BeginsMirror, ReachedClosure
    <2>4. Heads(t, n) = UNION {OwnHeads(t, h) : h \in Reached(BeginsIn(t), n)}
      BY <2>1 DEF Heads, OwnHeads
    <2>5. \A c : c \in Heads(t, n) <=>
              \E h \in Live(t) : h \in Closure(B, Firsts(B), n) /\ c \in OwnFirsts(t, h)
      BY <2>3, <2>4, OwnHeadsAre
    <2>6. ASSUME NEW c
          PROVE  c \in FirstLeaves(B, n) <=>
                    \E h \in Live(t) : h \in Closure(B, Firsts(B), n) /\ c \in OwnFirsts(t, h)
      <3>1. Firsts(B) \in SUBSET B.blocks /\ n \in B.blocks /\ n \notin B.leaves
        BY <1>2, <1>4 DEF Firsts
      <3>4. c \in B.leaves =>
               (c \in Closure(B, Firsts(B), n) <=>
                   c \in Firsts(B) /\ B.parent[c] \in Closure(B, Firsts(B), n) /\ B.parent[c] \in B.blocks \ B.leaves)
        BY <1>2, <3>1, ClosureLeaves
      <3>2. c \in B.leaves =>
               (c \in Closure(B, Firsts(B), n) <=>
                   c \in Firsts(B) /\ B.parent[c] \in Closure(B, Firsts(B), n) /\ B.parent[c] \in Live(t))
        BY <1>2, <3>4
      <3>3. c \in Starts(t) => (c \in Firsts(B) <=> PrevTo(B, c) = {})
        BY <1>2 DEF Firsts
      <3> QED BY <1>1, <1>2, <3>2, <3>3 DEF FirstLeaves, OwnFirsts
    <2> QED BY <1>1, <2>5, <2>6
  <1> QED BY <1>1, <1>2, <1>3, <1>4

(* Counting disjoint sets together is counting pairs of a set and a number.*)
Pairs(n, H) == UNION {{h} \X (1 .. n[h]) : h \in H}
Numbers(e, m, S) ==
    /\ m \in Nat /\ DOMAIN e = 1 .. m
    /\ \A i \in 1 .. m : e[i] \in S
    /\ \A i, j \in 1 .. m : e[i] = e[j] => i = j
    /\ \A x \in S : \E i \in 1 .. m : e[i] = x

LEMMA Numbered ==
  ASSUME NEW S, IsFiniteSet(S)
  PROVE  \E e : Numbers(e, Cardinality(S), S)
  <1>1. PICK n \in Nat : ExistsBijection(1 .. n, S)
    BY FS_NatBijection
  <1>2. Cardinality(S) = n
    BY <1>1, FS_CountingElements
  <1>3. PICK e : e \in Bijection(1 .. n, S)
    BY <1>1 DEF ExistsBijection
  <1>4. /\ e \in [1 .. n -> S] /\ \A i, j \in 1 .. n : e[i] = e[j] => i = j
        /\ \A x \in S : \E i \in 1 .. n : e[i] = x
    BY <1>3, Fun_BijectionProperties
  <1>5. Numbers(e, n, S)
    BY <1>4 DEF Numbers
  <1> QED BY <1>2, <1>5

LEMMA Tally ==
  ASSUME NEW H, NEW L, NEW n, NEW U, IsFiniteSet(U), \A x : x \in U <=> \E h \in H : x \in L[h],
         \A h \in H : IsFiniteSet(L[h]) /\ n[h] = Cardinality(L[h]),
         \A g, h \in H : \A x : x \in L[g] /\ x \in L[h] => g = h
  PROVE  Cardinality(Pairs(n, H)) = Cardinality(U)
  <1>1. PICK f : f = [h \in H |-> CHOOSE e : Numbers(e, n[h], L[h])]
    OBVIOUS
  <1>2. ASSUME NEW h \in H PROVE Numbers(f[h], n[h], L[h])
    <2>1. \E e : Numbers(e, n[h], L[h])
      BY Numbered
    <2>2. f[h] = CHOOSE e : Numbers(e, n[h], L[h])
      BY <1>1
    <2> QED BY <2>1, <2>2
  <1>3. PICK V : V = Pairs(n, H)
    OBVIOUS
  <1>4. \A p : p \in V <=> \E h \in H : \E i \in 1 .. n[h] : p = <<h, i>>
    BY <1>3 DEF Pairs
  <1>5. PICK G : G = [p \in V |-> f[p[1]][p[2]]]
    OBVIOUS
  <1>6. ASSUME NEW h \in H, NEW i \in 1 .. n[h]
        PROVE  <<h, i>> \in V /\ G[<<h, i>>] = f[h][i] /\ f[h][i] \in L[h] /\ f[h][i] \in U
    <2>1. <<h, i>> \in V
      BY <1>4
    <2>2. <<h, i>>[1] = h /\ <<h, i>>[2] = i
      OBVIOUS
    <2>3. G[<<h, i>>] = f[h][i]
      BY <1>5, <2>1, <2>2
    <2>4. f[h][i] \in L[h]
      BY <1>2 DEF Numbers
    <2> QED BY <2>1, <2>3, <2>4
  <1>7. G \in [V -> U]
    <2>1. \A p \in V : G[p] \in U
      BY <1>4, <1>6
    <2> QED BY <1>5, <2>1
  <1>8. ASSUME NEW p \in V, NEW q \in V, G[p] = G[q] PROVE p = q
    <2>1. PICK g \in H : \E i \in 1 .. n[g] : p = <<g, i>>
      BY <1>4
    <2>2. PICK i \in 1 .. n[g] : p = <<g, i>>
      BY <2>1
    <2>3. PICK h \in H : \E j \in 1 .. n[h] : q = <<h, j>>
      BY <1>4
    <2>4. PICK j \in 1 .. n[h] : q = <<h, j>>
      BY <2>3
    <2>5. f[g][i] \in L[g] /\ f[h][j] \in L[h] /\ f[g][i] = f[h][j]
      BY <1>6, <1>8, <2>2, <2>4
    <2>6. g = h
      BY <2>5
    <2>7. i = j
      BY <1>2, <2>5, <2>6 DEF Numbers
    <2> QED BY <2>2, <2>4, <2>6, <2>7
  <1>9. ASSUME NEW x \in U PROVE \E p \in V : G[p] = x
    <2>1. PICK h \in H : x \in L[h]
      OBVIOUS
    <2>2. Numbers(f[h], n[h], L[h])
      BY <1>2
    <2>3. PICK i \in 1 .. n[h] : f[h][i] = x
      BY <2>1, <2>2 DEF Numbers
    <2>4. <<h, i>> \in V /\ G[<<h, i>>] = x
      BY <1>6, <2>3
    <2> QED BY <2>4
  <1>10. G \in Bijection(V, U)
    BY <1>7, <1>8, <1>9, Fun_IsBij
  <1>11. ExistsBijection(U, V)
    <2>1. ExistsBijection(V, U)
      BY <1>10 DEF ExistsBijection
    <2> QED BY <2>1, Fun_ExistsBijSymmetric
  <1> QED BY <1>3, <1>11, FS_Bijection

LEMMA OwnTailsAre ==
  ASSUME NEW t, Tailed(t), NEW h \in Live(t)
  PROVE  OwnTails(t, h) = Cardinality(OwnLasts(t, h)) /\ IsFiniteSet(OwnLasts(t, h))
  <1>1. /\ PlanOf(t).blocks = Live(t) \cup Starts(t) /\ PlanOf(t).parent = t.parent
        /\ Starts(t) \subseteq Synths /\ Live(t) \cap Starts(t) = {}
        /\ Live(t) \cap Synths = {} /\ h \in Groups
    BY BlocksAre, LiveFacts, NodeFacts DEF Tailed
  <1>2. IsFiniteSet(OwnLasts(t, h))
    BY <1>1, NodeFacts, FS_Subset DEF OwnLasts
  <1>3. CASE h \in ParGroups
    <2>1. t.nsyn[h] = Cardinality(Kin(t.parent, h) \cap Synths)
      BY <1>1 DEF Tailed, Sound, FitsAt
    <2> QED BY <1>2, <1>3, <2>1, OwnOfParallel DEF OwnTails
  <1>4. CASE h \notin ParGroups
    <2>1. h \in SeqGroups
      BY <1>1, <1>4 DEF Groups
    <2>2. PICK s : s = t.kids[h]
      OBVIOUS
    <2>3. PICK k \in 1 .. Len(s) : EndsWith(t, h, k)
      BY <2>1, <2>2, LastBlock
    <2>4. PICK b : b = BlockOf(t, h, k)
      OBVIOUS
    <2>5. /\ LastNode(t, h) = {s[k]} /\ Plays(t, s[k])
          /\ \A c \in Starts(t) : t.parent[c] = h => (NextTo(PlanOf(t), c) = {} <=> c = s[b])
      BY <1>1, <2>2, <2>3, <2>4 DEF EndsWith
    <2>6. /\ b \in 1 .. k
          /\ s[k] \in Synths => s[b] \in Starts(t)
          /\ s[k] \notin Synths => b = k /\ s[k] \in Live(t)
      BY <2>1, <2>2, <2>4, <2>5, BlockOfFacts
    <2>7. OwnTails(t, h) = Cardinality({s[k]} \cap Synths)
      BY <1>4, <2>5 DEF OwnTails
    <2>8. CASE s[k] \in Synths
      <3>1. t.parent[s[b]] = h
        <4>1. b \in 1 .. Len(s) /\ KidsAt(t, h)
          <5>1. KidsAt(t, h)
            BY <1>1, KidsAtFacts DEF Tailed
          <5> QED BY <2>2, <2>6, <5>1 DEF KidsAt
        <4> QED BY <2>2, <4>1 DEF KidsAt
      <3>2. OwnLasts(t, h) = {s[b]}
        BY <2>5, <2>6, <2>8, <3>1 DEF OwnLasts
      <3>3. {s[k]} \cap Synths = {s[k]}
        BY <2>8
      <3> QED BY <1>2, <2>7, <3>2, <3>3, FS_Singleton
    <2>9. CASE s[k] \notin Synths
      <3>1. OwnLasts(t, h) = {}
        BY <1>1, <2>5, <2>6, <2>9 DEF OwnLasts
      <3>2. {s[k]} \cap Synths = {}
        BY <2>9
      <3> QED BY <1>2, <2>7, <3>1, <3>2
    <2> QED BY <2>8, <2>9
  <1> QED BY <1>3, <1>4

LEMMA TailsAre ==
  ASSUME NEW t, Tailed(t), NEW n \in PlanOf(t).blocks
  PROVE  Tails(t, n) = Cardinality(LastLeaves(PlanOf(t), n))
  <1>1. PICK B : B = PlanOf(t)
    OBVIOUS
  <1>2. /\ B.blocks = Live(t) \cup Starts(t) /\ B.leaves = Starts(t) /\ B.parent = t.parent
        /\ Live(t) \subseteq Groups /\ Starts(t) \subseteq Synths /\ Live(t) \cap Starts(t) = {} /\ Plan(B)
        /\ Sound(t)
    BY <1>1, BlocksAre, LiveFacts, PlanRight DEF Tailed
  <1>3. CASE n \in Starts(t)
    <2>1. LastLeaves(B, n) = {n} /\ n \in Synths
      BY <1>2, <1>3, LeavesAre
    <2> QED BY <1>1, <2>1, FS_Singleton DEF Tails
  <1>4. CASE n \in Live(t)
    <2>1. n \notin Synths /\ n \in Groups
      BY <1>2, <1>4, NodeFacts
    <2>2. PICK R : R = Reached(EndsIn(t), n)
      OBVIOUS
    <2>3. PICK H : H = R \cap Live(t)
      OBVIOUS
    <2>4. \A h \in R : h \in Groups /\ (h \in Live(t) \/ ~ HasSynths(t, h))
      <3> DEFINE S == {h \in Groups : h \in Live(t) \/ ~ HasSynths(t, h)}
      <3>1. S \in SUBSET Groups /\ n \in S
        BY <1>4, <2>1
      <3>2. \A h \in Groups : EndsIn(t)[h] \subseteq Groups /\ \A x \in EndsIn(t)[h] : t.parent[x] = h
        BY <1>2, SubgroupsEnd
      <3>3. \A h \in Live(t), x \in Groups : t.parent[x] = h /\ HasSynths(t, x) => x \in Live(t)
        BY LiveFacts DEF Tailed
      <3>4. \A h \in Groups : ~ HasSynths(t, h) => \A x \in EndsIn(t)[h] : ~ HasSynths(t, x)
        BY <1>2, NoOwnTails
      <3>5. \A h \in S : EndsIn(t)[h] \subseteq S
        BY <3>2, <3>3, <3>4
      <3>6. R \subseteq S
        <4> HIDE DEF S
        <4> QED BY <2>1, <2>2, <3>1, <3>2, <3>5, ReachedFacts
      <3> QED BY <3>6
    <2>5. \A h \in R : h \notin H => OwnTails(t, h) = 0
      BY <1>2, <2>3, <2>4, NoOwnTails
    <2>6. PICK m : m = [h \in H |-> OwnTails(t, h)]
      OBVIOUS
    <2>7. PICK L : L = [h \in H |-> OwnLasts(t, h)]
      OBVIOUS
    <2>8. \A h \in H : IsFiniteSet(L[h]) /\ m[h] = Cardinality(L[h])
      BY <2>3, <2>6, <2>7, OwnTailsAre
    <2>9. \A g, h \in H : \A x : x \in L[g] /\ x \in L[h] => g = h
      BY <2>7 DEF OwnLasts
    <2>10. \A x : x \in LastLeaves(B, n) <=> \E h \in H : x \in L[h]
      <3>1. \A h : h \in H <=> h \in Live(t) /\ h \in Closure(B, Lasts(B), n)
        BY <1>1, <1>4, <2>2, <2>3, EndsMirror, ReachedClosure
      <3> TAKE x
      <3>2. Lasts(B) \in SUBSET B.blocks /\ n \in B.blocks /\ n \notin B.leaves
        BY <1>2, <1>4 DEF Lasts
      <3>3. x \in B.leaves =>
               (x \in Closure(B, Lasts(B), n) <=>
                   x \in Lasts(B) /\ B.parent[x] \in Closure(B, Lasts(B), n) /\ B.parent[x] \in B.blocks \ B.leaves)
        BY <1>2, <3>2, ClosureLeaves
      <3>4. x \in B.leaves =>
               (x \in Closure(B, Lasts(B), n) <=> x \in Lasts(B) /\ B.parent[x] \in H)
        BY <1>2, <3>1, <3>3
      <3>5. x \in Starts(t) => (x \in Lasts(B) <=> NextTo(B, x) = {})
        BY <1>2 DEF Lasts
      <3>6. \A h \in H : x \in L[h] <=> x \in Starts(t) /\ t.parent[x] = h /\ NextTo(B, x) = {}
        BY <1>1, <2>7 DEF OwnLasts
      <3> QED BY <1>2, <3>4, <3>5, <3>6 DEF LastLeaves
    <2>11. IsFiniteSet(LastLeaves(B, n))
      BY <1>2, NodeFacts, FS_Subset DEF LastLeaves
    <2>12. Cardinality(Pairs(m, H)) = Cardinality(LastLeaves(B, n))
      BY <2>8, <2>9, <2>10, <2>11, Tally
    <2>13. UNION {{h} \X (1 .. OwnTails(t, h)) : h \in R} = Pairs(m, H)
      <3>1. \A h \in R : h \notin H => {h} \X (1 .. OwnTails(t, h)) = {}
        BY <2>5
      <3>2. \A h \in H : {h} \X (1 .. OwnTails(t, h)) = {h} \X (1 .. m[h])
        BY <2>6
      <3> QED BY <2>3, <3>1, <3>2 DEF Pairs
    <2>14. TailNodes(t, n) = Cardinality(Pairs(m, H))
      BY <2>2, <2>13 DEF TailNodes
    <2> QED BY <1>1, <2>1, <2>12, <2>14 DEF Tails
  <1> QED BY <1>1, <1>2, <1>3, <1>4

-----------------------------------------------------------------------------
(* What the generator hands on is what follows in the plan and the number  *)
(* of what leads to it.                                                    *)
LEMMA SuccessorsAre ==
  ASSUME NEW t, Tailed(t), NEW g \in Live(t), g \in SeqGroups, NEW s, s = t.kids[g],
         NEW a, NEW e, EndsAt(t, g, a, e), s[a] \in PlanOf(t).blocks
  PROVE  Successors(t, g, e, Follow(PlanOf(t), g)) = Follow(PlanOf(t), s[a])
  <1>1. PICK B : B = PlanOf(t)
    OBVIOUS
  <1>2. PICK r : r = NextAfter(t, s, e)
    OBVIOUS
  <1>3. /\ r = 0 => NextTo(B, s[a]) = {}
        /\ r # 0 => e + r \in 1 .. Len(s) /\ NextTo(B, s[a]) = {s[e + r]}
    BY <1>1, <1>2, NextBlock
  <1>4. Plan(B)
    BY <1>1, PlanRight DEF Tailed
  <1>5. s[a] \in B.blocks /\ B.parent[s[a]] = g /\ s[a] # Root
    <2>1. BlockList(t, g) /\ a \in 1 .. Len(s)
      BY BlockListFacts DEF EndsAt
    <2> QED BY <1>1, <2>1 DEF BlockList
  <1>6. Successors(t, g, e, Follow(B, g)) = IF r = 0 THEN Follow(B, g) ELSE Heads(t, s[e + r])
    BY <1>2 DEF Successors, NextAfter
  <1>7. CASE r = 0
    BY <1>1, <1>3, <1>4, <1>5, <1>6, <1>7, FollowFacts
  <1>8. CASE r # 0
    <2>1. s[e + r] \in NextTo(B, s[a])
      BY <1>3, <1>8
    <2>2. s[e + r] \in B.blocks
      BY <2>1 DEF NextTo
    <2>3. Heads(t, s[e + r]) = FirstLeaves(B, s[e + r])
      BY <1>1, <2>2, HeadsAre
    <2>4. Follow(B, s[a]) = FirstLeaves(B, s[e + r])
      BY <1>4, <1>5, <2>1, FollowFacts
    <2> QED BY <1>1, <1>6, <1>8, <2>3, <2>4
  <1> QED BY <1>7, <1>8

LEMMA PreviousIs ==
  ASSUME NEW t, Tailed(t), NEW g \in Live(t), g \in SeqGroups, NEW s, s = t.kids[g],
         NEW a \in 1 .. Len(s), s[a] \in PlanOf(t).blocks
  PROVE  PreviousCount(t, g, a, Cardinality(Lead(PlanOf(t), g))) = Cardinality(Lead(PlanOf(t), s[a]))
  <1>1. PICK B : B = PlanOf(t)
    OBVIOUS
  <1>2. PICK r : r = LastBefore(t, s, a)
    OBVIOUS
  <1>3. /\ r = 0 => PrevTo(B, s[a]) = {}
        /\ r # 0 => /\ r \in 1 .. Len(s) /\ Plays(t, s[r])
                    /\ PrevTo(B, s[a]) = {s[BlockOf(t, g, r)]}
    BY <1>1, <1>2, PrevBlock
  <1>4. Plan(B)
    BY <1>1, PlanRight DEF Tailed
  <1>5. s[a] \in B.blocks /\ B.parent[s[a]] = g /\ s[a] # Root
    BY <1>1, BlockListFacts DEF BlockList
  <1>6. \A c : PreviousCount(t, g, a, c) = IF r = 0 THEN c ELSE Tails(t, s[r])
    BY <1>2 DEF PreviousCount, LastBefore, Tails
  <1>7. CASE r = 0
    BY <1>1, <1>3, <1>4, <1>5, <1>6, <1>7, LeadFacts
  <1>8. CASE r # 0
    <2>1. PICK b : b = BlockOf(t, g, r)
      OBVIOUS
    <2>2. /\ s[b] \in B.blocks
          /\ s[r] \in Synths => s[b] \in Starts(t)
          /\ s[r] \notin Synths => b = r
      BY <1>1, <1>3, <1>8, <2>1, BlockOfFacts
    <2>3. Tails(t, s[r]) = Tails(t, s[b])
      <3>1. Starts(t) \subseteq Synths
        BY DEF Starts, SynthsIn
      <3> QED BY <2>2, <3>1 DEF Tails
    <2>4. Tails(t, s[b]) = Cardinality(LastLeaves(B, s[b]))
      BY <1>1, <2>2, TailsAre
    <2>5. s[b] \in PrevTo(B, s[a])
      BY <1>3, <1>8, <2>1
    <2>6. Lead(B, s[a]) = LastLeaves(B, s[b])
      BY <1>4, <1>5, <2>5, LeadFacts
    <2> QED BY <1>1, <1>6, <1>8, <2>3, <2>4, <2>6
  <1> QED BY <1>7, <1>8

\* One step of the recursion, and what it comes to.
ArgumentStep(t, f, g) ==
    LET p == t.parent[g]
        k == SelectInSeq(t.kids[p], LAMBDA n : n = g)
    IN IF g = Root THEN [successors |-> {}, previous |-> 0]
       ELSE IF p \in ParGroups THEN f[p]
       ELSE [successors |-> Successors(t, p, k, f[p].successors),
             previous   |-> PreviousCount(t, p, k, f[p].previous)]
IsArguments(t, f) == f = [g \in Reached(Filled(t), Root) |-> ArgumentStep(t, f, g)]
Argument(t, g) ==
    [successors |-> Follow(PlanOf(t), g), previous |-> Cardinality(Lead(PlanOf(t), g))]

LEMMA ArgumentStepIs ==
  ASSUME NEW t, Tailed(t), NEW g \in Live(t), NEW f,
         g # Root => f[t.parent[g]] = Argument(t, t.parent[g])
  PROVE  ArgumentStep(t, f, g) = Argument(t, g)
  <1>1. PICK B : B = PlanOf(t)
    OBVIOUS
  <1>2. /\ B.blocks = Live(t) \cup Starts(t) /\ B.parent = t.parent /\ Live(t) \subseteq Groups
        /\ B.seq = Live(t) \cap SeqGroups /\ Plan(B)
    BY <1>1, BlocksAre, LiveFacts, PlanRight DEF Tailed
  <1>3. CASE g = Root
    <2>1. Follow(B, Root) = {} /\ Lead(B, Root) = {} /\ Cardinality({}) = 0
      BY <1>2, FollowFacts, LeadFacts, FS_EmptySet
    <2> QED BY <1>1, <1>3, <2>1 DEF ArgumentStep, Argument
  <1>4. CASE g # Root
    <2>1. PICK p : p = t.parent[g]
      OBVIOUS
    <2>2. p \in Live(t) /\ p \in Groups /\ g \in Groups /\ g \in Nodes /\ g \in B.blocks
      BY <1>2, <1>4, <2>1, LiveFacts, NodeFacts DEF Tailed
    <2>3. f[p].successors = Follow(B, p) /\ f[p].previous = Cardinality(Lead(B, p))
      BY <1>1, <1>4, <2>1 DEF Argument
    <2>4. CASE p \in ParGroups
      <3>1. NextTo(B, g) = {} /\ PrevTo(B, g) = {}
        BY <1>2, <2>1, <2>2, <2>4, NodesAssumption, Siblings
      <3>2. Follow(B, g) = Follow(B, p) /\ Lead(B, g) = Lead(B, p)
        BY <1>2, <1>4, <2>1, <2>2, <3>1, FollowFacts, LeadFacts
      <3> QED BY <1>1, <1>4, <2>1, <2>4, <3>2 DEF ArgumentStep, Argument
    <2>5. CASE p \notin ParGroups
      <3>1. p \in SeqGroups
        BY <2>2, <2>5 DEF Groups
      <3>2. PICK s : s = t.kids[p]
        OBVIOUS
      <3>3. PICK k : k = SelectInSeq(t.kids[p], LAMBDA n : n = g)
        OBVIOUS
      <3>4. k \in 1 .. Len(s) /\ s[k] = g /\ Len(s) \in Nat
        <4>1. KidsAt(t, p)
          BY <2>2, KidsAtFacts DEF Tailed
        <4> QED BY <2>1, <2>2, <3>2, <3>3, <4>1 DEF KidsAt, At
      <3>5. EndsAt(t, p, k, k)
        BY <2>2, <3>2, <3>4 DEF EndsAt
      <3>6. Successors(t, p, k, Follow(B, p)) = Follow(B, g)
        BY <1>1, <2>2, <3>1, <3>2, <3>4, <3>5, SuccessorsAre
      <3>7. PreviousCount(t, p, k, Cardinality(Lead(B, p))) = Cardinality(Lead(B, g))
        BY <1>1, <2>2, <3>1, <3>2, <3>4, PreviousIs
      <3>8. ArgumentStep(t, f, g) = [successors |-> Successors(t, p, k, f[p].successors),
                                     previous   |-> PreviousCount(t, p, k, f[p].previous)]
        BY <1>4, <2>1, <2>5, <3>3 DEF ArgumentStep
      <3> QED BY <1>1, <2>3, <3>6, <3>7, <3>8 DEF Argument
    <2> QED BY <2>4, <2>5
  <1> QED BY <1>3, <1>4

LEMMA ArgumentsAre ==
  ASSUME NEW t, Tailed(t)
  PROVE  \A g \in Live(t) : Arguments(t)[g] = Argument(t, g)
  <1>1. Arguments(t) = CHOOSE f : IsArguments(t, f)
    BY DEF Arguments, IsArguments, ArgumentStep
  <1>2. /\ Root \in Live(t) /\ Live(t) \subseteq Groups
        /\ \A h \in Live(t) : h # Root => t.parent[h] \in Live(t)
        /\ \A S \in SUBSET Groups :
              Root \in S /\ (\A h \in Live(t) : t.parent[h] \in S => h \in S) => Live(t) \subseteq S
    BY LiveFacts DEF Tailed
  <1>3. PICK f : f = [g \in Live(t) |-> Argument(t, g)]
    OBVIOUS
  <1>4. \A g \in Live(t) : ArgumentStep(t, f, g) = Argument(t, g)
    <2> TAKE g \in Live(t)
    <2>1. g # Root => f[t.parent[g]] = Argument(t, t.parent[g])
      BY <1>2, <1>3
    <2> QED BY <2>1, ArgumentStepIs
  <1>5. IsArguments(t, f)
    BY <1>3, <1>4 DEF IsArguments, Live
  <1>6. PICK a : a = Arguments(t)
    OBVIOUS
  <1>7. IsArguments(t, a)
    BY <1>1, <1>5, <1>6
  <1>8. \A g \in Live(t) : a[g] = ArgumentStep(t, a, g)
    BY <1>7 DEF IsArguments, Live
  <1> DEFINE S == {g \in Live(t) : a[g] = Argument(t, g)}
  <1>9. Root \in S
    BY <1>2, <1>8, ArgumentStepIs
  <1>10. \A h \in Live(t) : t.parent[h] \in S => h \in S
    <2> SUFFICES ASSUME NEW h \in Live(t), t.parent[h] \in S PROVE a[h] = Argument(t, h)
      OBVIOUS
    <2>1. ArgumentStep(t, a, h) = Argument(t, h)
      BY ArgumentStepIs
    <2> QED BY <1>8, <2>1
  <1>11. S \in SUBSET Groups
    BY <1>2
  <1>12. Live(t) \subseteq S
    <2> HIDE DEF S
    <2> QED BY <1>2, <1>9, <1>10, <1>11
  <1> QED BY <1>6, <1>12

-----------------------------------------------------------------------------
(* The order of the synths is the order of a plan too: that of all nodes   *)
(* in the tree.                                                            *)
Whole(t) ==
    LET nodes == {n \in Nodes : n = Root \/ t.parent[n] # Nil} IN
    [blocks |-> nodes, leaves |-> {n \in nodes : n # Root /\ \A c \in nodes : t.parent[c] # n},
     parent |-> t.parent, at |-> [n \in Nodes |-> IF n = Root THEN 0 ELSE At(t, n)],
     seq |-> SeqGroups \cap nodes]

LEMMA WholePlan ==
  ASSUME NEW t, Sound(t), HasSynths(t, Root)
  PROVE  Plan(Whole(t))
  <1>1. PICK p : p = t.parent
    OBVIOUS
  <1>2. PICK W : W = Whole(t)
    OBVIOUS
  <1>3. /\ W.blocks = {n \in Nodes : n = Root \/ p[n] # Nil} /\ W.parent = p
        /\ W.leaves = {n \in W.blocks : n # Root /\ \A c \in W.blocks : p[c] # n}
        /\ \A n \in Nodes : n # Root => W.at[n] = At(t, n)
        /\ W.at[Root] = 0 /\ W.seq = SeqGroups \cap W.blocks
    BY <1>1, <1>2, NodeFacts DEF Whole
  <1>4. p \in Parents /\ p[Root] = Nil /\ \A n \in Nodes : p[n] # Nil => p[n] \in Reached(Kids(p), Root)
    BY <1>1 DEF Sound, Hangs
  <1>5. Reached(Kids(p), Root) \subseteq W.blocks /\ Reached(Kids(p), Root) \subseteq Groups
    <2> DEFINE S == {h \in Groups : h = Root \/ p[h] # Nil}
    <2>1. S \in SUBSET Groups /\ Root \in S
      BY NodeFacts
    <2>2. \A h \in Groups : p[h] \in S => h \in S
      BY NodeFacts
    <2>3. Reached(Kids(p), Root) \subseteq S
      <3> HIDE DEF S
      <3> QED BY <2>1, <2>2, NodeFacts, KidsFacts
    <2> QED BY <1>3, <2>3, NodeFacts
  <1>6. IsFiniteSet(W.blocks) /\ W.leaves \subseteq W.blocks /\ Root \in W.blocks /\ Root \notin W.leaves
    BY <1>3, NodeFacts, FS_Subset
  <1>7. W.parent[Root] \notin W.blocks /\ W.seq \subseteq W.blocks
    BY <1>3, <1>4, NodeFacts
  <1>8. \A n \in W.blocks : n # Root => W.parent[n] \in W.blocks \ W.leaves
    BY <1>3, <1>4, <1>5
  <1>9. ASSUME NEW S \in SUBSET W.blocks, Root \in S, \A c \in W.blocks : W.parent[c] \in S => c \in S
        PROVE  W.blocks \subseteq S
    <2>1. S \cap Groups \in SUBSET Groups /\ Root \in S \cap Groups
      BY <1>9, NodeFacts
    <2>2. \A h \in Groups : p[h] \in S \cap Groups => h \in S \cap Groups
      BY <1>3, <1>9, NodeFacts
    <2>3. Reached(Kids(p), Root) \subseteq S \cap Groups
      BY <2>1, <2>2, NodeFacts, KidsFacts
    <2> QED BY <1>3, <1>4, <1>9, <2>3
  <1>10. ASSUME NEW n \in W.blocks, n # Root
         PROVE  /\ W.parent[n] \in Groups /\ W.at[n] \in 1 .. Len(t.kids[W.parent[n]])
                /\ t.kids[W.parent[n]][W.at[n]] = n
    <2>1. n \in Nodes /\ W.parent[n] \in Groups /\ W.parent[n] = t.parent[n]
      BY <1>1, <1>3, <1>4, <1>5, <1>10
    <2> QED BY <1>3, <1>10, <2>1, KidsAtFacts DEF KidsAt
  <1>11. \A n \in W.blocks : W.at[n] \in Nat
    <2> TAKE n \in W.blocks
    <2>1. CASE n = Root
      BY <1>3, <2>1
    <2>2. CASE n # Root
      BY <1>10, <2>2
    <2> QED BY <2>1, <2>2
  <1>12. \A m, n \in W.blocks : W.parent[m] = W.parent[n] /\ W.at[m] = W.at[n] => m = n
    BY <1>3, <1>4, <1>10, NodeFacts
  <1>13. \A n \in W.blocks \ W.leaves : \E c \in W.blocks : W.parent[c] = n
    <2>1. \E c \in W.blocks : W.parent[c] = Root
      <3>1. \E c \in Nodes : p[c] = Root
        BY <1>1, NodeFacts, SynthsBelow
      <3> QED BY <1>3, <3>1, NodeFacts
    <2> QED BY <1>3, <2>1
  <1>14. Plan(W)
    BY <1>6, <1>7, <1>8, <1>9, <1>11, <1>12, <1>13 DEF Plan
  <1> QED BY <1>2, <1>14

LEMMA WholeWithin ==
  ASSUME NEW t, Sound(t), NEW n \in Whole(t).blocks
  PROVE  Under(t, n) = Within(Whole(t), n) \cap Synths
  <1>1. PICK p : p = t.parent
    OBVIOUS
  <1>2. PICK W : W = Whole(t)
    OBVIOUS
  <1>3. /\ W.blocks = {m \in Nodes : m = Root \/ p[m] # Nil} /\ W.parent = p
        /\ p \in Parents /\ p[Root] = Nil
    BY <1>1, <1>2 DEF Whole, Sound, Hangs
  <1>4. n \in Nodes /\ n \in W.blocks
    BY <1>2, <1>3
  <1>5. /\ Gone(p, n) \subseteq Nodes /\ n \in Gone(p, n)
        /\ \A m \in Nodes : p[m] \in Gone(p, n) => m \in Gone(p, n)
    BY <1>3, <1>4, GoneFacts
  <1>6. Gone(p, n) \subseteq Within(W, n)
    <2>1. Within(W, n) \in SUBSET Nodes /\ n \in Within(W, n)
      BY <1>3, <1>4, WithinFacts
    <2>2. \A m \in Nodes : p[m] \in Within(W, n) => m \in Within(W, n)
      BY <1>3, <1>4, <2>1, NodeFacts, WithinFacts
    <2> QED BY <1>4, <2>1, <2>2, GoneLeast
  <1>7. Within(W, n) \subseteq Gone(p, n)
    <2>1. PICK S : S = Gone(p, n) \cap W.blocks
      OBVIOUS
    <2>2. S \in SUBSET W.blocks /\ n \in S /\ \A c \in W.blocks : W.parent[c] \in S => c \in S
      BY <1>3, <1>4, <1>5, <2>1
    <2>3. Within(W, n) \subseteq S
      BY <1>4, <2>2, WithinFacts
    <2> QED BY <2>1, <2>3
  <1>8. Under(t, n) = Gone(p, n) \cap Synths
    <2>1. CASE n \in Synths
      <3>1. Desc(p, n) = {}
        BY <2>1, NodeFacts DEF Desc
      <3> QED BY <2>1, <3>1 DEF Under, Gone
    <2>2. CASE n \notin Synths
      <3>1. Below(t, n) = Desc(p, n)
        BY <1>1, <1>4, <2>2, BelowIs
      <3> QED BY <2>2, <3>1 DEF Under, Gone
    <2> QED BY <2>1, <2>2
  <1> QED BY <1>2, <1>6, <1>7, <1>8

LEMMA EarlierIs ==
  ASSUME NEW t, Sound(t), HasSynths(t, Root), NEW a \in Synths, NEW b \in Synths
  PROVE  Earlier(t, a, b) <=> Ahead(Whole(t), a, b)
  <1>1. PICK W : W = Whole(t)
    OBVIOUS
  <1>2. /\ W.blocks = {m \in Nodes : m = Root \/ t.parent[m] # Nil} /\ W.parent = t.parent
        /\ W.seq = SeqGroups \cap W.blocks /\ Plan(W) /\ t.parent[Root] = Nil
        /\ \A n \in Nodes : n # Root => W.at[n] = At(t, n)
    BY <1>1, WholePlan DEF Whole, Sound, Hangs
  <1>3. \A n \in W.blocks : Under(t, n) = Within(W, n) \cap Synths
    BY <1>1, WholeWithin
  <1>4. \A g \in Groups : KidsAt(t, g)
    BY KidsAtFacts
  <1>5. ASSUME Earlier(t, a, b) PROVE Ahead(W, a, b)
    <2>1. PICK g \in SeqGroups : \E j \in DOMAIN t.kids[g] : \E i \in 1 .. j - 1 :
               a \in Under(t, t.kids[g][i]) /\ b \in Under(t, t.kids[g][j])
      BY <1>5 DEF Earlier
    <2>2. PICK j \in DOMAIN t.kids[g] : \E i \in 1 .. j - 1 :
               a \in Under(t, t.kids[g][i]) /\ b \in Under(t, t.kids[g][j])
      BY <2>1
    <2>3. PICK i \in 1 .. j - 1 : a \in Under(t, t.kids[g][i]) /\ b \in Under(t, t.kids[g][j])
      BY <2>2
    <2>4. g \in Groups /\ g # Nil
      BY NodeFacts DEF Groups
    <2>5. KidsAt(t, g)
      BY <1>4, <2>4
    <2>6. i \in 1 .. Len(t.kids[g]) /\ j \in 1 .. Len(t.kids[g]) /\ i < j
      BY <2>5 DEF KidsAt
    <2>7. PICK m : m = t.kids[g][i]
      OBVIOUS
    <2>8. PICK n : n = t.kids[g][j]
      OBVIOUS
    <2>9. /\ m \in Nodes /\ n \in Nodes /\ m # Root /\ n # Root
          /\ t.parent[m] = g /\ t.parent[n] = g /\ At(t, m) = i /\ At(t, n) = j
      BY <2>5, <2>6, <2>7, <2>8 DEF KidsAt
    <2>10. m \in W.blocks /\ n \in W.blocks
      BY <1>2, <2>4, <2>9
    <2>11. g \in W.seq
      <3>1. g \in W.blocks
        BY <1>2, <2>9, <2>10 DEF Plan
      <3> QED BY <1>2, <3>1
    <2>12. Before(W, m, n)
      BY <1>2, <2>6, <2>9, <2>10, <2>11 DEF Before
    <2> QED BY <1>3, <2>3, <2>7, <2>8, <2>10, <2>12 DEF Ahead
  <1>6. ASSUME Ahead(W, a, b) PROVE Earlier(t, a, b)
    <2>1. PICK m \in W.blocks, n \in W.blocks : Before(W, m, n) /\ a \in Within(W, m) /\ b \in Within(W, n)
      BY <1>6 DEF Ahead
    <2>2. PICK g : g = t.parent[m]
      OBVIOUS
    <2>3. g \in SeqGroups /\ g \in Groups /\ t.parent[n] = g /\ W.at[m] < W.at[n]
      BY <1>2, <2>1, <2>2 DEF Before, Groups
    <2>4. m \in Nodes /\ n \in Nodes /\ m # Root /\ n # Root
      BY <1>2, <2>2, <2>3, NodeFacts
    <2>5. KidsAt(t, g)
      BY <1>4, <2>3
    <2>6. PICK i : i = At(t, m)
      OBVIOUS
    <2>7. PICK j : j = At(t, n)
      OBVIOUS
    <2>8. /\ i \in 1 .. Len(t.kids[g]) /\ j \in 1 .. Len(t.kids[g]) /\ i < j
          /\ t.kids[g][i] = m /\ t.kids[g][j] = n /\ Len(t.kids[g]) \in Nat /\ t.kids[g] \in Seq(Nodes)
      BY <1>2, <2>2, <2>3, <2>4, <2>5, <2>6, <2>7 DEF KidsAt
    <2>9. j \in DOMAIN t.kids[g] /\ i \in 1 .. j - 1
      BY <2>8
    <2>10. a \in Under(t, t.kids[g][i]) /\ b \in Under(t, t.kids[g][j])
      BY <1>3, <2>1, <2>8
    <2> QED BY <2>3, <2>9, <2>10 DEF Earlier
  <1> QED BY <1>1, <1>5, <1>6

-----------------------------------------------------------------------------
(* What the items are: each is the run that begins at a start, with what   *)
(* follows it in the plan and the number of what leads to it.              *)
IsRun(t, job, n) ==
    LET s == t.kids[t.parent[n]] IN
    /\ job \in Seq(Synths) /\ Len(job) \in Nat /\ Len(job) > 0 /\ job[1] = n
    /\ \A x \in 1 .. Len(job) :
          At(t, n) + x - 1 \in 1 .. Len(s) /\ job[x] = s[At(t, n) + x - 1]
    /\ \A x \in 2 .. Len(job) : job[x] \notin Starts(t)
ItemRight(t, g, i) ==
    /\ i.id \in Starts(t) /\ t.parent[i.id] = g /\ IsRun(t, i.job, i.id)
    /\ i.succ = Follow(PlanOf(t), i.id)
    /\ i.limit = Cardinality(Lead(PlanOf(t), i.id))

LEMMA ParallelItem ==
  ASSUME NEW t, Tailed(t), NEW g \in Live(t), g \in ParGroups, NEW n \in Synths, t.parent[n] = g
  PROVE  ItemRight(t, g, Item(<<n>>, Arguments(t)[g].successors, Arguments(t)[g].previous))
  <1>1. PICK B : B = PlanOf(t)
    OBVIOUS
  <1>2. PICK i : i = Item(<<n>>, Arguments(t)[g].successors, Arguments(t)[g].previous)
    OBVIOUS
  <1>3. Arguments(t)[g] = Argument(t, g)
    BY ArgumentsAre
  <1>4. /\ i.job = <<n>> /\ i.id = n /\ i.succ = Follow(B, g) /\ i.limit = Cardinality(Lead(B, g))
    <2>1. <<n>>[1] = n
      OBVIOUS
    <2> QED BY <1>1, <1>2, <1>3, <2>1 DEF Item, Argument
  <1>5. Sound(t) /\ g \in Groups /\ g \notin SeqGroups /\ n \in Nodes /\ g # Nil
    BY BlockListFacts, NodesAssumption, NodeFacts DEF Tailed
  <1>6. KidsAt(t, g)
    BY <1>5, KidsAtFacts
  <1>7. /\ At(t, n) \in 1 .. Len(t.kids[g]) /\ t.kids[g][At(t, n)] = n /\ Len(t.kids[g]) \in Nat
    BY <1>5, <1>6 DEF KidsAt
  <1>8. n \in Starts(t)
    BY <1>5, <1>7, StartsAre
  <1>9. IsRun(t, <<n>>, n)
    <2>1. <<n>> \in Seq(Synths) /\ Len(<<n>>) = 1 /\ <<n>>[1] = n
      OBVIOUS
    <2>2. \A x \in 1 .. 1 : x = 1 /\ At(t, n) + x - 1 = At(t, n)
      BY <1>7
    <2>3. \A x \in 2 .. 1 : FALSE
      OBVIOUS
    <2> QED BY <1>7, <2>1, <2>2, <2>3 DEF IsRun
  <1>10. Follow(B, n) = Follow(B, g) /\ Lead(B, n) = Lead(B, g)
    <2>1. /\ Plan(B) /\ n \in B.blocks /\ B.parent[n] = g /\ g \in B.blocks /\ g \notin B.seq /\ n # Root
      BY <1>1, <1>5, <1>8, BlocksAre, PlanRight, NodeFacts DEF Tailed
    <2>2. NextTo(B, n) = {} /\ PrevTo(B, n) = {}
      BY <2>1, Siblings
    <2> QED BY <2>1, <2>2, FollowFacts, LeadFacts
  <1>11. ItemRight(t, g, i)
    BY <1>1, <1>4, <1>8, <1>9, <1>10 DEF ItemRight
  <1> QED BY <1>2, <1>11

LEMMA SequentialItem ==
  ASSUME NEW t, Tailed(t), NEW g \in Live(t), g \in SeqGroups, NEW k \in RunEnds(t, g)
  PROVE  ItemRight(t, g, Item(SubSeq(t.kids[g], RunStart(t, g, k), k),
                  Successors(t, g, k, Arguments(t)[g].successors),
                  PreviousCount(t, g, RunStart(t, g, k), Arguments(t)[g].previous)))
  <1>1. PICK B : B = PlanOf(t)
    OBVIOUS
  <1>2. PICK s : s = t.kids[g]
    OBVIOUS
  <1>3. PICK a : a = RunStart(t, g, k)
    OBVIOUS
  <1>4. /\ Sound(t) /\ g \in Groups /\ g \notin ParGroups /\ g # Nil /\ HasSynths(t, Root)
        /\ s \in Seq(Nodes) /\ Len(s) \in Nat
    BY <1>2, BlockListFacts, NodesAssumption, NodeFacts DEF Tailed, BlockList
  <1>5. k \in 1 .. Len(s) /\ s[k] \in Synths /\ (k = Len(s) \/ s[k + 1] \in Groups)
    BY <1>2, <1>4 DEF RunEnds
  <1>6. /\ a \in 1 .. k /\ s[a] \in Starts(t)
        /\ \A i \in a .. k : s[i] \in Synths
        /\ \A i \in a + 1 .. k : s[i] \notin Starts(t)
    BY <1>2, <1>3, <1>4, <1>5, RunStarts
  <1>7. B.blocks = Live(t) \cup Starts(t) /\ Live(t) \cap Synths = {}
    BY <1>1, <1>4, BlocksAre, LiveFacts, NodeFacts
  <1>8. EndsAt(t, g, a, k) /\ a \in 1 .. Len(s) /\ s[a] \in B.blocks
    <2>1. \A i \in a + 1 .. k : s[i] \notin B.blocks
      <3> TAKE i \in a + 1 .. k
      <3>1. i \in a .. k
        BY <1>5, <1>6
      <3> QED BY <1>6, <1>7, <3>1
    <2>2. k \in a .. Len(s) /\ a \in 1 .. Len(s)
      BY <1>4, <1>5, <1>6
    <2> QED BY <1>1, <1>2, <1>5, <1>6, <1>7, <2>1, <2>2 DEF EndsAt
  <1>9. Successors(t, g, k, Follow(B, g)) = Follow(B, s[a])
    BY <1>1, <1>2, <1>8, SuccessorsAre
  <1>10. PreviousCount(t, g, a, Cardinality(Lead(B, g))) = Cardinality(Lead(B, s[a]))
    BY <1>1, <1>2, <1>8, PreviousIs
  <1>11. PICK i : i = Item(SubSeq(t.kids[g], RunStart(t, g, k), k),
                  Successors(t, g, k, Arguments(t)[g].successors),
                  PreviousCount(t, g, RunStart(t, g, k), Arguments(t)[g].previous))
    OBVIOUS
  <1>12. PICK job : job = SubSeq(s, a, k)
    OBVIOUS
  <1>13. /\ job \in Seq(Nodes) /\ Len(job) = k - a + 1
         /\ \A x \in 1 .. k - a + 1 : job[x] = s[a + x - 1]
    BY <1>4, <1>5, <1>6, <1>12
  <1>14. \A x \in 1 .. k - a + 1 : a + x - 1 \in a .. k /\ a + x - 1 \in 1 .. Len(s)
    BY <1>4, <1>5, <1>6
  <1>15. job \in Seq(Synths)
    <2>1. \A x \in 1 .. Len(job) : job[x] \in Synths
      BY <1>6, <1>13, <1>14
    <2> QED BY <1>13, <2>1, SeqDef, ElementOfSeq
  <1>16. job[1] = s[a] /\ Len(job) \in Nat /\ Len(job) > 0
    BY <1>5, <1>6, <1>13
  <1>17. s[a] \in Nodes /\ t.parent[s[a]] = g /\ At(t, s[a]) = a
    <2>1. KidsAt(t, g)
      BY <1>4, KidsAtFacts
    <2> QED BY <1>2, <1>8, <2>1 DEF KidsAt
  <1>18. \A x \in 2 .. Len(job) : job[x] \notin Starts(t)
    <2> TAKE x \in 2 .. Len(job)
    <2>1. x \in 1 .. k - a + 1 /\ a + x - 1 \in a + 1 .. k
      BY <1>5, <1>6, <1>13
    <2> QED BY <1>6, <1>13, <2>1
  <1>19. IsRun(t, job, s[a])
    BY <1>2, <1>13, <1>14, <1>15, <1>16, <1>17, <1>18 DEF IsRun
  <1>20. Arguments(t)[g] = Argument(t, g)
    BY ArgumentsAre
  <1>21. /\ i.job = job /\ i.id = job[1] /\ i.succ = Follow(B, s[a]) /\ i.limit = Cardinality(Lead(B, s[a]))
    <2>1. Arguments(t)[g].successors = Follow(B, g) /\ Arguments(t)[g].previous = Cardinality(Lead(B, g))
      BY <1>1, <1>20 DEF Argument
    <2>2. Successors(t, g, k, Arguments(t)[g].successors) = Follow(B, s[a])
      BY <1>9, <2>1
    <2>3. PreviousCount(t, g, a, Arguments(t)[g].previous) = Cardinality(Lead(B, s[a]))
      BY <1>10, <2>1
    <2>4. /\ i.job = SubSeq(t.kids[g], RunStart(t, g, k), k) /\ i.id = i.job[1]
          /\ i.succ = Successors(t, g, k, Arguments(t)[g].successors)
          /\ i.limit = PreviousCount(t, g, RunStart(t, g, k), Arguments(t)[g].previous)
      BY <1>11 DEF Item
    <2> QED BY <1>2, <1>3, <1>12, <2>2, <2>3, <2>4
  <1>22. ItemRight(t, g, i)
    BY <1>1, <1>6, <1>16, <1>17, <1>19, <1>21 DEF ItemRight
  <1> QED BY <1>11, <1>22

LEMMA ItemsAre ==
  ASSUME NEW t, Tailed(t), NEW g \in Live(t)
  PROVE  /\ \A i \in ItemsOf(t, g) : ItemRight(t, g, i)
         /\ \A n \in Starts(t) : t.parent[n] = g => \E i \in ItemsOf(t, g) : i.id = n
  <1>1. Sound(t) /\ g \in Groups /\ HasSynths(t, Root) /\ ToSet(t.kids[g]) = Kin(t.parent, g)
    BY BlockListFacts DEF Tailed, Sound, FitsAt
  <1>2. \A i \in ItemsOf(t, g) : ItemRight(t, g, i)
    <2> TAKE i \in ItemsOf(t, g)
    <2>1. CASE g \in ParGroups
      <3>1. PICK n \in ToSet(t.kids[g]) \cap Synths :
                i = Item(<<n>>, Arguments(t)[g].successors, Arguments(t)[g].previous)
        BY <2>1 DEF ItemsOf
      <3>2. n \in Synths /\ t.parent[n] = g
        BY <1>1, <3>1 DEF Kin
      <3> QED BY <2>1, <3>1, <3>2, ParallelItem
    <2>2. CASE g \notin ParGroups
      <3>1. PICK k \in RunEnds(t, g) :
                i = Item(SubSeq(t.kids[g], RunStart(t, g, k), k),
                         Successors(t, g, k, Arguments(t)[g].successors),
                         PreviousCount(t, g, RunStart(t, g, k), Arguments(t)[g].previous))
        BY <2>2 DEF ItemsOf
      <3>2. g \in SeqGroups
        BY <1>1, <2>2 DEF Groups
      <3> QED BY <3>1, <3>2, SequentialItem
    <2> QED BY <2>1, <2>2
  <1>3. ASSUME NEW n \in Starts(t), t.parent[n] = g PROVE \E i \in ItemsOf(t, g) : i.id = n
    <2>1. n \in Kin(t.parent, g) \cap Synths
      BY <1>1, <1>3, BlocksAre, NodeFacts DEF Kin
    <2>2. PICK i \in ItemsOf(t, g) : n \in ToSet(i.job)
      BY <1>1, <2>1, ItemsFacts
    <2>3. IsRun(t, i.job, i.id)
      BY <1>2 DEF ItemRight
    <2>4. i.job \in Seq(Synths) /\ Len(i.job) \in Nat
      BY <2>3 DEF IsRun
    <2>5. PICK x \in 1 .. Len(i.job) : i.job[x] = n
      BY <2>2, <2>4 DEF ToSet
    <2>6. x = 1
      <3>1. SUFFICES ASSUME x # 1 PROVE FALSE
        OBVIOUS
      <3>2. x \in 2 .. Len(i.job)
        BY <2>4, <2>5, <3>1
      <3> QED BY <2>3, <2>5, <3>2 DEF IsRun
    <2> QED BY <2>3, <2>5, <2>6 DEF IsRun
  <1> QED BY <1>2, <1>3

(* The queue: its items are the starts, and it fits the plan.              *)
LEMMA QueueIs ==
  ASSUME NEW t, Tailed(t), NEW q, q = Generate(t)
  PROVE  /\ Fits(PlanOf(t), q) /\ q.items = Starts(t)
         /\ \A n \in Starts(t) : IsRun(t, q.job[n], n)
         /\ \A n \in Starts(t) : q.limit[n] = Cardinality(Lead(PlanOf(t), n))
         /\ q.succ = [n \in q.items |-> q.succ[n]] /\ q.limit = [n \in q.items |-> q.limit[n]]
         /\ q.initial = {n \in q.items : q.limit[n] = 0} /\ q.parallel \in BOOLEAN
  <1>1. PICK B : B = PlanOf(t)
    OBVIOUS
  <1>2. q = QueueOf(ItemSet(t), HasParallel(t, Root))
    BY DEF Generate, ItemSet
  <1>3. /\ q.items = {i.id : i \in ItemSet(t)}
        /\ \A id \in q.items : /\ q.job[id] = ItemNamed(t, id).job /\ q.succ[id] = ItemNamed(t, id).succ
                               /\ q.limit[id] = ItemNamed(t, id).limit
    BY <1>2 DEF QueueOf, ItemNamed
  <1>4. /\ q.succ = [n \in q.items |-> q.succ[n]] /\ q.limit = [n \in q.items |-> q.limit[n]]
    BY <1>2 DEF QueueOf
  <1>5. q.initial = {n \in q.items : q.limit[n] = 0} /\ q.parallel \in BOOLEAN
    <2>1. HasParallel(t, Root) \in BOOLEAN
      BY DEF HasParallel
    <2>2. q.parallel \in BOOLEAN
      BY <1>2, <2>1 DEF QueueOf
    <2>3. q.initial = {n \in q.items : ItemNamed(t, n).limit = 0}
      BY <1>2 DEF QueueOf, ItemNamed
    <2> QED BY <1>3, <2>2, <2>3
  <1>6. \A id \in q.items : ItemNamed(t, id) \in ItemSet(t) /\ ItemNamed(t, id).id = id
    BY <1>3 DEF ItemNamed
  <1>7. ItemSet(t) = UNION {ItemsOf(t, g) : g \in Live(t)}
    BY DEF ItemSet, Live, Tailed
  <1>8. \A i \in ItemSet(t) : \E g \in Live(t) : ItemRight(t, g, i)
    BY <1>7, ItemsAre
  <1>9. q.items = Starts(t)
    <2>1. \A n \in q.items : n \in Starts(t)
      BY <1>3, <1>8 DEF ItemRight
    <2>2. ASSUME NEW n \in Starts(t) PROVE n \in q.items
      <3>1. t.parent[n] \in Live(t)
        BY BlocksAre DEF Tailed
      <3>2. PICK i \in ItemsOf(t, t.parent[n]) : i.id = n
        BY <3>1, ItemsAre
      <3> QED BY <1>3, <1>7, <3>1, <3>2
    <2> QED BY <2>1, <2>2
  <1>10. \A n \in Starts(t) : /\ IsRun(t, q.job[n], n) /\ q.succ[n] = Follow(B, n)
                              /\ q.limit[n] = Cardinality(Lead(B, n))
    <2> TAKE n \in Starts(t)
    <2>1. PICK i : i = ItemNamed(t, n)
      OBVIOUS
    <2>2. i \in ItemSet(t) /\ i.id = n
      BY <1>6, <1>9, <2>1
    <2>3. PICK g \in Live(t) : ItemRight(t, g, i)
      BY <1>8, <2>2
    <2>4. q.job[n] = i.job /\ q.succ[n] = i.succ /\ q.limit[n] = i.limit
      BY <1>3, <1>9, <2>1
    <2> QED BY <1>1, <2>2, <2>3, <2>4 DEF ItemRight
  <1>11. Fits(B, q)
    <2>1. B.leaves = Starts(t)
      BY <1>1, BlocksAre DEF Tailed
    <2> QED BY <1>9, <1>10, <2>1 DEF Fits
  <1> QED BY <1>1, <1>4, <1>5, <1>9, <1>10, <1>11

LEMMA QueueRight ==
  ASSUME NEW t, Tailed(t), NEW q, q = Generate(t)
  PROVE  IsQueue(q) /\ Acyclic(q)
  <1>1. PICK B : B = PlanOf(t)
    OBVIOUS
  <1>2. /\ Plan(B) /\ B.leaves = Starts(t) /\ Starts(t) \subseteq Nodes
    BY <1>1, PlanRight, BlocksAre, NodeFacts DEF Tailed
  <1>3. /\ Fits(B, q) /\ q.items = Starts(t)
        /\ \A n \in Starts(t) : q.limit[n] = Cardinality(Lead(B, n))
        /\ q.succ = [n \in q.items |-> q.succ[n]] /\ q.limit = [n \in q.items |-> q.limit[n]]
        /\ q.initial = {n \in q.items : q.limit[n] = 0} /\ q.parallel \in BOOLEAN
    BY <1>1, QueueIs
  <1>4. \A n \in q.items : Preds(q, n) = Lead(B, n) /\ q.succ[n] \subseteq q.items
    BY <1>2, <1>3, FitsPreds
  <1>5. IsFiniteSet(q.items)
    BY <1>2, <1>3, NodeFacts, FS_Subset
  <1>6. q.succ \in [q.items -> SUBSET q.items]
    BY <1>3, <1>4
  <1>7. q.limit = [n \in q.items |-> Cardinality(Preds(q, n))]
    BY <1>3, <1>4
  <1>8. Acyclic(q)
    BY <1>2, <1>3, FitsAcyclic
  <1> QED BY <1>3, <1>5, <1>6, <1>7, <1>8 DEF IsQueue

(* A tree without synths has an empty queue.                               *)
LEMMA SilentQueue ==
  ASSUME NEW t, Sound(t), ~ HasSynths(t, Root)
  PROVE  Realises(Generate(t), t)
  <1>1. PICK q : q = Generate(t)
    OBVIOUS
  <1>2. q = QueueOf({}, HasParallel(t, Root))
    BY <1>1 DEF Generate
  <1>3. q.items = {}
    BY <1>2 DEF QueueOf
  <1>4. /\ q.succ = [n \in {} |-> q.succ[n]] /\ q.limit = [n \in {} |-> q.limit[n]]
        /\ q.initial = {}
    BY <1>2 DEF QueueOf
  <1>5. q.parallel \in BOOLEAN
    BY <1>2 DEF QueueOf, HasParallel
  <1>6. IsQueue(q)
    <2>1. IsFiniteSet({})
      BY FS_EmptySet
    <2> QED BY <1>3, <1>4, <1>5, <2>1 DEF IsQueue
  <1>7. Under(t, Root) = {}
    <2>1. Under(t, Root) = {s \in Synths : t.parent[s] \in Reached(Kids(t.parent), Root)}
      BY NodeFacts, UnderIs
    <2>2. \A s \in Synths : t.parent[s] \in Reached(Kids(t.parent), Root) => s \in SynthsIn(t)
      BY NodeFacts, KidsFacts DEF SynthsIn
    <2>3. SynthsIn(t) = {}
      BY FilledReached
    <2> QED BY <2>1, <2>2, <2>3
  <1> QED BY <1>1, <1>3, <1>6, <1>7 DEF Realises, Acyclic

-----------------------------------------------------------------------------
(* The start of the run that a synth is in: the last block at or before it *)
(* in its group.                                                           *)
RunHead(t, c) ==
    IF t.parent[c] \in ParGroups THEN c
    ELSE t.kids[t.parent[c]][RunStart(t, t.parent[c], At(t, c))]

LEMMA RunHeadFacts ==
  ASSUME NEW t, Tailed(t), NEW c \in SynthsIn(t)
  PROVE  /\ RunHead(t, c) \in Starts(t) /\ t.parent[RunHead(t, c)] = t.parent[c]
         /\ t.parent[c] \in Live(t) /\ t.parent[c] \in Groups /\ c \in Synths /\ c \in Nodes
         /\ At(t, c) \in Nat /\ At(t, RunHead(t, c)) \in Nat /\ At(t, RunHead(t, c)) <= At(t, c)
         /\ \A n \in PlanOf(t).blocks :
               n # Root /\ t.parent[n] = t.parent[c] /\ At(t, n) <= At(t, c) =>
                  t.parent[c] \in ParGroups \/ At(t, n) <= At(t, RunHead(t, c))
         /\ t.parent[c] \in ParGroups => RunHead(t, c) = c
  <1>1. PICK g : g = t.parent[c]
    OBVIOUS
  <1>2. PICK s : s = t.kids[g]
    OBVIOUS
  <1>3. PICK k : k = At(t, c)
    OBVIOUS
  <1>4. Sound(t) /\ HasSynths(t, Root) /\ c \in Synths /\ c \in Nodes
    BY NodeFacts DEF Tailed, SynthsIn
  <1>5. g \in Live(t) /\ g \in Groups
    BY <1>1, <1>4, FilledReached, LiveFacts DEF Live
  <1>6. KidsAt(t, g)
    BY <1>4, <1>5, KidsAtFacts
  <1>7. k \in 1 .. Len(s) /\ s[k] = c /\ Len(s) \in Nat
    BY <1>1, <1>2, <1>3, <1>4, <1>6 DEF KidsAt
  <1>8. CASE g \in ParGroups
    <2>1. RunHead(t, c) = c
      BY <1>1, <1>8 DEF RunHead
    <2>2. c \in Starts(t)
      BY <1>2, <1>4, <1>5, <1>7, <1>8, StartsAre
    <2> QED BY <1>1, <1>3, <1>4, <1>5, <1>7, <1>8, <2>1, <2>2
  <1>9. CASE g \notin ParGroups
    <2>1. g \in SeqGroups
      BY <1>5, <1>9 DEF Groups
    <2>2. PICK b : b = RunStart(t, g, k)
      OBVIOUS
    <2>3. /\ b \in 1 .. k /\ s[b] \in Starts(t)
          /\ \A i \in b .. k : s[i] \in Synths
          /\ \A i \in b + 1 .. k : s[i] \notin Starts(t)
      BY <1>2, <1>4, <1>5, <1>7, <1>9, <2>2, RunStarts
    <2>4. RunHead(t, c) = s[b]
      BY <1>1, <1>2, <1>3, <1>9, <2>2 DEF RunHead
    <2>5. b \in 1 .. Len(s) /\ t.parent[s[b]] = g /\ At(t, s[b]) = b
      <3>1. b \in 1 .. Len(s)
        BY <1>7, <2>3
      <3> QED BY <1>2, <1>6, <3>1 DEF KidsAt
    <2>6. ASSUME NEW n \in PlanOf(t).blocks, n # Root, t.parent[n] = g, At(t, n) <= k PROVE At(t, n) <= b
      <3>1. n \in Nodes /\ n \in Live(t) \cup Starts(t) /\ Live(t) \cap Synths = {}
        BY <1>4, BlocksAre, LiveFacts, NodeFacts
      <3>2. At(t, n) \in 1 .. Len(s) /\ s[At(t, n)] = n
        BY <1>2, <1>6, <2>6, <3>1 DEF KidsAt
      <3>3. SUFFICES ASSUME ~(At(t, n) <= b) PROVE FALSE
        OBVIOUS
      <3>4. At(t, n) \in b + 1 .. k /\ At(t, n) \in b .. k
        BY <1>7, <2>3, <2>6, <3>2, <3>3
      <3> QED BY <2>3, <3>1, <3>2, <3>4
    <2> QED BY <1>1, <1>3, <1>4, <1>5, <1>7, <1>9, <2>3, <2>4, <2>5, <2>6
  <1> QED BY <1>8, <1>9

(* Where a synth is in the run it is in.                                   *)
Index(job, c) == SelectInSeq(job, LAMBDA n : n = c)

LEMMA RunMembers ==
  ASSUME NEW t, Tailed(t), NEW n \in Starts(t), NEW job, IsRun(t, job, n)
  PROVE  /\ IsInjective(job)
         /\ \A c \in ToSet(job) : /\ c \in SynthsIn(t) /\ RunHead(t, c) = n
                                  /\ Index(job, c) = At(t, c) - At(t, n) + 1
  <1>1. PICK g : g = t.parent[n]
    OBVIOUS
  <1>2. PICK s : s = t.kids[g]
    OBVIOUS
  <1>3. PICK a : a = At(t, n)
    OBVIOUS
  <1>4. Sound(t) /\ HasSynths(t, Root) /\ n \in Nodes /\ n \in SynthsIn(t) /\ n \in Synths /\ n # Root
    BY NodeFacts DEF Tailed, Starts, SynthsIn
  <1>5. g \in Live(t) /\ g \in Groups /\ g # Nil /\ n \in PlanOf(t).blocks
    BY <1>1, <1>4, BlocksAre, LiveFacts, NodeFacts
  <1>6. KidsAt(t, g)
    BY <1>4, <1>5, KidsAtFacts
  <1>7. a \in 1 .. Len(s) /\ s[a] = n /\ Len(s) \in Nat
    BY <1>1, <1>2, <1>3, <1>4, <1>6 DEF KidsAt
  <1>8. /\ job \in Seq(Synths) /\ Len(job) \in Nat
        /\ \A x \in 1 .. Len(job) : a + x - 1 \in 1 .. Len(s) /\ job[x] = s[a + x - 1]
        /\ \A x \in 2 .. Len(job) : job[x] \notin Starts(t)
    BY <1>1, <1>2, <1>3 DEF IsRun
  <1>9. \A x \in 1 .. Len(job) : /\ job[x] \in Synths /\ t.parent[job[x]] = g
                                 /\ At(t, job[x]) = a + x - 1
    <2> TAKE x \in 1 .. Len(job)
    <2>1. job[x] \in Synths
      BY <1>8, ElementOfSeq
    <2>2. a + x - 1 \in 1 .. Len(s) /\ job[x] = s[a + x - 1]
      BY <1>8
    <2> QED BY <1>2, <1>6, <2>1, <2>2 DEF KidsAt
  <1>10. IsInjective(job)
    <2>1. DOMAIN job = 1 .. Len(job)
      BY <1>8
    <2>2. \A x, y \in 1 .. Len(job) : job[x] = job[y] => x = y
      <3> SUFFICES ASSUME NEW x \in 1 .. Len(job), NEW y \in 1 .. Len(job), job[x] = job[y] PROVE x = y
        OBVIOUS
      <3>1. a + x - 1 = a + y - 1
        BY <1>9
      <3> QED BY <1>7, <3>1
    <2> QED BY <2>1, <2>2 DEF IsInjective
  <1>11. ASSUME NEW c \in ToSet(job)
         PROVE  c \in SynthsIn(t) /\ RunHead(t, c) = n /\ Index(job, c) = At(t, c) - a + 1
    <2>1. PICK x : x = Index(job, c)
      OBVIOUS
    <2>2. x \in 1 .. Len(job) /\ job[x] = c
      BY <1>8, <1>10, <2>1, PositionInSeq DEF Index
    <2>3. c \in Synths /\ t.parent[c] = g /\ At(t, c) = a + x - 1
      BY <1>9, <2>2
    <2>4. c \in SynthsIn(t)
      BY <1>5, <2>3 DEF SynthsIn
    <2>5. PICK h : h = RunHead(t, c)
      OBVIOUS
    <2>6. /\ h \in Starts(t) /\ t.parent[h] = g /\ At(t, h) \in Nat /\ At(t, h) <= At(t, c)
          /\ g \in ParGroups \/ a <= At(t, h)
          /\ g \in ParGroups => h = c
      <3>1. a <= At(t, c)
        BY <1>7, <2>2, <2>3
      <3> QED BY <1>1, <1>3, <1>4, <1>5, <2>3, <2>4, <2>5, <3>1, RunHeadFacts
    <2>7. a <= At(t, h)
      BY <1>7, <2>2, <2>3, <2>6
    <2>8. At(t, h) \in 1 .. Len(s) /\ s[At(t, h)] = h
      <3>1. h \in Nodes
        BY <1>4, <2>6, BlocksAre, NodeFacts
      <3> QED BY <1>2, <1>6, <2>6, <3>1 DEF KidsAt
    <2>9. At(t, h) = a
      <3>1. SUFFICES ASSUME At(t, h) # a PROVE FALSE
        OBVIOUS
      <3>2. PICK y : y = At(t, h) - a + 1
        OBVIOUS
      <3>3. y \in 2 .. Len(job) /\ y \in 1 .. Len(job) /\ a + y - 1 = At(t, h)
        <4>1. PICK u : u = At(t, h)
          OBVIOUS
        <4>2. a \in Nat /\ u \in Nat /\ a <= u /\ a # u
          BY <1>7, <2>6, <2>7, <3>1, <4>1
        <4>3. Len(job) \in Nat /\ x \in 1 .. Len(job)
          BY <1>8, <2>2
        <4>4. u <= a + x - 1
          BY <2>3, <2>6, <4>1
        <4>5. y = u - a + 1
          BY <3>2, <4>1
        <4>6. x \in Nat /\ y \in Nat /\ 2 <= y /\ y <= x /\ x <= Len(job) /\ a + y - 1 = u
          BY <4>2, <4>3, <4>4, <4>5
        <4>7. y \in 2 .. Len(job) /\ y \in 1 .. Len(job)
          BY <4>3, <4>6
        <4> QED BY <4>1, <4>6, <4>7
      <3>4. job[y] = h
        BY <1>8, <2>8, <3>3
      <3> QED BY <1>8, <2>6, <3>3, <3>4
    <2>10. h = n
      BY <1>7, <2>8, <2>9
    <2>11. x = At(t, c) - a + 1
      BY <1>7, <2>2, <2>3
    <2> QED BY <2>1, <2>4, <2>5, <2>10, <2>11
  <1> QED BY <1>3, <1>10, <1>11

(* Each synth of the tree is in the item that its run starts with, and in  *)
(* no other.                                                               *)
LEMMA ItemsHold ==
  ASSUME NEW t, Tailed(t), NEW q, q = Generate(t)
  PROVE  /\ \A c \in SynthsIn(t) : /\ RunHead(t, c) \in q.items /\ ItemOf(q, c) = RunHead(t, c)
                                   /\ \A n \in q.items : c \in ToSet(q.job[n]) <=> n = RunHead(t, c)
         /\ \A n \in q.items : /\ IsInjective(q.job[n]) /\ ToSet(q.job[n]) \subseteq SynthsIn(t)
                               /\ \A c \in ToSet(q.job[n]) : Index(q.job[n], c) = At(t, c) - At(t, n) + 1
  <1>1. q.items = Starts(t) /\ \A n \in q.items : IsRun(t, q.job[n], n)
    BY QueueIs
  <1>2. ASSUME NEW n \in q.items
        PROVE  /\ IsInjective(q.job[n])
               /\ \A c \in ToSet(q.job[n]) : /\ c \in SynthsIn(t) /\ RunHead(t, c) = n
                                             /\ Index(q.job[n], c) = At(t, c) - At(t, n) + 1
    BY <1>1, RunMembers
  <1>3. ASSUME NEW c \in SynthsIn(t)
        PROVE  /\ RunHead(t, c) \in q.items /\ ItemOf(q, c) = RunHead(t, c)
               /\ \A n \in q.items : c \in ToSet(q.job[n]) <=> n = RunHead(t, c)
    <2>1. PICK i \in q.items : c \in ToSet(q.job[i])
      <3>1. Sound(t)
        BY DEF Tailed
      <3> QED BY <3>1, GenerateCovers
    <2>2. \A n \in q.items : c \in ToSet(q.job[n]) => n = RunHead(t, c)
      BY <1>2
    <2>3. i = RunHead(t, c)
      BY <2>1, <2>2
    <2>4. ItemOf(q, c) = RunHead(t, c)
      BY <2>1, <2>2, <2>3 DEF ItemOf
    <2> QED BY <2>1, <2>2, <2>3, <2>4
  <1> QED BY <1>2, <1>3

-----------------------------------------------------------------------------
(* The plan of the queue and that of the tree agree on what is inside a    *)
(* block, and on which block is first.                                     *)
WholeHas(t) ==
    /\ Plan(Whole(t)) /\ Plan(PlanOf(t)) /\ PlanOf(t).blocks \subseteq Whole(t).blocks
    /\ Whole(t).parent = t.parent /\ PlanOf(t).parent = t.parent /\ t.parent[Root] = Nil
    /\ Whole(t).blocks = {n \in Nodes : n = Root \/ t.parent[n] # Nil}
    /\ Whole(t).seq = SeqGroups \cap Whole(t).blocks
    /\ PlanOf(t).blocks = Live(t) \cup Starts(t) /\ PlanOf(t).leaves = Starts(t)
    /\ PlanOf(t).seq = Live(t) \cap SeqGroups
    /\ Starts(t) \subseteq Synths /\ Live(t) \subseteq Groups
    /\ \A n \in Nodes : n # Root => Whole(t).at[n] = At(t, n) /\ PlanOf(t).at[n] = At(t, n)
    /\ \A n \in Whole(t).blocks : n # Root => At(t, n) \in Nat /\ t.parent[n] \in Groups

LEMMA WholeFacts ==
  ASSUME NEW t, Tailed(t)
  PROVE  WholeHas(t)
  <1>1. Sound(t) /\ HasSynths(t, Root) /\ t.parent[Root] = Nil /\ t.parent \in Parents
    BY DEF Tailed, Sound, Hangs
  <1>2. Plan(Whole(t)) /\ Plan(PlanOf(t))
    BY <1>1, WholePlan, PlanRight
  <1>3. /\ PlanOf(t).parent = t.parent /\ PlanOf(t).blocks = Live(t) \cup Starts(t)
        /\ PlanOf(t).leaves = Starts(t) /\ PlanOf(t).seq = Live(t) \cap SeqGroups
        /\ Starts(t) \subseteq Synths /\ Live(t) \subseteq Groups
        /\ \A n \in Nodes : n # Root => PlanOf(t).at[n] = At(t, n)
        /\ \A n \in Starts(t) : t.parent[n] \in Live(t)
        /\ \A h \in Live(t) : h # Root => t.parent[h] \in Live(t)
    BY <1>1, BlocksAre, LiveFacts
  <1>4. /\ Whole(t).blocks = {n \in Nodes : n = Root \/ t.parent[n] # Nil}
        /\ Whole(t).parent = t.parent /\ Whole(t).seq = SeqGroups \cap Whole(t).blocks
        /\ \A n \in Nodes : n # Root => Whole(t).at[n] = At(t, n)
    BY DEF Whole
  <1>5. PlanOf(t).blocks \subseteq Whole(t).blocks
    BY <1>3, <1>4, NodeFacts
  <1>6. ASSUME NEW n \in Whole(t).blocks, n # Root PROVE At(t, n) \in Nat /\ t.parent[n] \in Groups
    <2>1. n \in Nodes /\ t.parent[n] # Nil
      BY <1>4, <1>6
    <2>2. t.parent[n] \in Groups
      BY <1>1, <2>1 DEF Parents
    <2>3. KidsAt(t, t.parent[n])
      BY <1>1, <2>2, KidsAtFacts
    <2> QED BY <2>1, <2>2, <2>3 DEF KidsAt
  <1> QED BY <1>1, <1>2, <1>3, <1>4, <1>5, <1>6 DEF WholeHas

LEMMA WithinAgree ==
  ASSUME NEW t, Tailed(t), NEW m \in PlanOf(t).blocks
  PROVE  \A n \in PlanOf(t).blocks : n \in Within(Whole(t), m) <=> n \in Within(PlanOf(t), m)
  <1>1. PICK W : W = Whole(t)
    OBVIOUS
  <1>2. PICK B : B = PlanOf(t)
    OBVIOUS
  <1>3. /\ Plan(B) /\ B.blocks \subseteq W.blocks /\ W.parent = t.parent /\ B.parent = t.parent
        /\ m \in B.blocks /\ m \in W.blocks /\ t.parent[Root] = Nil /\ Nil \notin W.blocks
    BY <1>1, <1>2, WholeFacts, NodeFacts DEF WholeHas
  <1>4. Within(B, m) \subseteq Within(W, m)
    <2>1. PICK S : S = Within(W, m) \cap B.blocks
      OBVIOUS
    <2>2. S \in SUBSET B.blocks /\ m \in S /\ \A c \in B.blocks : B.parent[c] \in S => c \in S
      BY <1>3, <2>1, WithinFacts
    <2>3. Within(B, m) \subseteq S
      BY <1>3, <2>2, WithinFacts
    <2> QED BY <2>1, <2>3
  <1>5. ASSUME NEW n \in B.blocks, n \in Within(W, m) PROVE n \in Within(B, m)
    <2>1. PICK S : S = {x \in W.blocks : x \in B.blocks => x \in Within(B, m)}
      OBVIOUS
    <2>2. m \in S /\ S \in SUBSET W.blocks
      BY <1>3, <2>1, WithinFacts
    <2>3. ASSUME NEW c \in W.blocks, W.parent[c] \in S PROVE c \in S
      <3>1. SUFFICES ASSUME c \in B.blocks PROVE c \in Within(B, m)
        BY <2>1
      <3>2. c # Root
        BY <1>3, <2>1, <2>3
      <3>3. B.parent[c] \in B.blocks
        BY <1>3, <3>1, <3>2 DEF Plan
      <3>4. B.parent[c] \in Within(B, m)
        BY <1>3, <2>1, <2>3, <3>3
      <3> QED BY <1>3, <3>1, <3>4, WithinFacts
    <2>4. Within(W, m) \subseteq S
      BY <1>3, <2>2, <2>3, WithinFacts
    <2> QED BY <1>5, <2>1, <2>4
  <1> QED BY <1>1, <1>2, <1>4, <1>5

(* Node m of the tree, in a place next to block n of the queue's plan: n is *)
(* the last block up to m.                                                 *)
Beheaded(t, m, n) ==
    /\ m \in Whole(t).blocks /\ n \in PlanOf(t).blocks /\ m # Root /\ n # Root
    /\ t.parent[m] = t.parent[n] /\ At(t, n) <= At(t, m)
    /\ t.parent[m] \in SeqGroups =>
          \A k \in PlanOf(t).blocks :
             k # Root /\ t.parent[k] = t.parent[m] /\ At(t, k) <= At(t, m) => At(t, k) <= At(t, n)

LEMMA LeafWithin ==
  ASSUME NEW B, Plan(B), NEW x \in B.leaves
  PROVE  Within(B, x) = {x}
  <1>1. x \in B.blocks /\ B.blocks \in SUBSET B.blocks
    BY DEF Plan
  <1> QED BY <1>1, ClosureLeaves DEF Within

LEMMA SynthBeheaded ==
  ASSUME NEW t, Tailed(t), NEW c \in SynthsIn(t)
  PROVE  /\ Beheaded(t, c, RunHead(t, c)) /\ Within(Whole(t), c) = {c}
         /\ Within(PlanOf(t), RunHead(t, c)) = {RunHead(t, c)}
  <1>1. WholeHas(t)
    BY WholeFacts
  <1>2. c \in Whole(t).blocks /\ c # Root /\ c \in Synths /\ RunHead(t, c) # Root
    BY <1>1, RunHeadFacts, NodeFacts DEF WholeHas, SynthsIn
  <1>3. Beheaded(t, c, RunHead(t, c))
    BY <1>1, <1>2, RunHeadFacts, NodesAssumption DEF WholeHas, Beheaded
  <1>4. Within(Whole(t), c) = {c}
    <2>1. \A x \in Whole(t).blocks : Whole(t).parent[x] # c
      BY <1>1, <1>2, NodeFacts DEF WholeHas
    <2>2. {c} \in SUBSET Whole(t).blocks /\ \A x \in Whole(t).blocks : Whole(t).parent[x] \in {c} => x \in {c}
      BY <1>2, <2>1
    <2>3. PICK B : B = Whole(t)
      OBVIOUS
    <2>4. Within(B, c) \subseteq {c} /\ c \in Within(B, c)
      <3>1. c \in B.blocks
        BY <1>2, <2>3
      <3>2. /\ c \in Within(B, c)
            /\ \A S \in SUBSET B.blocks :
                  c \in S /\ (\A x \in B.blocks : B.parent[x] \in S => x \in S) => Within(B, c) \subseteq S
        BY <3>1, WithinFacts
      <3> QED BY <2>2, <2>3, <3>2
    <2> QED BY <2>3, <2>4
  <1>5. Within(PlanOf(t), RunHead(t, c)) = {RunHead(t, c)}
    <2>1. RunHead(t, c) \in PlanOf(t).leaves
      BY <1>1, RunHeadFacts DEF WholeHas
    <2>2. Plan(PlanOf(t))
      BY <1>1 DEF WholeHas
    <2> QED BY <2>1, <2>2, LeafWithin
  <1> QED BY <1>3, <1>4, <1>5

LEMMA GroupBeheaded ==
  ASSUME NEW t, Tailed(t), NEW g \in Live(t), g # Root
  PROVE  Beheaded(t, g, g)
  <1>1. WholeHas(t)
    BY WholeFacts
  <1>2. g \in Whole(t).blocks /\ g \in PlanOf(t).blocks /\ At(t, g) \in Nat
    BY <1>1 DEF WholeHas
  <1> QED BY <1>2 DEF Beheaded

(* From the tree to the queue: what a synth is inside of.                  *)
LEMMA HeadWithin ==
  ASSUME NEW t, Tailed(t), NEW a \in SynthsIn(t), NEW m \in Whole(t).blocks, m # Root,
         a \in Within(Whole(t), m)
  PROVE  \E n : /\ Beheaded(t, m, n) /\ RunHead(t, a) \in Within(PlanOf(t), n)
                /\ n = (IF m \in Synths THEN RunHead(t, a) ELSE m)
  <1>1. PICK W : W = Whole(t)
    OBVIOUS
  <1>2. PICK B : B = PlanOf(t)
    OBVIOUS
  <1>3. /\ Plan(B) /\ Plan(W) /\ W.parent = t.parent /\ B.parent = t.parent /\ t.parent[Root] = Nil
        /\ B.blocks = Live(t) \cup Starts(t) /\ Starts(t) \subseteq Synths /\ Live(t) \subseteq Groups
        /\ B.blocks \subseteq W.blocks /\ Nil \notin W.blocks
        /\ W.blocks = {n \in Nodes : n = Root \/ t.parent[n] # Nil}
    BY <1>1, <1>2, WholeFacts, NodeFacts DEF WholeHas
  <1>4. CASE m \in Synths
    <2>1. m \in SynthsIn(t)
      BY <1>1, <1>3, <1>4 DEF SynthsIn
    <2>2. m = a
      BY <2>1, SynthBeheaded
    <2> QED BY <1>4, <2>1, <2>2, SynthBeheaded
  <1>5. CASE m \notin Synths
    <2>1. /\ RunHead(t, a) \in Starts(t) /\ t.parent[RunHead(t, a)] = t.parent[a]
          /\ t.parent[a] \in Live(t) /\ a \in Synths /\ m # a
      BY <1>5, RunHeadFacts
    <2>2. t.parent[a] \in Within(W, m)
      BY <1>1, <1>3, <2>1, WithinFacts
    <2>3. m \in Live(t)
      <3>1. PICK S : S = {x \in W.blocks : x \in Live(t) => m \in Live(t)}
        OBVIOUS
      <3>2. S \in SUBSET W.blocks /\ m \in S
        BY <1>1, <3>1
      <3>3. ASSUME NEW c \in W.blocks, W.parent[c] \in S PROVE c \in S
        <4>1. SUFFICES ASSUME c \in Live(t) PROVE m \in Live(t)
          BY <3>1
        <4>2. c # Root
          BY <1>3, <3>1, <3>3
        <4>3. t.parent[c] \in Live(t)
          BY <4>1, <4>2, LiveFacts DEF Tailed
        <4> QED BY <1>3, <3>1, <3>3, <4>3
      <3>4. Within(W, m) \subseteq S
        BY <1>1, <3>2, <3>3, WithinFacts
      <3> QED BY <2>1, <2>2, <3>1, <3>4
    <2>4. m \in B.blocks /\ t.parent[a] \in B.blocks /\ RunHead(t, a) \in B.blocks
      BY <1>3, <2>1, <2>3
    <2>5. t.parent[a] \in Within(B, m)
      BY <1>1, <1>2, <2>2, <2>4, WithinAgree
    <2>6. RunHead(t, a) \in Within(B, m)
      BY <1>3, <2>1, <2>4, <2>5, WithinFacts
    <2> QED BY <1>2, <1>5, <2>3, <2>6, GroupBeheaded
  <1> QED BY <1>4, <1>5

(* And back.                                                               *)
LEMMA MemberWithin ==
  ASSUME NEW t, Tailed(t), NEW a \in SynthsIn(t), NEW n \in PlanOf(t).blocks, n # Root,
         RunHead(t, a) \in Within(PlanOf(t), n)
  PROVE  \E m : Beheaded(t, m, n) /\ a \in Within(Whole(t), m)
  <1>1. WholeHas(t)
    BY WholeFacts
  <1>2. /\ RunHead(t, a) \in Starts(t) /\ t.parent[RunHead(t, a)] = t.parent[a]
        /\ t.parent[a] \in Live(t) /\ a \in Synths
    BY RunHeadFacts
  <1>3. CASE n \in Starts(t)
    <2>1. Within(PlanOf(t), n) = {n}
      BY <1>1, <1>3, LeafWithin DEF WholeHas
    <2>2. n = RunHead(t, a)
      BY <2>1
    <2> QED BY <2>2, SynthBeheaded
  <1>4. CASE n \notin Starts(t)
    <2>1. n \in Live(t) /\ n # RunHead(t, a)
      BY <1>1, <1>2, <1>4 DEF WholeHas
    <2>2. t.parent[a] \in Within(PlanOf(t), n)
      BY <1>1, <1>2, <2>1, WithinFacts DEF WholeHas
    <2>3. t.parent[a] \in Within(Whole(t), n)
      BY <1>1, <1>2, <2>2, WithinAgree DEF WholeHas
    <2>4. a \in Within(Whole(t), n)
      <3>1. a \in Whole(t).blocks /\ n \in Whole(t).blocks
        BY <1>1, <1>2, <2>1, NodeFacts DEF WholeHas, SynthsIn
      <3> QED BY <1>1, <2>3, <3>1, WithinFacts DEF WholeHas
    <2> QED BY <2>1, <2>4, GroupBeheaded
  <1> QED BY <1>3, <1>4

(* Two synths of different runs are ordered in the tree as their runs are  *)
(* in the plan of the queue.                                               *)
LEMMA BeheadedOrder ==
  ASSUME NEW t, Tailed(t), NEW m, NEW n, NEW k, NEW l, Beheaded(t, m, k), Beheaded(t, n, l)
  PROVE  /\ Before(PlanOf(t), k, l) => Before(Whole(t), m, n)
         /\ Before(Whole(t), m, n) /\ k # l => Before(PlanOf(t), k, l)
  <1>1. WholeHas(t)
    BY WholeFacts
  <1>2. /\ m \in Whole(t).blocks /\ n \in Whole(t).blocks /\ m # Root /\ n # Root
        /\ k \in PlanOf(t).blocks /\ l \in PlanOf(t).blocks /\ k # Root /\ l # Root
        /\ k \in Whole(t).blocks /\ l \in Whole(t).blocks
        /\ t.parent[m] = t.parent[k] /\ t.parent[n] = t.parent[l]
        /\ At(t, k) <= At(t, m) /\ At(t, l) <= At(t, n)
    BY <1>1 DEF Beheaded, WholeHas
  <1>3. At(t, m) \in Nat /\ At(t, n) \in Nat /\ At(t, k) \in Nat /\ At(t, l) \in Nat
    BY <1>1, <1>2 DEF WholeHas
  <1>4. /\ Whole(t).at[m] = At(t, m) /\ Whole(t).at[n] = At(t, n)
        /\ PlanOf(t).at[k] = At(t, k) /\ PlanOf(t).at[l] = At(t, l)
    BY <1>1, <1>2 DEF WholeHas
  <1>5. Whole(t).parent = t.parent /\ PlanOf(t).parent = t.parent
    BY <1>1 DEF WholeHas
  <1>6. ASSUME Before(PlanOf(t), k, l) PROVE Before(Whole(t), m, n)
    <2>1. /\ t.parent[k] = t.parent[l] /\ t.parent[k] \in Live(t) \cap SeqGroups /\ At(t, k) < At(t, l)
      BY <1>1, <1>4, <1>5, <1>6 DEF Before, WholeHas
    <2>2. t.parent[m] \in Whole(t).seq
      BY <1>1, <1>2, <2>1 DEF WholeHas
    <2>3. At(t, m) < At(t, n)
      <3>1. SUFFICES ASSUME ~(At(t, m) < At(t, n)) PROVE FALSE
        OBVIOUS
      <3>2. At(t, l) <= At(t, m)
        BY <1>2, <1>3, <3>1
      <3>3. At(t, l) <= At(t, k)
        BY <1>2, <2>1, <3>2 DEF Beheaded
      <3> QED BY <1>3, <2>1, <3>3
    <2> QED BY <1>2, <1>4, <1>5, <2>1, <2>2, <2>3 DEF Before
  <1>7. ASSUME Before(Whole(t), m, n), k # l PROVE Before(PlanOf(t), k, l)
    <2>1. /\ t.parent[m] = t.parent[n] /\ t.parent[m] \in SeqGroups /\ At(t, m) < At(t, n)
      BY <1>1, <1>4, <1>5, <1>7 DEF Before, WholeHas
    <2>2. At(t, k) <= At(t, n)
      BY <1>2, <1>3, <2>1
    <2>3. At(t, k) <= At(t, l)
      BY <1>2, <2>1, <2>2 DEF Beheaded
    <2>4. At(t, k) # At(t, l)
      <3>1. Plan(PlanOf(t))
        BY <1>1 DEF WholeHas
      <3>2. PlanOf(t).parent[k] = PlanOf(t).parent[l]
        BY <1>2, <1>5, <2>1
      <3>3. PlanOf(t).at[k] # PlanOf(t).at[l]
        BY <1>2, <1>7, <3>1, <3>2 DEF Plan
      <3> QED BY <1>4, <3>3
    <2>5. At(t, k) < At(t, l)
      BY <1>3, <2>3, <2>4
    <2>6. t.parent[k] \in PlanOf(t).seq
      <3>1. t.parent[k] \in PlanOf(t).blocks
        BY <1>1, <1>2, <1>5 DEF WholeHas, Plan
      <3>2. t.parent[k] \notin Synths
        BY <1>2, <2>1, NodeFacts DEF Groups
      <3> QED BY <1>1, <1>2, <2>1, <3>1, <3>2 DEF WholeHas
    <2> QED BY <1>2, <1>4, <1>5, <2>1, <2>5, <2>6 DEF Before
  <1> QED BY <1>6, <1>7

LEMMA RunsOrder ==
  ASSUME NEW t, Tailed(t), NEW a \in SynthsIn(t), NEW b \in SynthsIn(t), RunHead(t, a) # RunHead(t, b)
  PROVE  Ahead(PlanOf(t), RunHead(t, a), RunHead(t, b)) <=> Ahead(Whole(t), a, b)
  <1>1. PICK W : W = Whole(t)
    OBVIOUS
  <1>2. PICK B : B = PlanOf(t)
    OBVIOUS
  <1>3. WholeHas(t)
    BY WholeFacts
  <1>4. /\ \A m, n : Before(W, m, n) => m \in W.blocks /\ n \in W.blocks /\ m # Root /\ n # Root
        /\ \A m, n : Before(B, m, n) => m \in B.blocks /\ n \in B.blocks /\ m # Root /\ n # Root
    <2>1. Nil \notin SeqGroups
      BY NodeFacts DEF Groups
    <2>2. t.parent[Root] = Nil /\ W.parent = t.parent /\ B.parent = t.parent
      BY <1>1, <1>2, <1>3 DEF WholeHas
    <2>3. W.seq \subseteq SeqGroups /\ B.seq \subseteq SeqGroups
      BY <1>1, <1>2, <1>3 DEF WholeHas
    <2> QED BY <2>1, <2>2, <2>3 DEF Before
  <1>5. ASSUME Ahead(W, a, b) PROVE Ahead(B, RunHead(t, a), RunHead(t, b))
    <2>1. PICK m, n \in W.blocks : Before(W, m, n) /\ a \in Within(W, m) /\ b \in Within(W, n)
      BY <1>5 DEF Ahead
    <2>2. m # Root /\ n # Root
      BY <1>4, <2>1
    <2>3. PICK k : /\ Beheaded(t, m, k) /\ RunHead(t, a) \in Within(B, k)
                   /\ k = (IF m \in Synths THEN RunHead(t, a) ELSE m)
      BY <1>1, <1>2, <2>1, <2>2, HeadWithin
    <2>4. PICK l : /\ Beheaded(t, n, l) /\ RunHead(t, b) \in Within(B, l)
                   /\ l = (IF n \in Synths THEN RunHead(t, b) ELSE n)
      BY <1>1, <1>2, <2>1, <2>2, HeadWithin
    <2>5. k # l
      <3>1. RunHead(t, a) \in Synths /\ RunHead(t, b) \in Synths
        BY <1>3, RunHeadFacts DEF WholeHas
      <3>2. m # n
        <4>1. \A x \in W.blocks : W.at[x] \in Nat
          BY <1>1, <1>3 DEF WholeHas, Plan
        <4> QED BY <2>1, <4>1 DEF Before
      <3> QED BY <2>3, <2>4, <3>1, <3>2
    <2>6. Before(B, k, l)
      BY <1>1, <1>2, <2>1, <2>3, <2>4, <2>5, BeheadedOrder
    <2>7. k \in B.blocks /\ l \in B.blocks
      BY <1>4, <2>6
    <2> QED BY <2>3, <2>4, <2>6, <2>7 DEF Ahead
  <1>6. ASSUME Ahead(B, RunHead(t, a), RunHead(t, b)) PROVE Ahead(W, a, b)
    <2>1. PICK k, l \in B.blocks : /\ Before(B, k, l) /\ RunHead(t, a) \in Within(B, k)
                                   /\ RunHead(t, b) \in Within(B, l)
      BY <1>6 DEF Ahead
    <2>2. k # Root /\ l # Root
      BY <1>4, <2>1
    <2>3. PICK m : Beheaded(t, m, k) /\ a \in Within(W, m)
      BY <1>1, <1>2, <2>1, <2>2, MemberWithin
    <2>4. PICK n : Beheaded(t, n, l) /\ b \in Within(W, n)
      BY <1>1, <1>2, <2>1, <2>2, MemberWithin
    <2>5. Before(W, m, n)
      BY <1>1, <1>2, <2>1, <2>3, <2>4, BeheadedOrder
    <2>6. m \in W.blocks /\ n \in W.blocks
      BY <1>4, <2>5
    <2> QED BY <2>3, <2>4, <2>5, <2>6 DEF Ahead
  <1> QED BY <1>1, <1>2, <1>5, <1>6

(* Within a run the order is that of the list.                             *)
LEMMA RunInOrder ==
  ASSUME NEW t, Tailed(t), NEW a \in SynthsIn(t), NEW b \in SynthsIn(t), a # b,
         RunHead(t, a) = RunHead(t, b)
  PROVE  At(t, a) < At(t, b) <=> Ahead(Whole(t), a, b)
  <1>1. PICK W : W = Whole(t)
    OBVIOUS
  <1>2. WholeHas(t)
    BY WholeFacts
  <1>3. PICK g : g = t.parent[a]
    OBVIOUS
  <1>4. /\ t.parent[b] = g /\ g \in Groups /\ g \notin ParGroups
        /\ At(t, a) \in Nat /\ At(t, b) \in Nat /\ a \in Synths /\ b \in Synths /\ a \in Nodes /\ b \in Nodes
    BY <1>3, RunHeadFacts
  <1>5. a # Root /\ b # Root /\ g \in SeqGroups /\ g # Nil
    BY <1>4, NodeFacts DEF Groups
  <1>6. /\ a \in W.blocks /\ b \in W.blocks /\ W.at[a] = At(t, a) /\ W.at[b] = At(t, b)
        /\ W.parent = t.parent /\ Plan(W)
    BY <1>1, <1>2, <1>3, <1>4, <1>5 DEF WholeHas
  <1>7. g \in W.seq
    <2>1. g \in W.blocks
      BY <1>3, <1>5, <1>6 DEF Plan
    <2> QED BY <1>1, <1>2, <1>5, <2>1 DEF WholeHas
  <1>8. a \in Within(W, a) /\ b \in Within(W, b)
    BY <1>6, WithinFacts
  <1>9. ASSUME At(t, a) < At(t, b) PROVE Ahead(W, a, b)
    BY <1>3, <1>4, <1>6, <1>7, <1>8, <1>9 DEF Ahead, Before
  <1>10. ASSUME At(t, b) < At(t, a) PROVE Ahead(W, b, a)
    BY <1>3, <1>4, <1>6, <1>7, <1>8, <1>10 DEF Ahead, Before
  <1>11. At(t, a) # At(t, b)
    BY <1>3, <1>4, <1>6 DEF Plan
  <1>12. ASSUME Ahead(W, a, b) PROVE At(t, a) < At(t, b)
    <2>1. SUFFICES ASSUME ~(At(t, a) < At(t, b)) PROVE FALSE
      OBVIOUS
    <2>2. Ahead(W, b, a)
      BY <1>4, <1>10, <1>11, <2>1
    <2> QED BY <1>6, <1>12, <2>2, AheadOrder
  <1> QED BY <1>1, <1>9, <1>12

(* The queue generated from a tree without a hollow tail.                  *)
LEMMA SynthsUnderRoot ==
  ASSUME NEW t, Sound(t)
  PROVE  Under(t, Root) = SynthsIn(t)
  <1>1. Under(t, Root) = {s \in Synths : t.parent[s] \in Reached(Kids(t.parent), Root)}
    BY NodeFacts, UnderIs
  <1>2. \A s \in Synths : t.parent[s] \in Reached(Kids(t.parent), Root) => t.parent[s] # Nil
    BY NodeFacts, KidsFacts
  <1>3. \A s \in Synths : t.parent[s] # Nil => t.parent[s] \in Reached(Kids(t.parent), Root)
    BY NodeFacts DEF Sound, Hangs
  <1> QED BY <1>1, <1>2, <1>3 DEF SynthsIn

LEMMA GenerateRight ==
  ASSUME NEW t, Sound(t), ~ HollowTail(t)
  PROVE  Realises(Generate(t), t)
  <1>1. CASE ~ HasSynths(t, Root)
    BY <1>1, SilentQueue
  <1>2. CASE HasSynths(t, Root)
    <2>1. Tailed(t)
      BY <1>2 DEF Tailed
    <2>2. PICK q : q = Generate(t)
      OBVIOUS
    <2>3. IsQueue(q) /\ Acyclic(q)
      BY <2>1, <2>2, QueueRight
    <2>4. UNION {ToSet(q.job[i]) : i \in q.items} = SynthsIn(t)
      BY <2>2, GenerateCovers
    <2>5. ASSUME NEW i \in q.items, NEW j \in q.items
          PROVE  IsInjective(q.job[i]) /\ (i # j => ToSet(q.job[i]) \cap ToSet(q.job[j]) = {})
      <3>1. IsInjective(q.job[i]) /\ ToSet(q.job[i]) \subseteq SynthsIn(t)
        BY <2>1, <2>2, ItemsHold
      <3>2. \A c \in SynthsIn(t) : /\ c \in ToSet(q.job[i]) => i = RunHead(t, c)
                                   /\ c \in ToSet(q.job[j]) => j = RunHead(t, c)
        BY <2>1, <2>2, ItemsHold
      <3> QED BY <3>1, <3>2
    <2>6. ASSUME NEW a \in SynthsIn(t), NEW b \in SynthsIn(t), a # b
          PROVE  RunsBefore(q, a, b) <=> Earlier(t, a, b)
      <3>1. PICK i : i = RunHead(t, a)
        OBVIOUS
      <3>2. PICK j : j = RunHead(t, b)
        OBVIOUS
      <3>3. /\ ItemOf(q, a) = i /\ ItemOf(q, b) = j /\ i \in q.items /\ j \in q.items
            /\ a \in ToSet(q.job[i]) /\ (b \in ToSet(q.job[i]) <=> i = j)
        BY <2>1, <2>2, <3>1, <3>2, ItemsHold
      <3>4. Earlier(t, a, b) <=> Ahead(Whole(t), a, b)
        BY <1>2, EarlierIs DEF SynthsIn
      <3>5. CASE i = j
        <4>1. RunsBefore(q, a, b) <=> Index(q.job[i], a) < Index(q.job[i], b)
          BY <3>3, <3>5 DEF RunsBefore, Index
        <4>2. /\ Index(q.job[i], a) = At(t, a) - At(t, i) + 1
              /\ Index(q.job[i], b) = At(t, b) - At(t, i) + 1
          BY <2>1, <2>2, <3>3, <3>5, ItemsHold
        <4>3. At(t, a) \in Nat /\ At(t, b) \in Nat /\ At(t, i) \in Nat
          BY <2>1, <3>1, RunHeadFacts
        <4>4. RunsBefore(q, a, b) <=> At(t, a) < At(t, b)
          BY <4>1, <4>2, <4>3
        <4> QED BY <2>1, <2>6, <3>1, <3>2, <3>4, <3>5, <4>4, RunInOrder
      <3>6. CASE i # j
        <4>1. RunsBefore(q, a, b) <=> Leads(q, i, j)
          BY <3>3, <3>6 DEF RunsBefore
        <4>2. Plan(PlanOf(t)) /\ Fits(PlanOf(t), q)
          BY <1>2, <2>1, <2>2, PlanRight, QueueIs
        <4>3. Leads(q, i, j) <=> Ahead(PlanOf(t), i, j)
          BY <3>3, <4>2, FitsLeads DEF Fits
        <4> QED BY <2>1, <3>1, <3>2, <3>4, <3>6, <4>1, <4>3, RunsOrder
      <3> QED BY <3>5, <3>6
    <2>7. Under(t, Root) = SynthsIn(t)
      BY SynthsUnderRoot
    <2> QED BY <2>2, <2>3, <2>4, <2>5, <2>6, <2>7 DEF Realises
  <1> QED BY <1>1, <1>2

-----------------------------------------------------------------------------
(* synth_count_ is never less than the synths in the tree: what a replaced *)
(* group contained stays counted, but nothing is counted out twice.        *)
CountInv == TreeInv /\ Cardinality(SynthsIn(tree)) <= synth_count

LEMMA Fewer ==
  ASSUME NEW S \in SUBSET Synths, NEW D \in SUBSET S, NEW R \in SUBSET (S \ D)
  PROVE  /\ Cardinality(R) <= Cardinality(S) - Cardinality(D)
         /\ Cardinality(R) \in Nat /\ Cardinality(S) \in Nat /\ Cardinality(D) \in Nat
  <1>1. IsFiniteSet(S)
    BY NodeFacts, FS_Subset
  <1>2. IsFiniteSet(S \ D) /\ Cardinality(S \ D) = Cardinality(S) - Cardinality(D)
    <2>1. S \cap D = D
      OBVIOUS
    <2> QED BY <1>1, <2>1, FS_Difference
  <1>3. IsFiniteSet(R) /\ IsFiniteSet(D) /\ Cardinality(R) <= Cardinality(S \ D)
    BY <1>1, <1>2, FS_Subset
  <1> QED BY <1>1, <1>2, <1>3, FS_CardinalityType

LEMMA FewerInTree ==
  ASSUME CountInv, NEW D \in SUBSET SynthsIn(tree), NEW c \in Int, c <= Cardinality(D),
         SynthsIn(tree') \subseteq SynthsIn(tree) \ D, synth_count' = synth_count - c
  PROVE  Cardinality(SynthsIn(tree')) <= synth_count'
  <1>1. SynthsIn(tree) \in SUBSET Synths /\ SynthsIn(tree') \in SUBSET (SynthsIn(tree) \ D)
    BY DEF SynthsIn
  <1>2. PICK a : a = Cardinality(SynthsIn(tree))
    OBVIOUS
  <1>3. PICK b : b = Cardinality(SynthsIn(tree'))
    OBVIOUS
  <1>4. b <= a - Cardinality(D) /\ a \in Nat /\ b \in Nat /\ Cardinality(D) \in Nat
    BY <1>1, <1>2, <1>3, Fewer
  <1>5. synth_count \in Int /\ a <= synth_count
    BY <1>2 DEF CountInv, TreeInv
  <1> QED BY <1>3, <1>4, <1>5

(* What goes away with a node or from a group was in the tree.             *)
LEMMA GoneInTree ==
  ASSUME Sound(tree), NEW n \in Nodes
  PROVE  /\ Below(tree, n) \cap Synths = Desc(tree.parent, n) \cap Synths
         /\ (Below(tree, n) \cup {n}) \cap Synths = Gone(tree.parent, n) \cap Synths
         /\ Desc(tree.parent, n) \cap Synths \subseteq SynthsIn(tree)
         /\ tree.parent[n] # Nil => Gone(tree.parent, n) \cap Synths \subseteq SynthsIn(tree)
         /\ \A D : SynthsIn(tree) \ D = SynthsIn(tree) \ (D \cap Synths)
  <1>1. Below(tree, n) = Desc(tree.parent, n)
    BY BelowIs
  <1>2. \A m \in Desc(tree.parent, n) : tree.parent[m] # Nil
    BY NodeFacts, KidsFacts DEF Desc
  <1> QED BY <1>1, <1>2 DEF SynthsIn, Gone

LEMMA AddNodeCount ==
  ASSUME CountInv, NEW n \in Nodes, NEW target \in Nodes, NEW w \in Into \cup Beside,
         AddNode(n, target, w)
  PROVE  Cardinality(SynthsIn(tree')) <= synth_count'
  <1>1. Sound(tree) /\ synth_count \in Int /\ orphans \subseteq Synths
    BY DEF CountInv, TreeInv
  <1>2. /\ \A m \in Nodes : tree'.parent[m] # Nil => m = n \/ tree.parent[m] # Nil
        /\ w = "replace" => tree'.parent[target] = Nil
    BY <1>1, AddNodeSound
  <1>3. PICK lost : lost = IF w = "replace" /\ target \in Synths THEN 1 ELSE 0
    OBVIOUS
  <1>4. /\ tree.parent[n] = Nil /\ (target = Root \/ tree.parent[target] # Nil)
        /\ w \in Beside => target # Root
        /\ synth_count' = synth_count - lost + (IF n \in Synths THEN 1 ELSE 0)
    <2>1. /\ ~Alive(n) /\ Found(target)
          /\ w \in Into => target \in Groups
          /\ w \in Beside => tree.parent[target] # Nil
          /\ synth_count' = synth_count - lost + (IF n \in Synths THEN 1 ELSE 0)
      BY <1>3 DEF AddNode
    <2>2. InTree(target) /\ (w \in Beside => target # Root)
      BY <1>1, <2>1, ReachesTarget
    <2> QED BY <2>1, <2>2 DEF Alive, InTree
  <1>5. PICK D : D = IF w = "replace" /\ target \in Synths THEN {target} ELSE {}
    OBVIOUS
  <1>6. PICK S : S = SynthsIn(tree)
    OBVIOUS
  <1>7. PICK R : R = SynthsIn(tree') \ {n}
    OBVIOUS
  <1>8. S \in SUBSET Synths /\ D \in SUBSET S /\ Cardinality(D) = lost
    <2>1. w = "replace" => w \in Beside
      BY DEF Beside
    <2>2. Cardinality({}) = 0 /\ \A x : Cardinality({x}) = 1
      BY FS_EmptySet, FS_Singleton
    <2> QED BY <1>3, <1>4, <1>5, <1>6, <2>1, <2>2, NodeFacts DEF SynthsIn
  <1>9. R \in SUBSET (S \ D)
    BY <1>2, <1>5, <1>6, <1>7, NodeFacts DEF SynthsIn
  <1>10. /\ Cardinality(R) <= Cardinality(S) - lost /\ Cardinality(R) \in Nat /\ Cardinality(S) \in Nat
    BY <1>8, <1>9, Fewer
  <1>11. Cardinality(S) <= synth_count
    BY <1>6 DEF CountInv
  <1>12. PICK one : one = IF n \in Synths THEN 1 ELSE 0
    OBVIOUS
  <1>13. Cardinality(SynthsIn(tree')) <= Cardinality(R) + one /\ Cardinality(SynthsIn(tree')) \in Nat
    <2>1. IsFiniteSet(R)
      BY <1>8, <1>9, NodeFacts, FS_Subset
    <2>2. CASE n \in SynthsIn(tree')
      <3>1. SynthsIn(tree') = R \cup {n} /\ n \notin R /\ n \in Synths
        BY <1>7, <2>2 DEF SynthsIn
      <3>2. Cardinality(SynthsIn(tree')) = Cardinality(R) + 1
        BY <2>1, <3>1, FS_AddElement
      <3> QED BY <1>10, <1>12, <3>1, <3>2
    <2>3. CASE n \notin SynthsIn(tree')
      <3>1. SynthsIn(tree') = R
        BY <1>7, <2>3
      <3> QED BY <1>10, <1>12, <3>1
    <2> QED BY <2>2, <2>3
  <1>14. synth_count' = synth_count - lost + one /\ lost \in Int /\ one \in Int
    BY <1>3, <1>4, <1>12
  <1>15. PICK r : r = Cardinality(SynthsIn(tree'))
    OBVIOUS
  <1>16. r <= Cardinality(R) + one /\ r \in Nat
    BY <1>13, <1>15
  <1>17. r <= synth_count'
    BY <1>1, <1>10, <1>11, <1>14, <1>16
  <1> QED BY <1>15, <1>17

LEMMA FreeCount ==
  ASSUME CountInv, NEW n \in Nodes, n # Root, tree.parent[n] # Nil,
         tree' = Freed(tree, n), synth_count' = synth_count - SynthsFrom(n)
  PROVE  Cardinality(SynthsIn(tree')) <= synth_count'
  <1>1. Sound(tree)
    BY DEF CountInv, TreeInv
  <1>2. tree'.parent = Without(tree.parent, Gone(tree.parent, n))
    BY <1>1, FreedSound
  <1>3. PICK D : D = Gone(tree.parent, n) \cap Synths
    OBVIOUS
  <1>4. D \in SUBSET SynthsIn(tree) /\ SynthsFrom(n) = Cardinality(D)
    BY <1>1, <1>3, GoneInTree DEF SynthsFrom
  <1>5. SynthsIn(tree') \subseteq SynthsIn(tree) \ D
    BY <1>2, <1>3, NodeFacts DEF SynthsIn, Without
  <1>6. SynthsFrom(n) \in Int
    BY CountsOfSynths DEF CountInv
  <1>7. SynthsFrom(n) <= Cardinality(D)
    BY <1>4, <1>6
  <1> QED BY <1>4, <1>5, <1>6, <1>7, FewerInTree

LEMMA EmptyCount ==
  ASSUME CountInv, NEW g \in Nodes, tree' = Emptied(tree, g),
         synth_count' = synth_count - Cardinality(Below(tree, g) \cap Synths)
  PROVE  Cardinality(SynthsIn(tree')) <= synth_count'
  <1>1. Sound(tree)
    BY DEF CountInv, TreeInv
  <1>2. tree'.parent = Without(tree.parent, Desc(tree.parent, g))
    BY <1>1, EmptiedSound
  <1>3. PICK D : D = Desc(tree.parent, g) \cap Synths
    OBVIOUS
  <1>4. D \in SUBSET SynthsIn(tree) /\ Below(tree, g) \cap Synths = D
    BY <1>1, <1>3, GoneInTree
  <1>5. SynthsIn(tree') \subseteq SynthsIn(tree) \ D
    BY <1>2, <1>3, NodeFacts DEF SynthsIn, Without
  <1>6. Cardinality(D) \in Int
    BY <1>4, CountsOfSynths DEF CountInv
  <1>7. Cardinality(D) <= Cardinality(D)
    BY <1>6
  <1> QED BY <1>4, <1>5, <1>6, <1>7, FewerInTree

(* The counter of /g_deepFree must not start above zero.                   *)
LEMMA DeepCount ==
  ASSUME CountInv, \A c \in Garbage : c <= 0, NEW g \in Groups, GroupFreeDeep(g)
  PROVE  Cardinality(SynthsIn(tree')) <= synth_count'
  <1>1. Sound(tree) /\ g \in Nodes
    BY NodeFacts DEF CountInv, TreeInv
  <1>2. /\ \A m \in Nodes : tree'.parent[m] # Nil => tree.parent[m] # Nil
        /\ \A m \in Desc(tree.parent, g) \cap Synths : tree'.parent[m] = Nil
    BY <1>1, FreeDeepSound
  <1>3. PICK D : D = Desc(tree.parent, g) \cap Synths
    OBVIOUS
  <1>4. D \in SUBSET SynthsIn(tree) /\ Below(tree, g) \cap Synths = D
    BY <1>1, <1>3, GoneInTree
  <1>5. SynthsIn(tree') \subseteq SynthsIn(tree) \ D
    BY <1>2, <1>3, NodeFacts DEF SynthsIn
  <1>6. Cardinality(D) \in Int
    BY <1>1, <1>4, CountsOfSynths DEF CountInv
  <1>7. PICK garbage \in Garbage :
           synth_count' = synth_count - (garbage + Cardinality(Below(tree, g) \cap Synths))
    BY DEF GroupFreeDeep
  <1>8. PICK c : c = garbage + Cardinality(D)
    OBVIOUS
  <1>9. c \in Int /\ c <= Cardinality(D) /\ synth_count' = synth_count - c
    <2>1. garbage \in Int /\ garbage <= 0
      BY GarbageAssumption
    <2>2. c \in Int /\ c <= Cardinality(D)
      BY <1>6, <1>8, <2>1
    <2> QED BY <1>4, <1>7, <1>8, <2>2
  <1> QED BY <1>4, <1>5, <1>9, FewerInTree

LEMMA QuietCount ==
  ASSUME CountInv, SynthsIn(tree') \subseteq SynthsIn(tree), synth_count' = synth_count
  PROVE  Cardinality(SynthsIn(tree')) <= synth_count'
  <1>1. {} \in SUBSET SynthsIn(tree) /\ Cardinality({}) = 0 /\ 0 \in Int
    BY FS_EmptySet
  <1>2. synth_count' = synth_count - 0
    BY DEF CountInv, TreeInv
  <1>3. SynthsIn(tree') \subseteq SynthsIn(tree) \ {}
    OBVIOUS
  <1> QED BY <1>1, <1>2, <1>3, FewerInTree

LEMMA CommandsCount ==
  ASSUME CountInv, ~CrossMoves, ~CyclicMoves, \A c \in Garbage : c <= 0, Commands
  PROVE  Cardinality(SynthsIn(tree')) <= synth_count'
  <1>1. Sound(tree) /\ queued \cup fresh \subseteq Synths /\ tree.parent[Root] = Nil
    BY DEF CountInv, TreeInv, Sound, Hangs
  <1>2. ASSUME NEW s \in Synths, NEW n \in Nodes, NEW w \in Into \cup Beside, AddSynth(s, n, w)
        PROVE  Cardinality(SynthsIn(tree')) <= synth_count'
    BY <1>2, AddNodeCount, NodeFacts DEF AddSynth
  <1>3. ASSUME NEW g \in Groups, NEW n \in Nodes, NEW w \in Into \cup Beside, AddGroup(g, n, w)
        PROVE  Cardinality(SynthsIn(tree')) <= synth_count'
    BY <1>3, AddNodeCount, NodeFacts DEF AddGroup
  <1>4. ASSUME NEW n \in Nodes, FreeNode(n) PROVE Cardinality(SynthsIn(tree')) <= synth_count'
    BY <1>1, <1>4, FreeCount DEF FreeNode
  <1>5. ASSUME NEW g \in Groups, GroupFreeAll(g) PROVE Cardinality(SynthsIn(tree')) <= synth_count'
    BY <1>5, EmptyCount, NodeFacts DEF GroupFreeAll
  <1>6. ASSUME NEW g \in Groups, GroupFreeDeep(g) PROVE Cardinality(SynthsIn(tree')) <= synth_count'
    BY <1>6, DeepCount
  <1>7. ASSUME NEW n \in Nodes, NEW g \in Groups, NEW w, MoveInto(n, g, w)
        PROVE  Cardinality(SynthsIn(tree')) <= synth_count'
    BY <1>1, <1>7, MoveIntoSound, ShrunkSynths, QuietCount DEF MoveInto
  <1>8. ASSUME NEW n \in Nodes, NEW m \in Nodes, NEW w, MoveBeside(n, m, w)
        PROVE  Cardinality(SynthsIn(tree')) <= synth_count'
    BY <1>1, <1>8, MoveBesideSound, ShrunkSynths, QuietCount DEF MoveBeside
  <1>9. ASSUME NEW n \in Nodes, NEW m \in Nodes, NEW w, Order(n, m, w)
        PROVE  Cardinality(SynthsIn(tree')) <= synth_count'
    BY <1>1, <1>9, OrderSound, ShrunkSynths, QuietCount DEF Order, tickVars
  <1>10. ASSUME Undefined PROVE Cardinality(SynthsIn(tree')) <= synth_count'
    BY <1>10, QuietCount DEF Undefined
  <1> QED BY <1>2, <1>3, <1>4, <1>5, <1>6, <1>7, <1>8, <1>9, <1>10
          DEF Commands, AddBesideNone, MoveNone, OrderNone

LEMMA CountStep ==
  ASSUME CountInv, ~CrossMoves, ~CyclicMoves, \A c \in Garbage : c <= 0, [GraphNext]_graphVars
  PROVE  CountInv'
  <1>1. TreeInv'
    BY NextTree DEF CountInv
  <1>2. Sound(tree) /\ TreeInv
    BY DEF CountInv, TreeInv
  <1>3. ASSUME FreeDone PROVE Cardinality(SynthsIn(tree')) <= synth_count'
    <2>1. Head(done) \in Nodes
      BY <1>2, <1>3, FreeDoneTree
    <2>2. CASE tree.parent[Head(done)] = Nil
      <3>1. tree' = tree /\ synth_count' = synth_count
        BY <1>3, <2>2 DEF FreeDone
      <3> QED BY <3>1, QuietCount
    <2>3. CASE tree.parent[Head(done)] # Nil
      <3>1. /\ tree' = Freed(tree, Head(done)) /\ synth_count' = synth_count - SynthsFrom(Head(done))
        BY <1>3, <2>3 DEF FreeDone
      <3>2. Head(done) # Root
        BY <1>2, <2>3 DEF Sound, Hangs
      <3> QED BY <2>1, <2>3, <3>1, <3>2, FreeCount
    <2> QED BY <2>2, <2>3
  <1>4. ASSUME FreeAllDone PROVE Cardinality(SynthsIn(tree')) <= synth_count'
    <2>1. Head(freeAll) \in Nodes
      <3>1. freeAll \in Seq(Groups) /\ freeAll # <<>>
        BY <1>2, <1>4 DEF TreeInv, FreeAllDone
      <3>2. Head(freeAll) \in Groups
        BY <3>1
      <3> QED BY <3>2, NodeFacts
    <2> QED BY <1>4, <2>1, EmptyCount DEF FreeAllDone
  <1>5. ASSUME NEW s \in Synths, NEW a \in DoneActions, DoneAction(s, a)
        PROVE  Cardinality(SynthsIn(tree')) <= synth_count'
    <2>1. tree' = tree /\ synth_count' = synth_count
      BY <1>5 DEF DoneAction
    <2> QED BY SMTT(40), <2>1, QuietCount
  <1>6. ASSUME Run \/ StartTick \/ Undefined \/ UNCHANGED graphVars
        PROVE  Cardinality(SynthsIn(tree')) <= synth_count'
    <2>1. tree' = tree /\ synth_count' = synth_count
      BY <1>6 DEF Run, StartTick, Undefined, graphVars
    <2> QED BY <2>1, QuietCount
  <1>7. Cardinality(SynthsIn(tree')) <= synth_count'
    BY <1>3, <1>4, <1>5, <1>6, CommandsCount DEF GraphNext, DoneNone, CarryOutNone, Over
  <1> QED BY <1>1, <1>7 DEF CountInv

LEMMA CountInvInit ==
  ASSUME GraphInit
  PROVE  CountInv
  <1>1. SynthsIn(tree) = {}
    <2>1. tree.parent = [n \in Nodes |-> Nil]
      BY DEF GraphInit
    <2> QED BY <2>1, NodeFacts DEF SynthsIn
  <1>2. Cardinality({}) = 0 /\ synth_count = 0
    BY FS_EmptySet DEF GraphInit
  <1> QED BY <1>1, <1>2, TreeInvInit DEF CountInv

(* The items of a queue are named after synths of the tree.                *)
LEMMA ItemsInTree ==
  ASSUME NEW t, Sound(t)
  PROVE  IsFiniteSet(SynthsIn(t)) /\ Generate(t).items \subseteq SynthsIn(t)
  <1>1. PICK q : q = Generate(t)
    OBVIOUS
  <1>2. q.items = {i.id : i \in ItemSet(t)}
    <2>1. q = QueueOf(ItemSet(t), HasParallel(t, Root))
      BY <1>1 DEF Generate, ItemSet
    <2> QED BY <2>1 DEF QueueOf
  <1>3. q.items \subseteq SynthsIn(t)
    <2> SUFFICES ASSUME NEW i \in ItemSet(t) PROVE i.id \in SynthsIn(t)
      BY <1>2
    <2>1. PICK g \in Groups : i \in ItemsOf(t, g)
      BY DEF ItemSet, Reached
    <2>2. i.id \in Kin(t.parent, g) \cap Synths
      BY <2>1, ItemsFacts
    <2> QED BY <2>2, NodeFacts DEF Kin, SynthsIn
  <1>4. IsFiniteSet(SynthsIn(t))
    <2>1. SynthsIn(t) \in SUBSET Nodes
      BY NodeFacts DEF SynthsIn
    <2> QED BY <2>1, NodeFacts, FS_Subset
  <1> QED BY <1>1, <1>3, <1>4

(* Whatever tree the commands and the done actions have built, as long as  *)
(* /n_before and /n_after stay within a group and no group is moved into   *)
(* or below itself: unless it has a hollow tail, which tail_nodes gets     *)
(* wrong, the queue generated from it has every synth once and runs two    *)
(* synths one before the other exactly if the tree asks for it, with       *)
(* activation limits that count the predecessors.                          *)
THEOREM QueueRealisesTree ==
  ASSUME ~CrossMoves, ~CyclicMoves
  PROVE  GraphSpec => [](HollowTail(tree) \/ Realises(Generate(tree), tree))
  <1>1. TreeInv => HollowTail(tree) \/ Realises(Generate(tree), tree)
    BY GenerateRight DEF TreeInv
  <1> QED BY <1>1, TreeInvariance, PTL

(* Its items also fit the array that is allocated for synth_count_ of them *)
(* (dsp_thread_queue), if the counter of /g_deepFree, which starts         *)
(* uninitialised, does not start above zero.                               *)
THEOREM QueueStaysRight ==
  ASSUME ~CrossMoves, ~CyclicMoves, \A c \in Garbage : c <= 0
  PROVE  GraphSpec => []GeneratedQueueRight
  <1>1. CountInv => GeneratedQueueRight
    <2> SUFFICES ASSUME CountInv PROVE GeneratedQueueRight
      OBVIOUS
    <2>1. Sound(tree) /\ synth_count \in Int /\ Cardinality(SynthsIn(tree)) <= synth_count
      BY DEF CountInv, TreeInv
    <2>2. PICK q : q = Generate(tree)
      OBVIOUS
    <2>3. Cardinality(q.items) <= synth_count
      <3>1. IsFiniteSet(SynthsIn(tree)) /\ q.items \subseteq SynthsIn(tree)
        BY <2>1, <2>2, ItemsInTree
      <3>2. Cardinality(q.items) <= Cardinality(SynthsIn(tree)) /\ IsFiniteSet(q.items)
        BY <3>1, FS_Subset
      <3>3. Cardinality(q.items) \in Nat /\ Cardinality(SynthsIn(tree)) \in Nat
        BY <3>1, <3>2, FS_CardinalityType
      <3> QED BY <2>1, <3>2, <3>3
    <2>4. HollowTail(tree) \/ Realises(q, tree)
      BY <2>1, <2>2, GenerateRight
    <2> QED BY <2>2, <2>3, <2>4 DEF GeneratedQueueRight
  <1>2. CountInv /\ [GraphNext]_graphVars => CountInv'
    BY CountStep
  <1> QED BY <1>1, <1>2, CountInvInit, PTL DEF GraphSpec

=============================================================================
