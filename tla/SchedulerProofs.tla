-------------------------- MODULE SchedulerProofs ---------------------------
(***************************************************************************)
(* Proofs about Scheduler, for any packets and any room in the fifos and   *)
(* the heap: the heap is in order and holds what was added and not yet     *)
(* removed, so that the scheduler implements the queue of bundles, and the *)
(* memory of every packet has one owner.                                   *)
(***************************************************************************)
EXTENDS Scheduler, TLAPS, FiniteSetTheorems, SequenceTheorems,
        NaturalsInduction, WellFoundedInduction

(* Natural numbers have a least one.                                       *)
LEMMA LeastNat ==
  ASSUME NEW T, T \subseteq Nat, T # {}
  PROVE  \E m \in T : \A k \in T : m <= k
  <1>1. PICK m \in T : \A k \in T : ~(<<k, m>> \in OpToRel(<, Nat))
    BY NatLessThanWellFounded, WFMin
  <1>2. ASSUME NEW k \in T PROVE m <= k
    <2>1. m \in Nat /\ k \in Nat
      OBVIOUS
    <2>2. ~(k < m)
      BY <1>1, <2>1 DEF OpToRel
    <2> QED BY <2>1, <2>2
  <1> QED BY <1>2

-----------------------------------------------------------------------------
(* The path of a loop: rank says how far along it a position is.           *)
Path(next, start, rank, n) ==
    /\ n \in Nat /\ DOMAIN next = 1 .. n /\ start \in 1 .. n
    /\ \A i \in 1 .. n :
          /\ next[i] \in 1 .. n /\ rank[i] \in Int
          /\ next[i] # i => rank[i] < rank[next[i]]
    /\ \A i, j \in 1 .. n : rank[i] = rank[j] => i = j

(* The trail is the least set that holds the start and where the loop goes *)
(* from its members.                                                       *)
LEMMA TrailClosed ==
  ASSUME NEW next, NEW start, NEW rank, NEW n, Path(next, start, rank, n)
  PROVE  /\ Trail(next, start) \subseteq 1 .. n /\ start \in Trail(next, start)
         /\ \A j \in Trail(next, start) : next[j] \in Trail(next, start)
  BY DEF Path, Trail

LEMMA TrailLeast ==
  ASSUME NEW next, NEW start, NEW rank, NEW n, Path(next, start, rank, n),
         NEW S, S \subseteq 1 .. n, start \in S, \A j \in S : next[j] \in S
  PROVE  Trail(next, start) \subseteq S
  BY DEF Path, Trail

(* The loop comes to every position but the first from another one.        *)
LEMMA TrailBefore ==
  ASSUME NEW next, NEW start, NEW rank, NEW n, Path(next, start, rank, n),
         NEW i \in Trail(next, start), i # start
  PROVE  \E j \in Trail(next, start) : j # i /\ next[j] = i
  <1> DEFINE T == Trail(next, start)
  <1>1. T \subseteq 1 .. n /\ start \in T /\ \A j \in T : next[j] \in T
    BY TrailClosed
  <1> SUFFICES ASSUME \A j \in T : j # i => next[j] # i PROVE FALSE
    OBVIOUS
  <1> DEFINE S == T \ {i}
  <1>2. S \subseteq 1 .. n /\ start \in S /\ \A j \in S : next[j] \in S
    BY <1>1
  <1> HIDE DEF S
  <1>3. T \subseteq S
    BY <1>2, TrailLeast
  <1> QED BY <1>3 DEF S

(* The start comes first.                                                  *)
LEMMA StartFirst ==
  ASSUME NEW next, NEW start, NEW rank, NEW n, Path(next, start, rank, n),
         NEW i \in Trail(next, start)
  PROVE  rank[start] <= rank[i]
  <1>1. /\ start \in 1 .. n
        /\ \A k \in 1 .. n : next[k] \in 1 .. n /\ rank[k] \in Int
        /\ \A k \in 1 .. n : next[k] # k => rank[k] < rank[next[k]]
    BY DEF Path
  <1> DEFINE A == {k \in 1 .. n : rank[start] <= rank[k]}
  <1>2. ASSUME NEW k \in A PROVE next[k] \in A
    <2>1. CASE next[k] = k
      BY <2>1
    <2>2. CASE next[k] # k
      BY <1>1, <2>2
    <2> QED BY <2>1, <2>2
  <1>3. A \subseteq 1 .. n /\ start \in A
    BY <1>1
  <1> HIDE DEF A
  <1>4. Trail(next, start) \subseteq A
    BY <1>2, <1>3, TrailLeast
  <1> QED BY <1>4 DEF A

(* The positions on the trail are on one line.                             *)
LEMMA TrailChain ==
  ASSUME NEW next, NEW start, NEW rank, NEW n, Path(next, start, rank, n),
         NEW i \in Trail(next, start), NEW j \in Trail(next, start), rank[j] < rank[i]
  PROVE  next[j] # j /\ rank[next[j]] <= rank[i]
  <1> DEFINE T == Trail(next, start)
  <1>1. T \subseteq 1 .. n /\ start \in T /\ \A k \in T : next[k] \in T
    BY TrailClosed
  <1>2. /\ \A k \in T : rank[k] \in Int /\ rank[next[k]] \in Int /\ rank[k] <= rank[next[k]]
        /\ \A k, l \in T : rank[k] = rank[l] => k = l
        /\ start \in 1 .. n
    <2>1. /\ start \in 1 .. n
          /\ \A k \in 1 .. n : next[k] \in 1 .. n /\ rank[k] \in Int
          /\ \A k \in 1 .. n : next[k] # k => rank[k] < rank[next[k]]
          /\ \A k, l \in 1 .. n : rank[k] = rank[l] => k = l
      BY DEF Path
    <2>2. ASSUME NEW k \in T PROVE rank[k] <= rank[next[k]]
      <3>1. CASE next[k] = k
        BY <1>1, <2>1, <3>1
      <3>2. CASE next[k] # k
        BY <1>1, <2>1, <3>2
      <3> QED BY <3>1, <3>2
    <2> HIDE DEF T
    <2> QED BY <1>1, <2>1, <2>2
  <1>5. \A k \in T : rank[start] <= rank[k]
    BY StartFirst
  <1> DEFINE E == {k \in T : \A l \in T : rank[l] < rank[k] => rank[next[l]] <= rank[k]}
  <1>6. ASSUME NEW k \in E PROVE next[k] \in E
    <2> DEFINE S == {l \in T : rank[l] <= rank[k] \/ rank[next[k]] <= rank[l]}
    <2>1. k \in T /\ \A l \in T : rank[l] < rank[k] => rank[next[l]] <= rank[k]
      OBVIOUS
    <2>2. S \subseteq 1 .. n /\ start \in S
      BY <1>1, <1>5, <2>1
    <2>3. ASSUME NEW l \in S PROVE next[l] \in S
      <3>1. l \in T /\ next[l] \in T
        BY <1>1
      <3>2. CASE rank[next[k]] <= rank[l]
        BY <1>1, <1>2, <2>1, <3>1, <3>2
      <3>3. CASE rank[l] = rank[k]
        <4>1. l = k
          BY <1>2, <2>1, <3>1, <3>3
        <4> QED BY <1>1, <1>2, <2>1, <4>1
      <3>4. CASE rank[l] < rank[k]
        BY <2>1, <3>1, <3>4
      <3> QED BY <1>2, <2>1, <3>1, <3>2, <3>3, <3>4
    <2> HIDE DEF S
    <2>4. T \subseteq S
      BY <2>2, <2>3, TrailLeast
    <2>5. ASSUME NEW l \in T, rank[l] < rank[next[k]] PROVE rank[next[l]] <= rank[next[k]]
      <3>1. rank[l] <= rank[k]
        BY <1>1, <1>2, <2>1, <2>4, <2>5 DEF S
      <3>2. CASE l = k
        BY <1>1, <1>2, <2>1, <3>2
      <3>3. CASE rank[l] < rank[k]
        BY <1>1, <1>2, <2>1, <3>3
      <3> QED BY <1>2, <2>1, <3>1, <3>2, <3>3
    <2> QED BY <1>1, <2>1, <2>5
  <1>7. E \subseteq 1 .. n /\ start \in E
    BY <1>1, <1>2, <1>5
  <1> HIDE DEF E
  <1>8. T \subseteq E
    BY <1>6, <1>7, TrailLeast
  <1>9. \A k, l \in T : rank[l] < rank[k] => rank[next[l]] <= rank[k]
    BY <1>8 DEF E
  <1>10. ASSUME next[j] = j PROVE FALSE
    <2> DEFINE F == {k \in T : rank[k] <= rank[j]}
    <2>1. F \subseteq 1 .. n /\ start \in F
      BY <1>1, <1>5
    <2>2. ASSUME NEW k \in F PROVE next[k] \in F
      <3>1. CASE k = j
        BY <1>1, <1>10, <3>1
      <3>2. CASE rank[k] < rank[j]
        BY <1>1, <1>9, <3>2
      <3> QED BY <1>2, <3>1, <3>2
    <2> HIDE DEF F
    <2>3. T \subseteq F
      BY <2>1, <2>2, TrailLeast
    <2> QED BY <1>2, <2>3 DEF F
  <1> QED BY <1>9, <1>10

-----------------------------------------------------------------------------
(* r is s in another order.                                                *)
Rearranged(r, s, n) ==
    \E pi \in [1 .. n -> 1 .. n] :
        /\ \A i, j \in 1 .. n : pi[i] = pi[j] => i = j
        /\ \A k \in 1 .. n : \E i \in 1 .. n : pi[i] = k
        /\ \A i \in 1 .. n : r[i] = s[pi[i]]

LEMMA Onto ==
  ASSUME NEW n \in Nat, NEW pi \in [1 .. n -> 1 .. n],
         \A i, j \in 1 .. n : pi[i] = pi[j] => i = j
  PROVE  \A k \in 1 .. n : \E i \in 1 .. n : pi[i] = k
  <1> DEFINE S == 1 .. n
  <1>1. IsFiniteSet(S) /\ Cardinality(S) = Cardinality(S)
    BY FS_Interval
  <1>2. pi \in Injection(S, S)
    BY DEF Injection, IsInjective
  <1>3. pi \in Surjection(S, S)
    BY <1>1, <1>2, FS_Injection
  <1> QED BY <1>3 DEF Surjection

(* What a loop leaves is what was there, with e in the place of what was   *)
(* at the start.                                                           *)
LEMMA SiftRearranges ==
  ASSUME NEW next, NEW start, NEW rank, NEW n, Path(next, start, rank, n),
         NEW h, DOMAIN h = 1 .. n, NEW e,
         NEW s, s = [h EXCEPT ![start] = e]
  PROVE  Rearranged(Sift(h, next, start, e), s, n)
  <1> DEFINE T == Trail(next, start)
             pi == [i \in 1 .. n |-> IF i \notin T THEN i
                                     ELSE IF next[i] = i THEN start ELSE next[i]]
             r == Sift(h, next, start, e)
  <1>1. T \subseteq 1 .. n /\ start \in T /\ \A j \in T : next[j] \in T
    BY TrailClosed
  <1>2. /\ n \in Nat /\ start \in 1 .. n
        /\ \A i \in 1 .. n : next[i] \in 1 .. n /\ rank[i] \in Int
        /\ \A i \in 1 .. n : next[i] # i => rank[i] < rank[next[i]]
        /\ \A i, j \in 1 .. n : rank[i] = rank[j] => i = j
    BY DEF Path
  <1> HIDE DEF T
  <1>3. \A i \in T : next[i] # i => next[i] # start
    <2> SUFFICES ASSUME NEW i \in T, next[i] # i, next[i] = start PROVE FALSE
      OBVIOUS
    <2>1. rank[i] < rank[start] /\ i # start
      BY <1>1, <1>2
    <2>2. rank[start] <= rank[i]
      BY StartFirst DEF T
    <2> QED BY <1>1, <1>2, <2>1, <2>2
  <1>4. pi \in [1 .. n -> 1 .. n]
    BY <1>1, <1>2
  <1>5. ASSUME NEW i \in T, NEW j \in T, rank[i] < rank[j] PROVE pi[i] # pi[j]
    <2>1. next[i] # i /\ rank[next[i]] <= rank[j]
      BY <1>5, TrailChain DEF T
    <2>2. pi[i] = next[i] /\ pi[i] # start
      BY <1>1, <1>3, <2>1
    <2>3. CASE next[j] = j
      <3>1. pi[j] = start
        BY <1>1, <2>3
      <3> QED BY <2>2, <3>1
    <2>4. CASE next[j] # j
      <3>1. pi[j] = next[j] /\ rank[j] < rank[next[j]]
        BY <1>1, <1>2, <2>4
      <3> QED BY <1>1, <1>2, <2>1, <2>2, <3>1
    <2> QED BY <2>3, <2>4
  <1>6. ASSUME NEW i \in 1 .. n, NEW j \in 1 .. n, pi[i] = pi[j] PROVE i = j
    <2>1. CASE i \notin T /\ j \notin T
      BY <1>6, <2>1
    <2>2. \A k \in T : pi[k] \in T
      BY <1>1
    <2>3. \A k \in 1 .. n : k \notin T => pi[k] \notin T
      BY <1>1
    <2>4. CASE i \in T /\ j \in T
      <3>1. ~(rank[i] < rank[j]) /\ ~(rank[j] < rank[i])
        BY <1>5, <1>6, <2>4
      <3>2. rank[i] \in Int /\ rank[j] \in Int
        BY <1>2
      <3>3. rank[i] = rank[j]
        BY <3>1, <3>2
      <3> QED BY <1>2, <3>3
    <2> QED BY <1>6, <2>1, <2>2, <2>3, <2>4
  <1>7. \A k \in 1 .. n : \E i \in 1 .. n : pi[i] = k
    <2> HIDE DEF pi
    <2> QED BY ZenonT(60), <1>2, <1>4, <1>6, Onto
  <1>8. ASSUME NEW i \in 1 .. n PROVE r[i] = s[pi[i]]
    <2>1. r[i] = IF i \notin T THEN h[i] ELSE IF next[i] = i THEN e ELSE h[next[i]]
      BY DEF Sift, T
    <2>2. s[start] = e /\ \A k \in 1 .. n : k # start => s[k] = h[k]
      BY <1>2
    <2>3. CASE i \notin T
      BY <1>1, <2>1, <2>2, <2>3
    <2>4. CASE i \in T /\ next[i] = i
      BY <2>1, <2>2, <2>4
    <2>5. CASE i \in T /\ next[i] # i
      BY <1>2, <1>3, <2>1, <2>2, <2>5
    <2> QED BY <2>3, <2>4, <2>5
  <1> HIDE DEF pi
  <1> QED BY <1>4, <1>6, <1>7, <1>8 DEF Rearranged
-----------------------------------------------------------------------------
Events == [time : Nat, packet : Packets, free : {"FreeInRT", "FreeInNRT"}]

(* No event is later than its children, up to position n.                  *)
OrderedTo(h, n) == \A k \in 2 .. n : h[k \div 2].time <= h[k].time

LEMMA Halves ==
  ASSUME NEW k \in Nat, k >= 2
  PROVE  /\ k \div 2 \in Nat /\ 1 <= k \div 2 /\ k \div 2 < k
         /\ k = 2 * (k \div 2) \/ k = 2 * (k \div 2) + 1
  OBVIOUS

LEMMA EventFacts ==
  ASSUME NEW e \in Events
  PROVE  e.time \in Nat /\ e.packet \in Packets /\ e.free \in {"FreeInRT", "FreeInNRT"}
  BY DEF Events

LEMMA HeapFacts ==
  ASSUME NEW h \in Seq(Events)
  PROVE  /\ Len(h) \in Nat /\ DOMAIN h = 1 .. Len(h)
         /\ \A k \in 1 .. Len(h) : h[k] \in Events /\ h[k].time \in Nat /\ h[k].packet \in Packets
  <1>1. \A k \in 1 .. Len(h) : h[k] \in Events
    OBVIOUS
  <1>2. ASSUME NEW k \in 1 .. Len(h) PROVE h[k].time \in Nat /\ h[k].packet \in Packets
    BY <1>1, EventFacts
  <1> QED BY <1>1, <1>2

(* The way up, for an event that has been put at the end.                  *)
LEMMA UpFacts ==
  ASSUME NEW room \in Seq(Events), NEW n \in Nat, n = Len(room), n > 0, NEW e \in Events,
         NEW next, next = Up(room, e)
  PROVE  /\ Path(next, n, [i \in 1 .. n |-> n - i], n)
         /\ \A k \in 1 .. n : next[k] # k => k >= 2 /\ next[k] = k \div 2 /\ e.time < room[k \div 2].time
         /\ \A k \in 2 .. n : next[k] = k => room[k \div 2].time <= e.time
  <1>1. DOMAIN room = 1 .. n /\ \A k \in 1 .. n : room[k].time \in Nat
    BY HeapFacts
  <1>2. e.time \in Nat
    BY EventFacts
  <1>3. /\ DOMAIN next = 1 .. n
        /\ \A k \in 1 .. n : next[k] = IF k > 1 /\ e.time < room[k \div 2].time THEN k \div 2 ELSE k
    BY <1>1 DEF Up
  <1>4. ASSUME NEW k \in 1 .. n
        PROVE  /\ next[k] \in 1 .. n /\ next[k] <= k
               /\ next[k] # k => k >= 2 /\ next[k] = k \div 2 /\ e.time < room[k \div 2].time
               /\ k >= 2 /\ next[k] = k => room[k \div 2].time <= e.time
    <2>1. CASE k = 1
      BY <1>3, <2>1
    <2>2. CASE k >= 2
      <3>1. k \div 2 \in 1 .. n /\ k \div 2 < k
        BY <2>2, Halves
      <3>2. CASE e.time < room[k \div 2].time
        BY <1>3, <2>2, <3>1, <3>2
      <3>3. CASE ~(e.time < room[k \div 2].time)
        <4>1. next[k] = k /\ room[k \div 2].time <= e.time
          BY <1>1, <1>2, <1>3, <3>1, <3>3
        <4> QED BY <4>1, <2>2
      <3> QED BY <3>2, <3>3
    <2> QED BY <2>1, <2>2
  <1> DEFINE rank == [i \in 1 .. n |-> n - i]
  <1>5. \A i \in 1 .. n : rank[i] \in Int /\ rank[i] = n - i
    OBVIOUS
  <1> HIDE DEF rank
  <1>6. Path(next, n, rank, n)
    <2>1. ASSUME NEW i \in 1 .. n, next[i] # i PROVE rank[i] < rank[next[i]]
      <3>1. next[i] \in 1 .. n /\ next[i] <= i
        BY <1>4
      <3>2. rank[next[i]] = n - next[i]
        BY <1>5, <3>1
      <3> QED BY <1>5, <2>1, <3>1, <3>2
    <2>2. ASSUME NEW i \in 1 .. n, NEW j \in 1 .. n, rank[i] = rank[j] PROVE i = j
      BY <1>5, <2>2
    <2> QED BY <1>3, <1>4, <1>5, <2>1, <2>2 DEF Path
  <1> QED BY <1>4, <1>6 DEF rank

LEMMA UpOrdered ==
  ASSUME NEW room \in Seq(Events), NEW n \in Nat, n = Len(room), n > 0, NEW e \in Events,
         OrderedTo(room, n - 1)
  PROVE  OrderedTo(Sift(room, Up(room, e), n, e), n)
  <1> DEFINE next == Up(room, e)
             T == Trail(next, n)
             r == Sift(room, next, n, e)
             rank == [i \in 1 .. n |-> n - i]
  <1>1. /\ DOMAIN room = 1 .. n /\ \A k \in 1 .. n : room[k].time \in Nat
        /\ e.time \in Nat
    BY HeapFacts, EventFacts
  <1>2. /\ Path(next, n, rank, n)
        /\ \A k \in 1 .. n : next[k] # k => k >= 2 /\ next[k] = k \div 2 /\ e.time < room[k \div 2].time
        /\ \A k \in 2 .. n : next[k] = k => room[k \div 2].time <= e.time
    BY ZenonT(60), UpFacts
  <1>3. T \subseteq 1 .. n /\ n \in T /\ \A j \in T : next[j] \in T
    BY <1>2, TrailClosed
  <1>4. \A i \in T : i # n => \E j \in T : j # i /\ next[j] = i
    BY <1>2, TrailBefore
  <1>6. \A i \in 1 .. n : r[i] = IF i \notin T THEN room[i]
                                 ELSE IF next[i] = i THEN e ELSE room[next[i]]
    BY <1>1 DEF Sift
  <1> HIDE DEF next, T, r, rank
  <1>7. \A k \in 2 .. n - 1 : room[k \div 2].time <= room[k].time
    BY DEF OrderedTo
  (* what the parent holds afterwards is not later than what it held *)
  <1>8. ASSUME NEW m \in T, m < n
        PROVE  r[m].time \in Nat /\ r[m].time <= room[m].time
    <2>0. m \in 1 .. n
      BY <1>3
    <2>1. CASE next[m] = m
      <3>1. PICK j \in T : j # m /\ next[j] = m
        BY <1>4, <1>8
      <3>2. e.time < room[m].time
        BY <1>2, <1>3, <3>1
      <3>3. r[m] = e
        BY <1>6, <2>0, <2>1
      <3> QED BY <1>1, <2>0, <3>2, <3>3
    <2>2. CASE next[m] # m
      <3>1. m >= 2 /\ next[m] = m \div 2 /\ r[m] = room[m \div 2] /\ m \div 2 \in 1 .. n
        BY <1>2, <1>3, <1>6, <2>0, <2>2
      <3>2. m \in 2 .. n - 1
        BY <1>8, <2>0, <3>1
      <3>3. room[m \div 2].time <= room[m].time
        BY <1>7, <3>2
      <3> QED BY <1>1, <3>1, <3>3
    <2> QED BY <2>1, <2>2
  <1>9. ASSUME NEW k \in 2 .. n PROVE r[k \div 2].time <= r[k].time
    <2> DEFINE m == k \div 2
    <2>1. m \in 1 .. n /\ m < k /\ m < n /\ k \in 1 .. n /\ k >= 2
      BY Halves
    <2> HIDE DEF m
    <2>2. room[m].time \in Nat /\ room[k].time \in Nat /\ e.time \in Nat
      BY <1>1, <2>1
    <2>3. r[m].time \in Nat /\ r[m].time <= room[m].time
      <3>1. CASE m \in T
        BY <1>8, <2>1, <3>1
      <3>2. CASE m \notin T
        BY <1>6, <2>1, <2>2, <3>2
      <3> QED BY <3>1, <3>2
    <2>4. CASE k \notin T
      <3>1. k # n /\ r[k] = room[k]
        BY <1>3, <1>6, <2>1, <2>4
      <3>2. k \in 2 .. n - 1
        BY <3>1
      <3>3. room[m].time <= room[k].time
        BY <1>7, <3>2 DEF m
      <3> QED BY <2>2, <2>3, <3>1, <3>3 DEF m
    <2>5. CASE k \in T /\ next[k] # k
      <3>1. next[k] = m /\ m \in T /\ r[k] = room[m]
        BY <1>2, <1>3, <1>6, <2>1, <2>5 DEF m
      <3> QED BY <2>3, <3>1 DEF m
    <2>6. CASE k \in T /\ next[k] = k
      <3>1. r[k] = e /\ room[m].time <= e.time
        BY <1>2, <1>6, <2>1, <2>6 DEF m
      <3> QED BY SMTT(40), <2>2, <2>3, <3>1 DEF m
    <2> QED BY <2>4, <2>5, <2>6
  <1> QED BY <1>9 DEF OrderedTo, r, next

(* The way down from the top.                                              *)
LEMMA DownFacts ==
  ASSUME NEW rest \in Seq(Events), NEW n \in Nat, n = Len(rest), n > 0, NEW temp \in Events,
         NEW next, next = Down(rest, temp)
  PROVE  /\ Path(next, 1, [i \in 1 .. n |-> i], n)
         /\ \A m \in 1 .. n : next[m] # m =>
               /\ next[m] \in {2 * m, 2 * m + 1} /\ rest[next[m]].time <= temp.time
               /\ \A k \in 1 .. n : k \in {2 * m, 2 * m + 1} => rest[next[m]].time <= rest[k].time
         /\ \A m, k \in 1 .. n : next[m] = m /\ k \in {2 * m, 2 * m + 1} =>
               temp.time <= rest[k].time
  <1>1. /\ DOMAIN rest = 1 .. n /\ \A k \in 1 .. n : rest[k].time \in Nat
        /\ temp.time \in Nat
    BY HeapFacts, EventFacts
  <1>2. /\ DOMAIN next = 1 .. n
        /\ \A m \in 1 .. n : next[m] =
              IF 2 * m <= n /\ temp.time > rest[Earlier(rest, 2 * m)].time
              THEN Earlier(rest, 2 * m) ELSE m
    BY <1>1 DEF Down
  <1>3. ASSUME NEW m \in 1 .. n, NEW c, c = Earlier(rest, 2 * m), 2 * m <= n
        PROVE  /\ c \in {2 * m, 2 * m + 1} /\ c \in 1 .. n /\ c > m
               /\ \A k \in 1 .. n : k \in {2 * m, 2 * m + 1} => rest[c].time <= rest[k].time
    <2>1. CASE 2 * m + 1 <= n /\ rest[2 * m].time > rest[2 * m + 1].time
      <3>1. c = 2 * m + 1
        BY <1>3, <2>1 DEF Earlier
      <3>2. 2 * m \in 1 .. n /\ 2 * m + 1 \in 1 .. n
        BY <2>1
      <3> QED BY <1>1, <2>1, <3>1, <3>2, SMTT(40)
    <2>2. CASE ~(2 * m + 1 <= n /\ rest[2 * m].time > rest[2 * m + 1].time)
      <3>1. c = 2 * m
        BY <1>3, <2>2 DEF Earlier
      <3>2. 2 * m \in 1 .. n
        BY <1>3
      <3>3. ASSUME NEW k \in 1 .. n, k = 2 * m + 1 PROVE rest[c].time <= rest[k].time
        BY <1>1, <2>2, <3>1, <3>2, <3>3
      <3>4. rest[c].time <= rest[2 * m].time
        BY <1>1, <3>1, <3>2
      <3> QED BY <3>1, <3>2, <3>3, <3>4
    <2> QED BY <2>1, <2>2
  <1>4. ASSUME NEW m \in 1 .. n
        PROVE  /\ next[m] \in 1 .. n /\ m <= next[m]
               /\ next[m] # m =>
                     /\ next[m] \in {2 * m, 2 * m + 1} /\ rest[next[m]].time <= temp.time
                     /\ \A k \in 1 .. n : k \in {2 * m, 2 * m + 1} => rest[next[m]].time <= rest[k].time
               /\ \A k \in 1 .. n : next[m] = m /\ k \in {2 * m, 2 * m + 1} =>
                     temp.time <= rest[k].time
    <2> DEFINE c == Earlier(rest, 2 * m)
    <2>0. next[m] = IF 2 * m <= n /\ temp.time > rest[c].time THEN c ELSE m
      BY <1>2
    <2>1. CASE ~(2 * m <= n)
      <3>1. next[m] = m /\ \A k \in 1 .. n : ~(k \in {2 * m, 2 * m + 1})
        BY <2>0, <2>1
      <3> QED BY <3>1
    <2>2. CASE 2 * m <= n
      <3>1. /\ c \in {2 * m, 2 * m + 1} /\ c \in 1 .. n /\ c > m
            /\ \A k \in 1 .. n : k \in {2 * m, 2 * m + 1} => rest[c].time <= rest[k].time
        BY <1>3, <2>2
      <3> HIDE DEF c
      <3>2. CASE temp.time > rest[c].time
        <4>1. next[m] = c /\ rest[c].time <= temp.time
          BY <1>1, <2>0, <2>2, <3>1, <3>2
        <4> QED BY <3>1, <4>1
      <3>3. CASE ~(temp.time > rest[c].time)
        <4>1. next[m] = m /\ temp.time <= rest[c].time
          BY <1>1, <2>0, <2>2, <3>1, <3>3
        <4> QED BY <1>1, <3>1, <4>1
      <3> QED BY <3>2, <3>3
    <2> QED BY <2>1, <2>2
  <1> DEFINE rank == [i \in 1 .. n |-> i]
  <1>5. \A i \in 1 .. n : rank[i] \in Int /\ rank[i] = i
    OBVIOUS
  <1> HIDE DEF rank
  <1>6. Path(next, 1, rank, n)
    <2>1. ASSUME NEW i \in 1 .. n, next[i] # i PROVE rank[i] < rank[next[i]]
      <3>1. next[i] \in 1 .. n /\ i <= next[i]
        BY <1>4
      <3>2. rank[next[i]] = next[i]
        BY <1>5, <3>1
      <3> QED BY <1>5, <2>1, <3>1, <3>2
    <2>2. ASSUME NEW i \in 1 .. n, NEW j \in 1 .. n, rank[i] = rank[j] PROVE i = j
      BY <1>5, <2>2
    <2>3. 1 \in 1 .. n
      OBVIOUS
    <2> QED BY <1>2, <1>4, <1>5, <2>1, <2>2, <2>3 DEF Path
  <1> QED BY <1>4, <1>6 DEF rank

LEMMA DownOrdered ==
  ASSUME NEW rest \in Seq(Events), NEW n \in Nat, n = Len(rest), n > 0, NEW temp \in Events,
         OrderedTo(rest, n)
  PROVE  OrderedTo(Sift(rest, Down(rest, temp), 1, temp), n)
  <1> DEFINE next == Down(rest, temp)
             T == Trail(next, 1)
             r == Sift(rest, next, 1, temp)
             rank == [i \in 1 .. n |-> i]
  <1>1. /\ DOMAIN rest = 1 .. n /\ \A k \in 1 .. n : rest[k].time \in Nat
        /\ temp.time \in Nat
    BY HeapFacts, EventFacts
  <1>2. /\ Path(next, 1, rank, n)
        /\ \A m \in 1 .. n : next[m] # m =>
              /\ next[m] \in {2 * m, 2 * m + 1} /\ rest[next[m]].time <= temp.time
              /\ \A k \in 1 .. n : k \in {2 * m, 2 * m + 1} => rest[next[m]].time <= rest[k].time
        /\ \A m, k \in 1 .. n : next[m] = m /\ k \in {2 * m, 2 * m + 1} =>
              temp.time <= rest[k].time
    BY SMTT(40), DownFacts
  <1>3. T \subseteq 1 .. n /\ 1 \in T /\ \A j \in T : next[j] \in T
    BY <1>2, TrailClosed
  <1>4. \A i \in T : i # 1 => \E j \in T : j # i /\ next[j] = i
    BY <1>2, TrailBefore
  <1>6. \A i \in 1 .. n : r[i] = IF i \notin T THEN rest[i]
                                 ELSE IF next[i] = i THEN temp ELSE rest[next[i]]
    BY <1>1 DEF Sift
  <1> HIDE DEF next, T, r, rank
  <1>7. \A k \in 2 .. n : rest[k \div 2].time <= rest[k].time
    BY DEF OrderedTo
  (* what a position below the top holds is not earlier than what it held *)
  <1>8. ASSUME NEW k \in 1 .. n, k > 1
        PROVE  r[k].time \in Nat /\ rest[k].time <= r[k].time
    <2>1. CASE k \notin T
      BY <1>1, <1>6, <2>1
    <2>2. CASE k \in T /\ next[k] = k
      <3>1. PICK j \in T : j # k /\ next[j] = k
        BY <1>4, <1>8, <2>2
      <3>2. rest[k].time <= temp.time
        BY <1>2, <1>3, <3>1
      <3> QED BY <1>1, <1>6, <2>2, <3>2
    <2>3. CASE k \in T /\ next[k] # k
      <3>1. next[k] \in {2 * k, 2 * k + 1} /\ next[k] \in 1 .. n /\ r[k] = rest[next[k]]
        BY <1>2, <1>3, <1>6, <2>3
      <3>2. next[k] \in 2 .. n /\ next[k] \div 2 = k
        BY SMTT(40), <3>1
      <3>3. rest[k].time <= rest[next[k]].time
        BY <1>7, <3>2
      <3> QED BY <1>1, <3>1, <3>3
    <2> QED BY <2>1, <2>2, <2>3
  <1>9. ASSUME NEW k \in 2 .. n PROVE r[k \div 2].time <= r[k].time
    <2> DEFINE m == k \div 2
    <2>1. /\ m \in 1 .. n /\ m < k /\ k \in 1 .. n /\ k > 1
          /\ k \in {2 * m, 2 * m + 1}
      BY Halves
    <2> HIDE DEF m
    <2>2. /\ rest[m].time \in Nat /\ rest[k].time \in Nat
          /\ r[k].time \in Nat /\ rest[k].time <= r[k].time
      BY <1>1, <1>8, <2>1
    <2>3. ASSUME k \in T PROVE m \in T /\ next[m] = k
      <3>1. PICK j \in T : j # k /\ next[j] = k
        BY <1>4, <2>1, <2>3
      <3>2. j \in 1 .. n /\ k \in {2 * j, 2 * j + 1}
        BY <1>2, <1>3, <3>1
      <3>3. j = m
        BY <2>1, <3>2
      <3> QED BY <3>1, <3>3
    <2>4. CASE m \notin T
      <3>1. r[m] = rest[m] /\ rest[m].time <= rest[k].time
        BY <1>6, <1>7, <2>1, <2>4 DEF m
      <3> QED BY <2>2, <3>1 DEF m
    <2>5. CASE m \in T /\ next[m] = m
      <3>1. r[m] = temp /\ temp.time <= rest[k].time
        BY <1>2, <1>6, <2>1, <2>5
      <3> QED BY <1>1, <2>2, <3>1 DEF m
    <2>6. CASE m \in T /\ next[m] # m
      <3>1. r[m] = rest[next[m]] /\ rest[next[m]].time <= rest[k].time /\ next[m] \in 1 .. n
        BY <1>2, <1>3, <1>6, <2>1, <2>6
      <3> QED BY SMTT(40), <1>1, <2>2, <3>1 DEF m
    <2> QED BY <2>4, <2>5, <2>6
  <1> QED BY <1>9 DEF OrderedTo, r, next

-----------------------------------------------------------------------------
(* What is in the heap; that every packet is in it once.                   *)
Entries(h) == {h[i] : i \in 1 .. Len(h)}
OneOfEach(h) == \A i, j \in 1 .. Len(h) : h[i].packet = h[j].packet => i = j
HeapInOrder(h) == h \in Seq(Events) /\ OrderedTo(h, Len(h)) /\ OneOfEach(h)

LEMMA SameEntries ==
  ASSUME NEW s \in Seq(Events), NEW n, n = Len(s),
         NEW r, r = [i \in 1 .. n |-> r[i]], Rearranged(r, s, n)
  PROVE  /\ r \in Seq(Events) /\ Len(r) = n /\ Entries(r) = Entries(s)
         /\ OneOfEach(s) => OneOfEach(r)
  <1>1. n \in Nat /\ \A i \in 1 .. n : s[i] \in Events
    BY HeapFacts
  <1>2. PICK pi \in [1 .. n -> 1 .. n] :
           /\ \A i, j \in 1 .. n : pi[i] = pi[j] => i = j
           /\ \A k \in 1 .. n : \E i \in 1 .. n : pi[i] = k
           /\ \A i \in 1 .. n : r[i] = s[pi[i]]
    BY DEF Rearranged
  <1>3. \A i \in 1 .. n : pi[i] \in 1 .. n /\ r[i] \in Events
    BY <1>1, <1>2
  <1>4. r \in [1 .. n -> Events]
    BY <1>3
  <1>5. r \in Seq(Events) /\ Len(r) = n
    BY <1>1, <1>4
  <1>6. Entries(r) = Entries(s)
    <2>1. \A x \in Entries(r) : x \in Entries(s)
      BY <1>2, <1>3, <1>5 DEF Entries
    <2>2. ASSUME NEW k \in 1 .. n PROVE s[k] \in Entries(r)
      <3>1. PICK i \in 1 .. n : pi[i] = k
        BY <1>2
      <3> QED BY <1>2, <1>5, <3>1 DEF Entries
    <2>3. \A x \in Entries(s) : x \in Entries(r)
      BY <2>2 DEF Entries
    <2> QED BY <2>1, <2>3
  <1>7. ASSUME OneOfEach(s), NEW i \in 1 .. n, NEW j \in 1 .. n, r[i].packet = r[j].packet
        PROVE  i = j
    <2>1. s[pi[i]].packet = s[pi[j]].packet /\ pi[i] \in 1 .. n /\ pi[j] \in 1 .. n
      BY <1>2, <1>3, <1>7
    <2>2. pi[i] = pi[j]
      BY <1>7, <2>1 DEF OneOfEach
    <2> QED BY <1>2, <2>2
  <1> QED BY <1>5, <1>6, <1>7 DEF OneOfEach

LEMMA AddFacts ==
  ASSUME NEW h, HeapInOrder(h), NEW e \in Events,
         \A i \in 1 .. Len(h) : h[i].packet # e.packet
  PROVE  /\ HeapInOrder(HeapAdd(h, e)) /\ Len(HeapAdd(h, e)) = Len(h) + 1
         /\ Entries(HeapAdd(h, e)) = Entries(h) \cup {e}
  <1> DEFINE room == Append(h, e)
             n == Len(room)
             r == Sift(room, Up(room, e), n, e)
  <1>1. h \in Seq(Events) /\ Len(h) \in Nat /\ OrderedTo(h, Len(h)) /\ OneOfEach(h)
    BY HeapFacts DEF HeapInOrder
  <1>2. /\ room \in Seq(Events) /\ n \in Nat /\ n = Len(h) + 1 /\ n - 1 = Len(h) /\ n > 0
        /\ \A i \in 1 .. Len(h) : room[i] = h[i]
        /\ room[n] = e /\ DOMAIN room = 1 .. n
    BY <1>1
  <1>3. HeapAdd(h, e) = r
    BY DEF HeapAdd
  <1>4. r = [i \in 1 .. n |-> r[i]]
    BY <1>2 DEF Sift
  <1> HIDE DEF room, n, r
  <1>5. OrderedTo(room, n - 1)
    <2>1. ASSUME NEW k \in 2 .. n - 1 PROVE room[k \div 2].time <= room[k].time
      <3>1. k \in 2 .. Len(h) /\ k \in 1 .. Len(h) /\ k \div 2 \in 1 .. Len(h)
        BY <1>1, <1>2, Halves
      <3>2. h[k \div 2].time <= h[k].time
        BY <1>1, <3>1 DEF OrderedTo
      <3> QED BY <1>2, <3>1, <3>2
    <2> QED BY <2>1 DEF OrderedTo
  <1>6. OrderedTo(r, n)
    BY <1>2, <1>5, UpOrdered DEF n, r
  <1>7. Rearranged(r, room, n)
    <2>1. Path(Up(room, e), n, [i \in 1 .. n |-> n - i], n)
      BY <1>2, UpFacts DEF n
    <2>2. room = [room EXCEPT ![n] = e]
      BY <1>2
    <2>3. Rearranged(Sift(room, Up(room, e), n, e), room, n)
      BY <1>2, <2>1, <2>2, SiftRearranges
    <2> QED BY <2>3 DEF r
  <1>8. /\ r \in Seq(Events) /\ Len(r) = n /\ Entries(r) = Entries(room)
        /\ OneOfEach(room) => OneOfEach(r)
    BY <1>2, <1>4, <1>7, SameEntries DEF n
  <1>9. OneOfEach(room)
    <2>1. ASSUME NEW i \in 1 .. n, NEW j \in 1 .. n, room[i].packet = room[j].packet PROVE i = j
      <3>1. CASE i <= Len(h) /\ j <= Len(h)
        <4>1. i \in 1 .. Len(h) /\ j \in 1 .. Len(h) /\ h[i].packet = h[j].packet
          BY <1>1, <1>2, <2>1, <3>1
        <4> QED BY <1>1, <4>1 DEF OneOfEach
      <3>2. CASE i = n /\ j <= Len(h)
        <4>1. j \in 1 .. Len(h) /\ h[j].packet = e.packet
          BY <1>1, <1>2, <2>1, <3>2
        <4> QED BY <4>1
      <3>3. CASE j = n /\ i <= Len(h)
        <4>1. i \in 1 .. Len(h) /\ h[i].packet = e.packet
          BY <1>1, <1>2, <2>1, <3>3
        <4> QED BY <4>1
      <3>4. CASE i = n /\ j = n
        BY <3>4
      <3> QED BY <1>1, <1>2, <3>1, <3>2, <3>3, <3>4
    <2> QED BY <2>1 DEF OneOfEach, n
  <1>10. Entries(room) = Entries(h) \cup {e}
    <2>1. \A i \in 1 .. n : i \in 1 .. Len(h) \/ i = n
      BY <1>1, <1>2
    <2>2. \A i \in 1 .. Len(h) : i \in 1 .. n
      BY <1>1, <1>2
    <2>3. n \in 1 .. n /\ n = Len(room)
      BY <1>2 DEF n
    <2> QED BY <1>2, <2>1, <2>2, <2>3 DEF Entries
  <1> QED BY <1>2, <1>3, <1>6, <1>8, <1>9, <1>10 DEF HeapInOrder

LEMMA RemoveFacts ==
  ASSUME NEW h, HeapInOrder(h), h # <<>>
  PROVE  /\ HeapInOrder(HeapRemove(h)) /\ Len(HeapRemove(h)) = Len(h) - 1
         /\ Entries(HeapRemove(h)) = Entries(h) \ {h[1]}
  <1> DEFINE rest == Front(h)
             n == Len(rest)
             temp == Last(h)
             s == [rest EXCEPT ![1] = temp]
             r == Sift(rest, Down(rest, temp), 1, temp)
  <1>1. /\ h \in Seq(Events) /\ Len(h) \in Nat /\ Len(h) >= 1
        /\ OrderedTo(h, Len(h)) /\ OneOfEach(h)
    BY HeapFacts, EmptySeq DEF HeapInOrder
  <1>2. /\ rest \in Seq(Events) /\ n \in Nat /\ n = Len(h) - 1 /\ DOMAIN rest = 1 .. n
        /\ \A i \in 1 .. n : rest[i] = h[i]
        /\ temp \in Events /\ temp = h[n + 1] /\ n + 1 = Len(h)
    <2> DEFINE m == Len(h) - 1
    <2>1. m \in Nat /\ m + 1 = Len(h) /\ rest = SubSeq(h, 1, m) /\ temp = h[Len(h)]
      BY <1>1 DEF Front, Last
    <2> HIDE DEF rest, temp, m
    <2>2. rest \in Seq(Events) /\ Len(rest) = m /\ \A i \in 1 .. m : rest[i] = h[i]
      BY <1>1, <2>1
    <2>3. temp \in Events
      BY <1>1, <2>1
    <2> QED BY <2>1, <2>2, <2>3 DEF m
  <1>3. HeapRemove(h) = IF rest = <<>> THEN <<>> ELSE r
    BY DEF HeapRemove
  <1>4. r = [i \in 1 .. n |-> r[i]]
    BY <1>2 DEF Sift
  <1> HIDE DEF rest, n, temp, r
  <1>5. CASE rest = <<>>
    <2>1. n = 0 /\ HeapRemove(h) = <<>> /\ Len(h) = 1
      BY <1>2, <1>3, <1>5 DEF n
    <2>2. HeapInOrder(<<>>)
      BY DEF HeapInOrder, OrderedTo, OneOfEach
    <2>3. Entries(<<>>) = {} /\ Entries(h) = {h[1]}
      BY <2>1 DEF Entries
    <2> QED BY <2>1, <2>2, <2>3
  <1>6. CASE rest # <<>>
    <2>1. n > 0 /\ HeapRemove(h) = r
      BY <1>2, <1>3, <1>6, EmptySeq DEF n
    <2>2. OrderedTo(rest, n)
      <3>1. ASSUME NEW k \in 2 .. n PROVE rest[k \div 2].time <= rest[k].time
        <4>1. k \in 2 .. Len(h) /\ k \in 1 .. n /\ k \div 2 \in 1 .. n
          BY <1>1, <1>2, Halves
        <4>2. h[k \div 2].time <= h[k].time
          BY <1>1, <4>1 DEF OrderedTo
        <4> QED BY <1>2, <4>1, <4>2
      <3> QED BY <3>1 DEF OrderedTo
    <2>3. OrderedTo(r, n)
      BY <1>2, <2>1, <2>2, DownOrdered DEF n, r
    <2>4. Rearranged(r, s, n)
      <3>1. Path(Down(rest, temp), 1, [i \in 1 .. n |-> i], n)
        BY <1>2, <2>1, DownFacts DEF n
      <3> HIDE DEF s
      <3>2. Rearranged(Sift(rest, Down(rest, temp), 1, temp), s, n)
        BY <1>2, <3>1, SiftRearranges DEF s
      <3> QED BY <3>2 DEF r
    <2>5. /\ s \in Seq(Events) /\ Len(s) = n /\ s[1] = temp
          /\ \A i \in 2 .. n : s[i] = h[i]
      BY <1>2, <2>1 DEF n
    <2> HIDE DEF s
    <2>6. /\ r \in Seq(Events) /\ Len(r) = n /\ Entries(r) = Entries(s)
          /\ OneOfEach(s) => OneOfEach(r)
      BY <1>4, <2>4, <2>5, SameEntries
    (* where what s holds was in h *)
    <2>7. /\ \A i \in 1 .. n : s[i] = h[IF i = 1 THEN n + 1 ELSE i]
          /\ \A i \in 1 .. n : (IF i = 1 THEN n + 1 ELSE i) \in 1 .. Len(h)
      BY <1>2, <2>5
    <2>8. OneOfEach(s)
      <3>1. ASSUME NEW i \in 1 .. n, NEW j \in 1 .. n, s[i].packet = s[j].packet PROVE i = j
        <4>1. (IF i = 1 THEN n + 1 ELSE i) = (IF j = 1 THEN n + 1 ELSE j)
          BY <1>1, <2>7, <3>1 DEF OneOfEach
        <4> QED BY <1>2, <4>1
      <3> QED BY <2>5, <3>1 DEF OneOfEach
    <2>9. Entries(s) = Entries(h) \ {h[1]}
      <3>1. \A i, j \in 1 .. Len(h) : h[i] = h[j] => i = j
        BY <1>1 DEF OneOfEach
      <3>2. ASSUME NEW i \in 1 .. n PROVE s[i] \in Entries(h) /\ s[i] # h[1]
        <4> DEFINE k == IF i = 1 THEN n + 1 ELSE i
        <4>1. k \in 1 .. Len(h) /\ k # 1 /\ s[i] = h[k] /\ 1 \in 1 .. Len(h)
          BY <1>2, <2>1, <2>7
        <4> HIDE DEF k
        <4> QED BY <3>1, <4>1 DEF Entries
      <3>3. ASSUME NEW k \in 1 .. Len(h), h[k] # h[1] PROVE h[k] \in Entries(s)
        <4>1. CASE k = n + 1
          BY <1>2, <2>1, <2>5, <4>1 DEF Entries
        <4>2. CASE k # n + 1
          <5>1. k \in 2 .. n /\ k \in 1 .. Len(s)
            BY <1>2, <2>5, <3>3, <4>2
          <5> QED BY <2>5, <5>1 DEF Entries
        <4> QED BY <4>1, <4>2
      <3>4. \A x \in Entries(s) : x \in Entries(h) /\ x # h[1]
        BY <2>5, <3>2 DEF Entries
      <3>5. \A x \in Entries(h) : x # h[1] => x \in Entries(s)
        BY <3>3 DEF Entries
      <3> QED BY <3>4, <3>5
    <2> QED BY <1>2, <2>1, <2>3, <2>6, <2>8, <2>9 DEF HeapInOrder
  <1> QED BY <1>5, <1>6

(* The first event is the earliest.                                        *)
LEMMA HeadIsEarliest ==
  ASSUME NEW h, HeapInOrder(h), NEW i \in 1 .. Len(h)
  PROVE  h[1].time <= h[i].time
  <1>1. /\ Len(h) \in Nat /\ \A k \in 1 .. Len(h) : h[k].time \in Nat
        /\ \A k \in 2 .. Len(h) : h[k \div 2].time <= h[k].time
    BY HeapFacts DEF HeapInOrder, OrderedTo
  <1>2. 1 \in 1 .. Len(h)
    BY <1>1
  <1> DEFINE B == {k \in 1 .. Len(h) : h[k].time < h[1].time}
  <1>3. ASSUME B # {} PROVE FALSE
    <2>1. B \subseteq Nat
      BY <1>1
    <2>2. PICK m \in B : \A k \in B : m <= k
      BY <1>3, <2>1, LeastNat
    <2>3. m \in 2 .. Len(h)
      BY <1>1, <1>2
    <2>4. m \div 2 \in 1 .. Len(h) /\ m \div 2 < m
      BY <1>1, <2>3, Halves
    <2>5. h[m \div 2].time <= h[m].time /\ h[m].time < h[1].time
      BY <1>1, <2>3
    <2>6. m \div 2 \in B
      BY SMTT(40), <1>1, <1>2, <2>3, <2>4, <2>5
    <2> QED BY <2>2, <2>3, <2>4, <2>6
  <1> QED BY <1>1, <1>2, <1>3

-----------------------------------------------------------------------------
(* A fifo: the slots that have been performed come first, and a slot that  *)
(* has not been owns its packet, as no other slot does.                    *)
Slots == [packet : Packets, owns : BOOLEAN, done : BOOLEAN]
Fifo(f, room) ==
    /\ f \in Seq(Slots) /\ Len(f) <= room
    /\ \A i, j \in 1 .. Len(f) : i < j /\ f[j].done => f[i].done
    /\ \A i \in 1 .. Len(f) : ~f[i].done => f[i].owns
    /\ \A i, j \in 1 .. Len(f) :
          f[i].owns /\ f[j].owns /\ f[i].packet = f[j].packet => i = j
Owners(f) == {f[i].packet : i \in {j \in 1 .. Len(f) : f[j].owns}}

Types ==
    /\ stamp \in [Packets -> 1 .. MaxTime]
    /\ fate \in [Packets -> {"unsent", "sent", "performed", "refused", "dropped"}]
    /\ phase \in {"out", "toEngine", "packets", "due"}
    /\ oscTime \in Nat /\ left \in 0 .. NumBufs

Queues ==
    /\ Fifo(inbox, InboxSize) /\ Fifo(outbox, OutboxSize)
    /\ HeapInOrder(heap) /\ Len(heap) <= Limit

(* Who owns a packet: a slot of the one or of the other fifo, the heap, the *)
(* thread that has freed it, or nobody.                                    *)
Freed == {p \in Packets : freedBy[p] # <<>>}
Sent == {p \in Packets : fate[p] # "unsent"}
Partition(I, H, O, F, L, S) ==
    /\ I \cup H \cup O \cup F \cup L = S
    /\ I \cap (H \cup O \cup F \cup L) = {} /\ H \cap (O \cup F \cup L) = {}
    /\ O \cap (F \cup L) = {} /\ F \cap L = {}
Ownership ==
    /\ leaked \subseteq Packets
    /\ Partition(Owners(inbox), Contents(heap), Owners(outbox), Freed, leaked, Sent)

(* Packets of the network travel through the fifos, and it shows in the    *)
(* heap which are not of the network.                                      *)
Allocators ==
    /\ \A i \in 1 .. Len(inbox) : inbox[i].packet \in NetPackets
    /\ \A i \in 1 .. Len(outbox) : outbox[i].packet \in NetPackets
    /\ \A x \in Entries(heap) : x.free = "FreeInRT" <=> x.packet \in Completions
    /\ \A i \in 1 .. Len(outbox) : outbox[i].done => ~outbox[i].owns

(* What waits has not been performed.                                      *)
Waiting ==
    /\ \A i \in 1 .. Len(inbox) : ~inbox[i].done => fate[inbox[i].packet] = "sent"
    /\ \A x \in Entries(heap) : fate[x.packet] = "sent" /\ x.time \in 1 .. MaxTime

Threads == {"network", "audio", "driver"}
FreedAtMostOnce ==
    /\ freedBy \in [Packets -> Seq(Threads)]
    /\ \A p \in Packets :
          /\ Len(freedBy[p]) <= 1
          /\ \A i \in 1 .. Len(freedBy[p]) : freedBy[p][i] = "audio" <=> p \in Completions

(* A callback ends NumBufs blocks after it began.                          *)
Clock ==
    phase # "out" => left >= 1 /\ oscTime + left * oscInc <= MaxTime + NumBufs * oscInc

IInv ==
    /\ Types /\ Queues /\ Ownership /\ Allocators /\ Waiting /\ FreedAtMostOnce /\ Clock

-----------------------------------------------------------------------------
LEMMA SlotFacts ==
  ASSUME NEW f \in Seq(Slots)
  PROVE  /\ Len(f) \in Nat /\ DOMAIN f = 1 .. Len(f)
         /\ \A i \in 1 .. Len(f) :
               /\ f[i] \in Slots /\ f[i].packet \in Packets
               /\ f[i].owns \in BOOLEAN /\ f[i].done \in BOOLEAN
  <1>1. \A s \in Slots : s.packet \in Packets /\ s.owns \in BOOLEAN /\ s.done \in BOOLEAN
    BY DEF Slots
  <1>2. /\ Len(f) \in Nat /\ DOMAIN f = 1 .. Len(f)
        /\ \A i \in 1 .. Len(f) : f[i] \in Slots
    OBVIOUS
  <1> QED BY ONLY <1>1, <1>2

LEMMA NewSlot ==
  ASSUME NEW p \in Packets
  PROVE  /\ Slot(p) \in Slots /\ Slot(p).packet = p
         /\ Slot(p).owns /\ ~Slot(p).done
  BY DEF Slot, Slots

(* Undone is the first slot that has not been performed.                   *)
LEMMA UndoneFacts ==
  ASSUME NEW f, f \in Seq(Slots), NEW u, u = Undone(f)
  PROVE  /\ u = 0 => \A i \in 1 .. Len(f) : f[i].done
         /\ u # 0 => u \in 1 .. Len(f) /\ ~f[u].done /\ \A i \in 1 .. Len(f) : i < u => f[i].done
  <1> DEFINE B == {i \in 1 .. Len(f) : ~f[i].done}
  <1>1. u = IF B # {} THEN Min(B) ELSE 0
    BY DEF Undone, SelectInSeq
  <1>2. CASE B = {}
    BY <1>1, <1>2
  <1>3. CASE B # {}
    <2>1. B \subseteq Nat
      OBVIOUS
    <2>2. PICK m \in B : \A k \in B : m <= k
      BY <1>3, <2>1, LeastNat
    <2>3. u \in B /\ \A k \in B : u <= k
      BY <1>1, <1>3, <2>2 DEF Min
    <2>4. ASSUME NEW i \in 1 .. Len(f), i < u PROVE f[i].done
      <3>1. i \notin B
        BY <2>1, <2>3, <2>4
      <3> QED BY <3>1
    <2> QED BY <2>1, <2>3, <2>4
  <1> QED BY <1>2, <1>3

(* What has been performed is gone, what has not is kept.                  *)
LEMMA ReclaimedFacts ==
  ASSUME NEW f, NEW room \in Nat, Fifo(f, room), NEW g, g = Reclaimed(f)
  PROVE  /\ Fifo(g, room) /\ \A i \in 1 .. Len(g) : ~g[i].done
         /\ \A i \in 1 .. Len(g) : \E j \in 1 .. Len(f) : g[i] = f[j]
         /\ \A j \in 1 .. Len(f) : ~f[j].done => \E i \in 1 .. Len(g) : g[i] = f[j]
  <1> DEFINE u == Undone(f)
  <1>1. /\ f \in Seq(Slots) /\ Len(f) \in Nat /\ Len(f) <= room
        /\ \A i, j \in 1 .. Len(f) : i < j /\ f[j].done => f[i].done
        /\ \A i \in 1 .. Len(f) : ~f[i].done => f[i].owns
        /\ \A i, j \in 1 .. Len(f) :
              f[i].owns /\ f[j].owns /\ f[i].packet = f[j].packet => i = j
    BY SlotFacts DEF Fifo
  <1>2. /\ u = 0 => \A i \in 1 .. Len(f) : f[i].done
        /\ u # 0 => u \in 1 .. Len(f) /\ ~f[u].done /\ \A i \in 1 .. Len(f) : i < u => f[i].done
    BY <1>1, UndoneFacts
  <1>3. g = IF u = 0 THEN <<>> ELSE SubSeq(f, u, Len(f))
    BY DEF Reclaimed
  <1> HIDE DEF u
  <1>4. CASE u = 0
    <2>1. g = <<>>
      BY <1>3, <1>4
    <2>2. Fifo(<<>>, room)
      BY DEF Fifo
    <2> QED BY <1>2, <1>4, <2>1, <2>2
  <1>5. CASE u # 0
    <2> DEFINE n == Len(f) - u + 1
    <2>1. /\ u \in 1 .. Len(f) /\ ~f[u].done /\ \A i \in 1 .. Len(f) : i < u => f[i].done
          /\ n \in Nat /\ n <= room
      BY <1>1, <1>2, <1>5
    <2>2. g = SubSeq(f, u, Len(f))
      BY <1>3, <1>5
    <2>3. /\ g \in Seq(Slots) /\ Len(g) = n
          /\ \A i \in 1 .. n : g[i] = f[u + i - 1]
      BY <1>1, <2>1, <2>2
    <2>4. \A i \in 1 .. n : u + i - 1 \in 1 .. Len(f) /\ u + i - 1 >= u
      BY <1>1, <2>1
    <2>5. \A j \in 1 .. Len(f) : j >= u => ~f[j].done
      BY <1>1, <2>1
    <2>6. \A i \in 1 .. n : ~g[i].done /\ g[i].owns
      BY <1>1, <2>3, <2>4, <2>5
    <2>7. \A i, j \in 1 .. n : g[i].packet = g[j].packet => i = j
      <3> SUFFICES ASSUME NEW i \in 1 .. n, NEW j \in 1 .. n, g[i].packet = g[j].packet
                   PROVE  i = j
        OBVIOUS
      <3>1. u + i - 1 = u + j - 1
        BY ZenonT(60), <1>1, <2>3, <2>4, <2>5
      <3> QED BY <2>1, <3>1
    <2>8. \A j \in 1 .. Len(f) : ~f[j].done => j - u + 1 \in 1 .. n /\ g[j - u + 1] = f[j]
      <3> SUFFICES ASSUME NEW j \in 1 .. Len(f), ~f[j].done
                   PROVE  j - u + 1 \in 1 .. n /\ g[j - u + 1] = f[j]
        OBVIOUS
      <3>1. j >= u
        BY <2>1
      <3>2. j - u + 1 \in 1 .. n /\ u + (j - u + 1) - 1 = j
        BY <1>1, <2>1, <3>1
      <3> QED BY <2>3, <3>2
    <2> HIDE DEF n
    <2>9. Fifo(g, room)
      BY <2>1, <2>3, <2>6, <2>7 DEF Fifo
    <2> QED BY <2>3, <2>4, <2>6, <2>8, <2>9
  <1> QED BY <1>4, <1>5

(* The owners that remain are those that have not been performed.          *)
LEMMA ReclaimedOwners ==
  ASSUME NEW f, NEW room \in Nat, Fifo(f, room), NEW spent,
         spent = {f[i].packet : i \in {j \in Performed(f) : f[j].owns}}
  PROVE  /\ Owners(Reclaimed(f)) = Owners(f) \ spent
         /\ spent \subseteq Owners(f)
  <1> DEFINE g == Reclaimed(f)
  <1>1. /\ f \in Seq(Slots) /\ DOMAIN f = 1 .. Len(f)
        /\ \A i \in 1 .. Len(f) : ~f[i].done => f[i].owns
        /\ \A i, j \in 1 .. Len(f) :
              f[i].owns /\ f[j].owns /\ f[i].packet = f[j].packet => i = j
    BY SlotFacts DEF Fifo
  <1>2. /\ \A i \in 1 .. Len(g) : ~g[i].done
        /\ \A i \in 1 .. Len(g) : \E j \in 1 .. Len(f) : g[i] = f[j]
        /\ \A j \in 1 .. Len(f) : ~f[j].done => \E i \in 1 .. Len(g) : g[i] = f[j]
    BY ReclaimedFacts
  <1> HIDE DEF g
  <1>3. ASSUME NEW p \in Owners(g) PROVE p \in Owners(f) /\ p \notin spent
    <2>1. PICK i \in 1 .. Len(g) : g[i].owns /\ g[i].packet = p
      BY DEF Owners
    <2>2. PICK j \in 1 .. Len(f) : g[i] = f[j]
      BY <1>2
    <2>3. ~f[j].done /\ f[j].owns /\ f[j].packet = p
      BY <1>2, <2>1, <2>2
    <2>4. ASSUME p \in spent PROVE FALSE
      <3>1. PICK k \in 1 .. Len(f) : f[k].done /\ f[k].owns /\ f[k].packet = p
        BY <1>1, <2>4 DEF Performed
      <3> QED BY <1>1, <2>3, <3>1
    <2> QED BY <2>3, <2>4 DEF Owners
  <1>4. ASSUME NEW p \in Owners(f), p \notin spent PROVE p \in Owners(g)
    <2>1. PICK j \in 1 .. Len(f) : f[j].owns /\ f[j].packet = p
      BY DEF Owners
    <2>2. ~f[j].done
      BY <1>1, <1>4, <2>1 DEF Performed
    <2>3. PICK i \in 1 .. Len(g) : g[i] = f[j]
      BY <1>2, <2>2
    <2> QED BY <2>1, <2>3 DEF Owners
  <1>5. spent \subseteq Owners(f)
    BY <1>1 DEF Performed, Owners
  <1> QED BY <1>3, <1>4, <1>5 DEF g

(* A slot is added at the end.                                             *)
Longer(f, p, g) ==
    \A i \in 1 .. Len(g) : (i \in 1 .. Len(f) /\ g[i] = f[i]) \/ g[i] = Slot(p)

LEMMA AppendSlot ==
  ASSUME NEW f, NEW room \in Nat, Fifo(f, room), Len(f) < room,
         NEW p \in Packets, p \notin Owners(f), NEW g, g = Append(f, Slot(p))
  PROVE  Fifo(g, room) /\ Owners(g) = Owners(f) \cup {p} /\ Longer(f, p, g)
  <1> DEFINE s == Slot(p)
             n == Len(f) + 1
  <1>1. /\ f \in Seq(Slots) /\ Len(f) \in Nat
        /\ \A i, j \in 1 .. Len(f) : i < j /\ f[j].done => f[i].done
        /\ \A i \in 1 .. Len(f) : ~f[i].done => f[i].owns
        /\ \A i, j \in 1 .. Len(f) :
              f[i].owns /\ f[j].owns /\ f[i].packet = f[j].packet => i = j
    BY SlotFacts DEF Fifo
  <1>2. s \in Slots /\ s.packet = p /\ s.owns /\ ~s.done
    BY NewSlot
  <1> HIDE DEF s
  <1>3. /\ g \in Seq(Slots) /\ Len(g) = n /\ g[n] = s
        /\ \A i \in 1 .. Len(f) : g[i] = f[i]
    BY <1>1, <1>2 DEF s
  <1>4. /\ n \in 1 .. n /\ n \in Nat /\ n <= room
        /\ \A i \in 1 .. n : i \in 1 .. Len(f) \/ i = n
        /\ \A i \in 1 .. Len(f) : i \in 1 .. n /\ i < n
    BY <1>1
  <1> HIDE DEF n
  <1>5. \A i \in 1 .. Len(f) : f[i].owns => f[i].packet # p
    BY DEF Owners
  <1>6. \A i, j \in 1 .. n : i < j /\ g[j].done => g[i].done
    BY <1>1, <1>2, <1>3, <1>4
  <1>7. \A i \in 1 .. n : ~g[i].done => g[i].owns
    BY <1>1, <1>2, <1>3, <1>4
  <1>8. \A i, j \in 1 .. n :
           g[i].owns /\ g[j].owns /\ g[i].packet = g[j].packet => i = j
    BY <1>1, <1>2, <1>3, <1>4, <1>5
  <1>9. Owners(g) = Owners(f) \cup {p}
    <2>1. \A q \in Owners(g) : q \in Owners(f) \cup {p}
      BY <1>2, <1>3, <1>4 DEF Owners
    <2>2. \A q \in Owners(f) : q \in Owners(g)
      BY <1>3, <1>4 DEF Owners
    <2>3. p \in Owners(g)
      BY <1>2, <1>3, <1>4 DEF Owners
    <2> QED BY <2>1, <2>2, <2>3
  <1> QED BY <1>3, <1>4, <1>6, <1>7, <1>8, <1>9 DEF Fifo, Longer, s

(* The first slot that was not performed is; it may give its packet up.    *)
Passed(f, u, o, g) ==
    /\ Len(g) = Len(f) /\ u \in 1 .. Len(f) /\ ~f[u].done /\ f[u].owns
    /\ g[u].packet = f[u].packet /\ g[u].done /\ g[u].owns = o
    /\ \A i \in 1 .. Len(f) : i # u => g[i] = f[i]
    /\ Owners(g) = IF o THEN Owners(f) ELSE Owners(f) \ {f[u].packet}

LEMMA PerformSlot ==
  ASSUME NEW f, NEW room \in Nat, Fifo(f, room), NEW u, u = Undone(f), u # 0,
         NEW o \in BOOLEAN,
         NEW g, g = [f EXCEPT ![u].done = TRUE, ![u].owns = o]
  PROVE  Fifo(g, room) /\ Passed(f, u, o, g)
  <1> DEFINE n == Len(f)
             s == [f[u] EXCEPT !.done = TRUE, !.owns = o]
  <1>1. /\ f \in Seq(Slots) /\ n \in Nat /\ DOMAIN f = 1 .. n /\ n <= room
        /\ \A i, j \in 1 .. n : i < j /\ f[j].done => f[i].done
        /\ \A i \in 1 .. n : ~f[i].done => f[i].owns
        /\ \A i, j \in 1 .. n :
              f[i].owns /\ f[j].owns /\ f[i].packet = f[j].packet => i = j
    BY SlotFacts DEF Fifo
  <1>2. u \in 1 .. n /\ ~f[u].done /\ \A i \in 1 .. n : i < u => f[i].done
    BY <1>1, UndoneFacts
  <1>3. f[u].owns /\ f[u] \in Slots
    BY <1>1, <1>2
  <1>4. s \in Slots /\ s.packet = f[u].packet /\ s.done /\ s.owns = o
    BY <1>3 DEF Slots
  <1>5. g = [f EXCEPT ![u] = s]
    BY <1>1, <1>2, <1>3 DEF Slots
  <1> HIDE DEF s
  <1>6. /\ g \in Seq(Slots) /\ Len(g) = n /\ g[u] = s
        /\ \A i \in 1 .. n : i # u => g[i] = f[i]
    <2> HIDE DEF n
    <2>1. u \in 1 .. Len(f) /\ n = Len(f)
      BY <1>2 DEF n
    <2>2. /\ [f EXCEPT ![u] = s] \in Seq(Slots) /\ Len([f EXCEPT ![u] = s]) = Len(f)
          /\ \A i \in 1 .. Len(f) : [f EXCEPT ![u] = s][i] = IF i = u THEN s ELSE f[i]
      BY <1>1, <1>4, <2>1, ExceptSeq
    <2> QED BY <1>5, <2>1, <2>2
  <1> HIDE DEF n
  <1>7. \A i, j \in 1 .. n : i < j /\ g[j].done => g[i].done
    <2> SUFFICES ASSUME NEW i \in 1 .. n, NEW j \in 1 .. n, i < j, g[j].done PROVE g[i].done
      OBVIOUS
    <2>1. CASE i = u
      BY <1>4, <1>6, <2>1
    <2>2. CASE i # u /\ j = u
      BY <1>2, <1>6, <2>2
    <2>3. CASE i # u /\ j # u
      BY <1>1, <1>6, <2>3
    <2> QED BY <2>1, <2>2, <2>3
  <1>8. \A i \in 1 .. n : ~g[i].done => g[i].owns
    BY <1>1, <1>4, <1>6
  <1>9. \A i, j \in 1 .. n :
           g[i].owns /\ g[j].owns /\ g[i].packet = g[j].packet => i = j
    <2>1. \A i \in 1 .. n : g[i].packet = f[i].packet /\ (g[i].owns => f[i].owns)
      BY <1>3, <1>4, <1>6
    <2> QED BY <1>1, <2>1
  <1>10. Owners(g) = IF o THEN Owners(f) ELSE Owners(f) \ {f[u].packet}
    <2>1. CASE o
      <3>1. \A i \in 1 .. n : g[i].packet = f[i].packet /\ (g[i].owns <=> f[i].owns)
        BY <1>3, <1>4, <1>6, <2>1
      <3> QED BY <1>6, <2>1, <3>1 DEF Owners, n
    <2>2. CASE ~o
      <3>1. \A q \in Owners(g) : q \in Owners(f) /\ q # f[u].packet
        <4> SUFFICES ASSUME NEW q \in Owners(g) PROVE q \in Owners(f) /\ q # f[u].packet
          OBVIOUS
        <4>1. PICK i \in 1 .. n : g[i].owns /\ g[i].packet = q
          BY <1>6 DEF Owners
        <4>2. i # u
          BY <1>4, <1>6, <2>2, <4>1
        <4>3. f[i].owns /\ f[i].packet = q
          BY <1>6, <4>1, <4>2
        <4> QED BY <1>1, <1>2, <1>3, <4>2, <4>3 DEF Owners, n
      <3>2. \A q \in Owners(f) : q # f[u].packet => q \in Owners(g)
        BY <1>6 DEF Owners, n
      <3> QED BY <2>2, <3>1, <3>2
    <2> QED BY <2>1, <2>2
  <1>11. Fifo(g, room)
    BY <1>1, <1>6, <1>7, <1>8, <1>9 DEF Fifo
  <1>12. n = Len(f)
    BY DEF n
  <1> QED BY <1>2, <1>3, <1>4, <1>6, <1>10, <1>11, <1>12 DEF Passed

-----------------------------------------------------------------------------
LEMMA Constants ==
  /\ InboxSize \in Nat /\ OutboxSize \in Nat /\ Limit \in Nat
  /\ oscInc \in Nat /\ oscInc > 0 /\ NumBufs \in Nat /\ NumBufs >= 1
  /\ MaxTime \in Nat /\ MaxTime >= 1
  /\ NetPackets \subseteq Packets /\ Completions \subseteq Packets
  /\ \A p \in NetPackets : p \notin Completions
  BY RoomAssumption, BlocksAssumption, MaxTimeAssumption, PacketsAssumption DEF Packets

LEMMA TypesSuffice == Types /\ Queues => TypeOK
  BY DEF Types, Queues, TypeOK, Fifo

(* The packets in the heap are those of its entries.                       *)
LEMMA ContentsFacts ==
  ASSUME NEW h, HeapInOrder(h)
  PROVE  /\ Contents(h) = {x.packet : x \in Entries(h)} /\ Contents(h) \subseteq Packets
         /\ Entries(h) \subseteq Events /\ DOMAIN h = 1 .. Len(h) /\ Len(h) \in Nat
         /\ \A i \in 1 .. Len(h) : h[i] \in Entries(h) /\ h[i].packet \in Contents(h)
         /\ \A x, y \in Entries(h) : x.packet = y.packet => x = y
  <1>1. /\ h \in Seq(Events) /\ DOMAIN h = 1 .. Len(h) /\ Len(h) \in Nat
        /\ \A k \in 1 .. Len(h) : h[k] \in Events /\ h[k].packet \in Packets
    BY HeapFacts DEF HeapInOrder
  <1>2. Contents(h) = {x.packet : x \in Entries(h)} /\ Contents(h) \subseteq Packets
    BY <1>1 DEF Contents, Entries
  <1>3. \A x, y \in Entries(h) : x.packet = y.packet => x = y
    BY DEF Entries, HeapInOrder, OneOfEach
  <1>4. \A i \in 1 .. Len(h) : h[i] \in Entries(h) /\ h[i].packet \in Contents(h)
    BY <1>1 DEF Entries, Contents
  <1>5. Entries(h) \subseteq Events
    BY <1>1 DEF Entries
  <1> QED BY <1>1, <1>2, <1>3, <1>4, <1>5

LEMMA NoEntries == Entries(<<>>) = {} /\ Contents(<<>>) = {} /\ HeapInOrder(<<>>) /\ Len(<<>>) = 0
  BY DEF Entries, Contents, HeapInOrder, OrderedTo, OneOfEach

LEMMA InitInv == Init => IInv
  <1> SUFFICES ASSUME Init PROVE IInv
    OBVIOUS
  <1>1. Types
    BY Constants DEF Init, Types
  <1>2. Queues
    BY Constants, NoEntries DEF Init, Queues, Fifo
  <1>3. Ownership
    <2>1. Owners(<<>>) = {}
      BY DEF Owners
    <2>2. Freed = {} /\ Sent = {} /\ leaked = {}
      BY DEF Init, Freed, Sent
    <2> QED BY <2>1, <2>2, NoEntries DEF Init, Ownership, Partition
  <1>4. Allocators /\ Waiting
    BY NoEntries DEF Init, Allocators, Waiting
  <1>5. FreedAtMostOnce
    BY DEF Init, FreedAtMostOnce
  <1>6. Clock
    BY DEF Init, Clock
  <1> QED BY <1>1, <1>2, <1>3, <1>4, <1>5, <1>6 DEF IInv

(* A thread frees packets that nobody has freed.                           *)
LEMMA FreedFacts ==
  ASSUME FreedAtMostOnce, NEW S, S \subseteq Packets, S \cap Freed = {},
         NEW thread \in Threads, \A p \in S : thread = "audio" <=> p \in Completions,
         freedBy' = FreedIn(thread, S)
  PROVE  FreedAtMostOnce' /\ Freed' = Freed \cup S
  <1>1. /\ \A p \in Packets : freedBy[p] \in Seq(Threads)
        /\ \A p \in S : freedBy[p] = <<>> /\ p \in Packets
    BY DEF FreedAtMostOnce, Freed
  <1>2. \A p \in Packets : freedBy'[p] = IF p \in S THEN Append(freedBy[p], thread) ELSE freedBy[p]
    BY DEF FreedIn
  <1>3. \A p \in S : freedBy'[p] = <<thread>>
    <2>1. Append(<<>>, thread) = <<thread>>
      OBVIOUS
    <2>2. \A p \in S : freedBy'[p] = Append(<<>>, thread)
      BY <1>1, <1>2
    <2> QED BY ONLY <2>1, <2>2
  <1>4. /\ <<thread>> \in Seq(Threads) /\ Len(<<thread>>) = 1 /\ <<thread>>[1] = thread
        /\ <<thread>> # <<>>
    OBVIOUS
  <1>5. freedBy' \in [Packets -> Seq(Threads)]
    <2>1. \A p \in Packets : freedBy'[p] \in Seq(Threads)
      BY <1>1, <1>2, <1>3, <1>4
    <2> QED BY <2>1 DEF FreedIn
  <1>6. ASSUME NEW p \in Packets
        PROVE  /\ Len(freedBy'[p]) <= 1
               /\ \A i \in 1 .. Len(freedBy'[p]) : freedBy'[p][i] = "audio" <=> p \in Completions
    <2>1. CASE p \in S
      <3>1. freedBy'[p] = <<thread>> /\ (thread = "audio" <=> p \in Completions)
        BY <1>3, <2>1
      <3>2. \A i \in 1 .. Len(<<thread>>) : <<thread>>[i] = thread
        BY <1>4
      <3> QED BY <1>4, <3>1, <3>2
    <2>2. CASE p \notin S
      BY <1>2, <2>2 DEF FreedAtMostOnce
    <2> QED BY <2>1, <2>2
  <1>7. Freed' = Freed \cup S
    <2>1. \A p \in Packets : freedBy'[p] # <<>> <=> freedBy[p] # <<>> \/ p \in S
      BY <1>2, <1>3, <1>4
    <2> QED BY <2>1 DEF Freed
  <1> QED BY <1>5, <1>6, <1>7 DEF FreedAtMostOnce

(* The messages of a packet leave the heap alone, or empty it.             *)
LEMMA EffectFacts ==
  ASSUME IInv, NEW p \in Packets, NEW h, HeapInOrder(h), Entries(h) \subseteq Entries(heap),
         p \notin Contents(h), Len(h) <= Limit, Effect(p, h)
  PROVE  /\ HeapInOrder(heap') /\ Len(heap') <= Limit /\ heap' \in {h, <<>>}
         /\ Contents(heap') = Contents(h) \ ClearedBy(p, h)
         /\ ClearedBy(p, h) \subseteq Contents(h)
         /\ \A x \in Entries(heap') : x \in Entries(heap) /\ fate'[x.packet] = fate[x.packet]
         /\ fate' \in [Packets -> {"unsent", "sent", "performed", "refused", "dropped"}]
         /\ Sent' = Sent \cup {p} /\ fate'[p] = "performed"
         /\ \A q \in Packets : q # p /\ q \notin Contents(h) => fate'[q] = fate[q]
         /\ \A q \in Packets : q # p /\ q \in Contents(h) =>
               fate[q] = "sent" /\ fate'[q] \in {"sent", "dropped"}
  <1>1. /\ Contents(h) = {x.packet : x \in Entries(h)} /\ Contents(h) \subseteq Packets
        /\ \A q \in Contents(h) : fate[q] = "sent"
    BY ContentsFacts DEF IInv, Waiting
  <1>2. /\ fate \in [Packets -> {"unsent", "sent", "performed", "refused", "dropped"}]
        /\ heap' = IF p \in Clearing THEN <<>> ELSE h
        /\ fate' = [q \in Packets |-> IF q = p THEN "performed"
                                      ELSE IF p \in Clearing /\ q \in Contents(h) THEN "dropped"
                                      ELSE fate[q]]
    BY DEF IInv, Types, Effect
  <1>3. fate' \in [Packets -> {"unsent", "sent", "performed", "refused", "dropped"}]
    BY <1>2
  <1>4. /\ \A q \in Packets : q # p /\ q \notin Contents(h) => fate'[q] = fate[q]
        /\ \A q \in Packets : q # p /\ q \in Contents(h) =>
               fate[q] = "sent" /\ fate'[q] \in {"sent", "dropped"}
        /\ fate'[p] = "performed"
    BY <1>1, <1>2
  <1>5. Sent' = Sent \cup {p}
    <2>1. \A q \in Packets : fate'[q] # "unsent" <=> fate[q] # "unsent" \/ q = p
      BY <1>1, <1>4
    <2> QED BY <2>1 DEF Sent
  <1>6. CASE p \in Clearing
    BY <1>2, <1>3, <1>4, <1>5, <1>6, NoEntries, Constants DEF ClearedBy
  <1>7. CASE p \notin Clearing
    <2>1. heap' = h /\ ClearedBy(p, h) = {}
      BY <1>2, <1>7 DEF ClearedBy
    <2>2. \A x \in Entries(h) : x \in Entries(heap) /\ x.packet \in Packets /\ x.packet # p
      BY <1>1
    <2>3. \A x \in Entries(h) : fate'[x.packet] = fate[x.packet]
      BY <1>2, <1>7, <2>2
    <2> QED BY <1>3, <1>4, <1>5, <2>1, <2>2, <2>3
  <1> QED BY <1>6, <1>7

(* An event is added to the heap, or its packet is forgotten.              *)
LEMMA AddEventFacts ==
  ASSUME IInv, NEW p \in Packets, p \notin Contents(heap), NEW t \in 1 .. MaxTime,
         NEW func \in {"FreeInRT", "FreeInNRT"}, func = "FreeInRT" <=> p \in Completions,
         AddEvent(p, t, func)
  PROVE  /\ HeapInOrder(heap') /\ Len(heap') <= Limit
         /\ \A q \in Packets : q # p => fate'[q] = fate[q]
         /\ Sent' = Sent \cup {p}
         /\ fate' \in [Packets -> {"unsent", "sent", "performed", "refused", "dropped"}]
         /\ \/ /\ heap' = heap /\ leaked' = leaked \cup {p} /\ fate'[p] = "dropped"
            \/ /\ Len(heap) < Limit /\ leaked' = leaked /\ fate'[p] = "sent"
               /\ Contents(heap') = Contents(heap) \cup {p}
               /\ Entries(heap') = Entries(heap) \cup {[time |-> t, packet |-> p, free |-> func]}
  <1> DEFINE e == [time |-> t, packet |-> p, free |-> func]
  <1>1. e \in Events /\ e.packet = p
    BY Constants DEF Events
  <1>2. /\ HeapInOrder(heap) /\ Len(heap) <= Limit /\ Limit \in Nat /\ Len(heap) \in Nat
        /\ fate \in [Packets -> {"unsent", "sent", "performed", "refused", "dropped"}]
    BY Constants, ContentsFacts DEF IInv, Types, Queues
  <1>3. /\ \A q \in Packets : q # p => fate'[q] = fate[q]
        /\ fate' \in [Packets -> {"unsent", "sent", "performed", "refused", "dropped"}]
        /\ fate'[p] = IF Len(heap) >= Limit THEN "dropped" ELSE "sent"
    BY <1>2 DEF AddEvent
  <1>4. Sent' = Sent \cup {p}
    <2>1. \A q \in Packets : fate'[q] # "unsent" <=> fate[q] # "unsent" \/ q = p
      BY <1>3
    <2> QED BY <2>1 DEF Sent
  <1>5. CASE Len(heap) >= Limit
    BY <1>2, <1>3, <1>4, <1>5 DEF AddEvent
  <1>6. CASE ~(Len(heap) >= Limit)
    <2>1. Len(heap) < Limit /\ heap' = HeapAdd(heap, e) /\ leaked' = leaked /\ fate'[p] = "sent"
      BY <1>2, <1>3, <1>6 DEF AddEvent
    <2> HIDE DEF e
    <2>2. \A i \in 1 .. Len(heap) : heap[i].packet # e.packet
      BY <1>1, <1>2, ContentsFacts
    <2>3. /\ HeapInOrder(heap') /\ Len(heap') = Len(heap) + 1
          /\ Entries(heap') = Entries(heap) \cup {e}
      BY <1>1, <1>2, <2>1, <2>2, AddFacts
    <2>4. Contents(heap') = Contents(heap) \cup {p}
      <3>1. Contents(heap') = {x.packet : x \in Entries(heap')}
        BY <2>3, ContentsFacts
      <3>2. Contents(heap) = {x.packet : x \in Entries(heap)}
        BY <1>2, ContentsFacts
      <3> QED BY <1>1, <2>3, <3>1, <3>2
    <2>5. Len(heap') <= Limit
      BY <1>2, <2>1, <2>3
    <2> QED BY <1>3, <1>4, <2>1, <2>3, <2>4, <2>5 DEF e
  <1> QED BY <1>5, <1>6

-----------------------------------------------------------------------------
(* The parts of the invariant that tell of the packets, from what an       *)
(* action makes of them.                                                   *)
LEMMA OwnershipNext ==
  ASSUME leaked' \subseteq Packets,
         Partition(Owners(inbox'), Contents(heap'), Owners(outbox'), Freed', leaked', Sent')
  PROVE  Ownership'
  BY DEF Ownership

LEMMA QueuesNext ==
  ASSUME Fifo(inbox', InboxSize), Fifo(outbox', OutboxSize), HeapInOrder(heap'), Len(heap') <= Limit
  PROVE  Queues'
  BY DEF Queues

(* Facts about a state that every action uses.                             *)
LEMMA StateFacts ==
  ASSUME IInv
  PROVE  /\ Fifo(inbox, InboxSize) /\ inbox \in Seq(Slots)
         /\ Fifo(outbox, OutboxSize) /\ outbox \in Seq(Slots)
         /\ HeapInOrder(heap) /\ Len(heap) <= Limit /\ Contents(heap) \subseteq Packets
         /\ leaked \subseteq Packets
         /\ Partition(Owners(inbox), Contents(heap), Owners(outbox), Freed, leaked, Sent)
         /\ FreedAtMostOnce
         /\ \A i \in 1 .. Len(inbox) : inbox[i].packet \in NetPackets
         /\ \A i \in 1 .. Len(outbox) : outbox[i].packet \in NetPackets
         /\ \A i \in 1 .. Len(outbox) : outbox[i].done => ~outbox[i].owns
         /\ \A x \in Entries(heap) : x.free = "FreeInRT" <=> x.packet \in Completions
         /\ \A x \in Entries(heap) : fate[x.packet] = "sent" /\ x.time \in 1 .. MaxTime
         /\ \A i \in 1 .. Len(inbox) : ~inbox[i].done => fate[inbox[i].packet] = "sent"
  BY ContentsFacts DEF IInv, Queues, Fifo, Ownership, Allocators, Waiting

LEMMA Unsent ==
  ASSUME IInv, NEW p \in Packets, fate[p] = "unsent"
  PROVE  /\ p \notin Sent /\ p \notin Owners(inbox) /\ p \notin Contents(heap)
         /\ p \notin Owners(outbox) /\ p \notin Freed /\ p \notin leaked
  <1>1. p \notin Sent
    BY DEF Sent
  <1> QED BY <1>1, StateFacts DEF Partition

LEMMA SendInv ==
  ASSUME IInv, NEW p \in NetPackets, NEW t \in 1 .. MaxTime, NEW caller, Send(p, t, caller)
  PROVE  IInv'
  <1> DEFINE spent == {inbox[i].packet : i \in {j \in Performed(inbox) : inbox[j].owns}}
             rest == Reclaimed(inbox)
             full == Len(rest) >= InboxSize
             given == IF full THEN {} ELSE {p}
             freed == IF full /\ caller = "port" THEN {p} ELSE {}
             lost == IF full /\ caller # "port" THEN {p} ELSE {}
  <1>0. /\ Fifo(inbox, InboxSize) /\ InboxSize \in Nat /\ p \in Packets
        /\ Contents(heap) \subseteq Packets /\ p \notin Completions
        /\ \A q \in NetPackets : q \in Packets /\ q \notin Completions
    BY StateFacts, Constants
  <1>1. /\ fate[p] = "unsent" /\ stamp' = [stamp EXCEPT ![p] = t]
        /\ fate' = [fate EXCEPT ![p] = IF full THEN "refused" ELSE "sent"]
        /\ inbox' = IF full THEN rest ELSE Append(rest, Slot(p))
        /\ freedBy' = FreedIn("network", spent \cup freed)
        /\ leaked' = leaked \cup lost
        /\ UNCHANGED <<heap, outbox, phase, clock>>
    BY DEF Send, Arrives
  <1>2. /\ p \notin Sent /\ p \notin Owners(inbox) /\ p \notin Contents(heap)
        /\ p \notin Owners(outbox) /\ p \notin Freed /\ p \notin leaked
    BY <1>0, <1>1, Unsent
  <1>3. /\ Fifo(rest, InboxSize) /\ rest \in Seq(Slots) /\ Len(rest) \in Nat
        /\ \A i \in 1 .. Len(rest) : ~rest[i].done
        /\ \A i \in 1 .. Len(rest) : \E j \in 1 .. Len(inbox) : rest[i] = inbox[j]
    <2>1. /\ Fifo(rest, InboxSize) /\ \A i \in 1 .. Len(rest) : ~rest[i].done
          /\ \A i \in 1 .. Len(rest) : \E j \in 1 .. Len(inbox) : rest[i] = inbox[j]
      BY <1>0, ReclaimedFacts
    <2>2. rest \in Seq(Slots)
      BY <2>1 DEF Fifo
    <2> HIDE DEF rest
    <2> QED BY <2>1, <2>2, SlotFacts
  <1>4. Owners(rest) = Owners(inbox) \ spent /\ spent \subseteq Owners(inbox)
    BY <1>0, ReclaimedOwners
  <1>5. spent \subseteq NetPackets
    <2>1. \A i \in Performed(inbox) : i \in 1 .. Len(inbox)
      BY <1>0, SlotFacts, StateFacts DEF Performed
    <2> QED BY <2>1, StateFacts
  <1> HIDE DEF spent, rest
  <1>6. /\ Fifo(inbox', InboxSize) /\ Owners(inbox') = (Owners(inbox) \ spent) \cup given
        /\ \A i \in 1 .. Len(inbox') :
              \/ \E j \in 1 .. Len(inbox) : inbox'[i] = inbox[j] /\ ~inbox[j].done
              \/ ~full /\ inbox'[i] = Slot(p)
    <2>1. CASE full
      BY <1>1, <1>3, <1>4, <2>1
    <2>2. CASE ~full
      <3>1. Len(rest) < InboxSize /\ p \notin Owners(rest) /\ inbox' = Append(rest, Slot(p))
        BY <1>0, <1>1, <1>2, <1>3, <1>4, <2>2
      <3>2. /\ Fifo(inbox', InboxSize) /\ Owners(inbox') = Owners(rest) \cup {p}
            /\ Longer(rest, p, inbox')
        BY ONLY <1>0, <1>3, <3>1, AppendSlot
      <3>3. \A i \in 1 .. Len(inbox') :
               (i \in 1 .. Len(rest) /\ inbox'[i] = rest[i]) \/ inbox'[i] = Slot(p)
        BY <3>2 DEF Longer
      <3> QED BY <1>3, <1>4, <2>2, <3>2, <3>3
    <2> QED BY <2>1, <2>2
  <1>7. Types'
    <2>1. stamp' \in [Packets -> 1 .. MaxTime]
      BY <1>0, <1>1 DEF IInv, Types
    <2>2. fate' \in [Packets -> {"unsent", "sent", "performed", "refused", "dropped"}]
      BY <1>0, <1>1 DEF IInv, Types
    <2> QED BY <1>1, <2>1, <2>2 DEF IInv, Types, clock
  <1>8. /\ \A q \in Packets : q # p => fate'[q] = fate[q]
        /\ fate'[p] = IF full THEN "refused" ELSE "sent"
    BY <1>0, <1>1 DEF IInv, Types
  <1>9. Sent' = Sent \cup {p}
    BY <1>0, <1>8 DEF Sent
  <1>10. FreedAtMostOnce' /\ Freed' = Freed \cup (spent \cup freed)
    <2>1. (spent \cup freed) \cap Freed = {}
      BY <1>2, <1>4, StateFacts DEF Partition
    <2>2. spent \cup freed \subseteq Packets
      BY <1>0, <1>5
    <2>3. "network" \in Threads /\ \A q \in spent \cup freed : "network" = "audio" <=> q \in Completions
      BY <1>0, <1>5 DEF Threads
    <2> QED BY <1>1, <2>1, <2>2, <2>3, StateFacts, FreedFacts
  <1>11. Ownership'
    <2>1. Partition(Owners(inbox), Contents(heap), Owners(outbox), Freed, leaked, Sent)
      BY StateFacts
    <2>2. Partition(Owners(inbox'), Contents(heap'), Owners(outbox'), Freed', leaked', Sent')
      <3>1. given \cup freed \cup lost = {p} /\ given \cap (freed \cup lost) = {} /\ freed \cap lost = {}
        OBVIOUS
      <3>2. heap' = heap /\ outbox' = outbox /\ leaked' = leaked \cup lost
        BY <1>1
      <3> HIDE DEF given, freed, lost
      <3> QED BY ONLY <1>2, <1>4, <1>6, <1>9, <1>10, <2>1, <3>1, <3>2 DEF Partition
    <2>3. leaked' \subseteq Packets
      BY <1>0, <1>1, StateFacts
    <2> QED BY <2>2, <2>3, OwnershipNext
  <1>12. Queues'
    BY <1>1, <1>6, StateFacts, QueuesNext
  <1>13. Allocators'
    <2>1. \A i \in 1 .. Len(inbox') : inbox'[i].packet \in NetPackets
      BY <1>0, <1>6, StateFacts, NewSlot
    <2> QED BY <1>1, <2>1, StateFacts DEF Allocators
  <1>14. Waiting'
    <2>1. ASSUME NEW i \in 1 .. Len(inbox') PROVE fate'[inbox'[i].packet] = "sent"
      <3>1. CASE \E j \in 1 .. Len(inbox) : inbox'[i] = inbox[j] /\ ~inbox[j].done
        <4>1. PICK j \in 1 .. Len(inbox) : inbox'[i] = inbox[j] /\ ~inbox[j].done
          BY <3>1
        <4>2. fate[inbox[j].packet] = "sent" /\ inbox[j].packet \in Packets
          BY <1>0, <4>1, StateFacts
        <4> QED BY <1>1, <1>8, <4>1, <4>2
      <3>2. CASE ~full /\ inbox'[i] = Slot(p)
        BY <1>0, <1>8, <3>2, NewSlot
      <3> QED BY <1>6, <3>1, <3>2
    <2>2. ASSUME NEW x \in Entries(heap) PROVE fate'[x.packet] = "sent" /\ x.time \in 1 .. MaxTime
      <3>1. x.packet \in Packets /\ fate[x.packet] = "sent" /\ x.time \in 1 .. MaxTime
        BY StateFacts, ContentsFacts
      <3> QED BY <1>1, <1>8, <3>1
    <2> QED BY <1>1, <2>1, <2>2 DEF Waiting
  <1>15. Clock'
    BY <1>1 DEF IInv, Clock, clock
  <1> QED BY <1>7, <1>10, <1>11, <1>12, <1>13, <1>14, <1>15 DEF IInv

LEMMA CallbackInv == ASSUME IInv, NEW t \in 0 .. MaxTime, Callback(t) PROVE IInv'
  <1>1. /\ oscTime' = t /\ left' = NumBufs /\ phase' = "toEngine"
        /\ outbox' = Reclaimed(outbox)
        /\ UNCHANGED <<stamp, fate, inbox, heap, memory, blockEnd>>
    BY DEF Callback
  <1>2. /\ Fifo(outbox, OutboxSize) /\ OutboxSize \in Nat
        /\ \A i \in 1 .. Len(outbox) : outbox[i].done => ~outbox[i].owns
        /\ outbox \in Seq(Slots)
    BY StateFacts, Constants
  <1>3. /\ Fifo(outbox', OutboxSize)
        /\ \A i \in 1 .. Len(outbox') : ~outbox'[i].done
        /\ \A i \in 1 .. Len(outbox') : \E j \in 1 .. Len(outbox) : outbox'[i] = outbox[j]
    <2>1. /\ Fifo(Reclaimed(outbox), OutboxSize)
          /\ \A i \in 1 .. Len(Reclaimed(outbox)) : ~Reclaimed(outbox)[i].done
          /\ \A i \in 1 .. Len(Reclaimed(outbox)) :
                \E j \in 1 .. Len(outbox) : Reclaimed(outbox)[i] = outbox[j]
      BY <1>2, ReclaimedFacts
    <2> QED BY <1>1, <2>1
  <1>4. Owners(outbox') = Owners(outbox)
    <2> DEFINE spent == {outbox[i].packet : i \in {j \in Performed(outbox) : outbox[j].owns}}
    <2>1. spent = {}
      BY <1>2, SlotFacts DEF Performed
    <2>2. Owners(Reclaimed(outbox)) = Owners(outbox) \ spent
      BY <1>2, ReclaimedOwners
    <2> QED BY <1>1, <2>1, <2>2
  <1>5. Types'
    BY <1>1, Constants DEF IInv, Types
  <1>6. Queues'
    BY <1>1, <1>3, StateFacts, QueuesNext
  <1>7. Freed' = Freed /\ Sent' = Sent /\ leaked' = leaked
    BY <1>1 DEF Freed, Sent, memory
  <1>8. Ownership'
    BY <1>1, <1>4, <1>7, StateFacts, OwnershipNext
  <1>9. Allocators'
    <2>1. \A i \in 1 .. Len(outbox') : outbox'[i].packet \in NetPackets /\ ~outbox'[i].done
      BY <1>3, StateFacts
    <2> QED BY <1>1, <2>1, StateFacts DEF Allocators
  <1>10. Waiting'
    BY <1>1 DEF IInv, Waiting
  <1>11. FreedAtMostOnce'
    BY <1>1 DEF IInv, FreedAtMostOnce, memory
  <1>12. Clock'
    <2>1. NumBufs * oscInc \in Nat
      BY Constants
    <2> QED BY <1>1, <2>1, Constants DEF Clock
  <1> QED BY <1>5, <1>6, <1>8, <1>9, <1>10, <1>11, <1>12 DEF IInv

(* Nothing but the phase and the clock changes.                            *)
LEMMA SameQueues ==
  ASSUME IInv, UNCHANGED <<stamp, fate, inbox, heap, outbox, memory>>, Types', Clock'
  PROVE  IInv'
  <1>1. Freed' = Freed /\ Sent' = Sent
    BY DEF Freed, Sent, memory
  <1>2. Queues'
    BY StateFacts, QueuesNext
  <1>3. Ownership'
    BY <1>1, StateFacts, OwnershipNext DEF memory
  <1>4. Allocators' /\ Waiting'
    BY DEF IInv, Allocators, Waiting
  <1>5. FreedAtMostOnce'
    BY DEF IInv, FreedAtMostOnce, memory
  <1> QED BY <1>2, <1>3, <1>4, <1>5 DEF IInv

LEMMA ToEngineDoneInv == ASSUME IInv, ToEngineDone PROVE IInv'
  BY SameQueues DEF ToEngineDone, IInv, Types, Clock, clock

LEMMA PacketsDoneInv == ASSUME IInv, PacketsDone PROVE IInv'
  BY SameQueues DEF PacketsDone, IInv, Types, Clock, clock

(* A block later, one block less is left of the callback.                  *)
LEMMA RunBlockFacts ==
  ASSUME IInv, RunBlock
  PROVE  /\ oscTime + oscInc \in 0 .. MaxTime + NumBufs * oscInc
         /\ Types' /\ Clock'
  <1>1. /\ oscTime' = oscTime + oscInc /\ left' = left - 1
        /\ phase' = IF left = 1 THEN "out" ELSE "due"
        /\ left >= 1 /\ oscTime + left * oscInc <= MaxTime + NumBufs * oscInc
        /\ oscTime \in Nat /\ left \in 0 .. NumBufs
        /\ UNCHANGED <<stamp, fate>>
    BY DEF RunBlock, IInv, Types, Clock
  <1>2. left * oscInc = (left - 1) * oscInc + oscInc
    BY <1>1, Constants
  <1>3. left - 1 \in Nat /\ (left - 1) * oscInc \in Nat /\ NumBufs * oscInc \in Nat
    BY <1>1, Constants
  <1>4. /\ oscTime + oscInc \in 0 .. MaxTime + NumBufs * oscInc
        /\ oscTime' + left' * oscInc <= MaxTime + NumBufs * oscInc
    BY <1>1, <1>2, <1>3, Constants
  <1>5. left # 1 => left' >= 1
    BY <1>1, Constants
  <1>6. oscTime' \in Nat /\ left' \in 0 .. NumBufs /\ phase' \in {"out", "due"}
    BY <1>1, Constants
  <1>7. Types'
    BY <1>1, <1>6 DEF IInv, Types
  <1>8. Clock'
    BY <1>1, <1>4, <1>5 DEF Clock
  <1> QED BY <1>4, <1>7, <1>8

LEMMA RunBlockInv == ASSUME IInv, RunBlock PROVE IInv'
  BY RunBlockFacts, SameQueues DEF RunBlock

LEMMA FreeOSCPacketInv == ASSUME IInv, FreeOSCPacket PROVE IInv'
  <1> DEFINE u == Undone(outbox)
             p == outbox[u].packet
  <1>1. /\ u # 0
        /\ outbox' = [outbox EXCEPT ![u].done = TRUE, ![u].owns = FALSE]
        /\ freedBy' = FreedIn("driver", {p})
        /\ UNCHANGED <<stamp, fate, inbox, heap, leaked, phase, clock>>
    BY DEF FreeOSCPacket
  <1>2. Fifo(outbox, OutboxSize) /\ OutboxSize \in Nat /\ FALSE \in BOOLEAN
    BY StateFacts, Constants
  <1> HIDE DEF u
  <1>3. /\ Fifo(outbox', OutboxSize) /\ Len(outbox') = Len(outbox)
        /\ u \in 1 .. Len(outbox) /\ outbox[u].owns
        /\ outbox'[u].packet = p /\ outbox'[u].done /\ outbox'[u].owns = FALSE
        /\ \A i \in 1 .. Len(outbox) : i # u => outbox'[i] = outbox[i]
        /\ Owners(outbox') = Owners(outbox) \ {p}
    <2>1. Fifo(outbox', OutboxSize) /\ Passed(outbox, u, FALSE, outbox')
      BY <1>1, <1>2, PerformSlot DEF u
    <2> QED BY <2>1 DEF Passed
  <1>4. p \in NetPackets /\ p \in Packets /\ p \notin Completions /\ p \in Owners(outbox)
    BY <1>3, StateFacts, Constants DEF Owners
  <1>5. p \notin Freed
    BY <1>4, StateFacts DEF Partition
  <1> HIDE DEF p
  <1>6. FreedAtMostOnce' /\ Freed' = Freed \cup {p}
    <2>1. {p} \subseteq Packets /\ {p} \cap Freed = {} /\ "driver" \in Threads
      BY <1>4, <1>5 DEF Threads
    <2>2. \A q \in {p} : "driver" = "audio" <=> q \in Completions
      BY <1>4
    <2> QED BY <1>1, <2>1, <2>2, StateFacts, FreedFacts
  <1>7. Ownership'
    <2>1. Sent' = Sent
      BY <1>1 DEF Sent
    <2>2. Partition(Owners(inbox), Contents(heap), Owners(outbox), Freed, leaked, Sent)
      BY StateFacts
    <2>3. Partition(Owners(inbox'), Contents(heap'), Owners(outbox'), Freed', leaked', Sent')
      <3>1. /\ inbox' = inbox /\ heap' = heap /\ leaked' = leaked /\ Sent' = Sent
            /\ Freed' = Freed \cup {p} /\ Owners(outbox') = Owners(outbox) \ {p}
            /\ p \in Owners(outbox)
        BY <1>1, <1>3, <1>4, <1>6, <2>1
      <3>2. PICK I, H, O, F, K : /\ I = Owners(inbox) /\ H = Contents(heap) /\ O = Owners(outbox)
                                 /\ F = Freed /\ K = leaked
        OBVIOUS
      <3>3. Partition(I, H, O, F, K, Sent) /\ p \in O
        BY <2>2, <3>1, <3>2
      <3>4. Partition(I, H, O \ {p}, F \cup {p}, K, Sent)
        BY ONLY <3>3 DEF Partition
      <3> QED BY <3>1, <3>2, <3>4
    <2> QED BY <1>1, <2>3, StateFacts, OwnershipNext
  <1>8. Queues'
    BY <1>1, <1>3, StateFacts, QueuesNext
  <1>9. Allocators'
    <2>1. \A i \in 1 .. Len(outbox') : outbox'[i].packet \in NetPackets
      BY <1>3, <1>4, StateFacts
    <2>2. \A i \in 1 .. Len(outbox') : outbox'[i].done => ~outbox'[i].owns
      BY <1>3, StateFacts
    <2> QED BY <1>1, <2>1, <2>2, StateFacts DEF Allocators
  <1>10. Types'
    BY <1>1 DEF IInv, Types, clock
  <1>11. Waiting'
    BY <1>1 DEF IInv, Waiting
  <1>12. Clock'
    BY <1>1 DEF IInv, Clock, clock
  <1> QED BY <1>6, <1>7, <1>8, <1>9, <1>10, <1>11, <1>12 DEF IInv

(* A completion message is performed or scheduled by the audio thread.     *)
LEMMA CompleteInv ==
  ASSUME IInv, NEW p \in Completions, NEW t \in 1 .. MaxTime, Complete(p, t)
  PROVE  IInv'
  <1>1. /\ p \in Packets /\ p \in Completions /\ fate[p] = "unsent"
        /\ stamp' = [stamp EXCEPT ![p] = t]
        /\ UNCHANGED <<inbox, outbox, phase, clock>>
    BY Constants DEF Complete, Arrives
  <1>2. /\ p \notin Sent /\ p \notin Owners(inbox) /\ p \notin Contents(heap)
        /\ p \notin Owners(outbox) /\ p \notin Freed /\ p \notin leaked
    BY <1>1, Unsent
  <1>3. stamp' \in [Packets -> 1 .. MaxTime]
    BY <1>1 DEF IInv, Types
  (* what waits in the fifo is of other packets than those in the heap *)
  <1>4. ASSUME \A q \in Packets : q # p /\ q \notin Contents(heap) => fate'[q] = fate[q]
        PROVE  \A i \in 1 .. Len(inbox) : ~inbox[i].done => fate'[inbox[i].packet] = "sent"
    <2> SUFFICES ASSUME NEW i \in 1 .. Len(inbox), ~inbox[i].done
                 PROVE  fate'[inbox[i].packet] = "sent"
      OBVIOUS
    <2>1. inbox[i].packet \in Packets /\ fate[inbox[i].packet] = "sent" /\ inbox[i].packet \in Owners(inbox)
      BY StateFacts, Constants DEF Owners, Fifo
    <2>2. inbox[i].packet # p /\ inbox[i].packet \notin Contents(heap)
      BY <1>1, <2>1, StateFacts DEF Partition
    <2> QED BY <1>4, <2>1, <2>2
  <1>5. CASE p \in Timeless
    <2>1. /\ Effect(p, heap) /\ leaked' = leaked \cup ClearedBy(p, heap)
          /\ freedBy' = FreedIn("audio", {p})
      BY <1>5 DEF Complete
    <2>2. /\ HeapInOrder(heap') /\ Len(heap') <= Limit
          /\ Contents(heap') = Contents(heap) \ ClearedBy(p, heap)
          /\ ClearedBy(p, heap) \subseteq Contents(heap)
          /\ \A x \in Entries(heap') : x \in Entries(heap) /\ fate'[x.packet] = fate[x.packet]
          /\ fate' \in [Packets -> {"unsent", "sent", "performed", "refused", "dropped"}]
          /\ Sent' = Sent \cup {p}
          /\ \A q \in Packets : q # p /\ q \notin Contents(heap) => fate'[q] = fate[q]
      BY <1>1, <1>2, <2>1, StateFacts, EffectFacts
    <2>3. FreedAtMostOnce' /\ Freed' = Freed \cup {p}
      <3>1. {p} \subseteq Packets /\ {p} \cap Freed = {} /\ "audio" \in Threads
        BY <1>1, <1>2 DEF Threads
      <3>2. \A q \in {p} : "audio" = "audio" <=> q \in Completions
        BY <1>1
      <3> QED BY <2>1, <3>1, <3>2, StateFacts, FreedFacts
    <2>4. Ownership'
      <3>1. Partition(Owners(inbox), Contents(heap), Owners(outbox), Freed, leaked, Sent)
        BY StateFacts
      <3>2. Partition(Owners(inbox'), Contents(heap'), Owners(outbox'), Freed', leaked', Sent')
        BY ONLY <1>1, <1>2, <2>1, <2>2, <2>3, <3>1 DEF Partition
      <3>3. leaked' \subseteq Packets
        BY <2>1, <2>2, StateFacts
      <3> QED BY <3>2, <3>3, OwnershipNext
    <2>5. Types'
      BY <1>1, <1>3, <2>2 DEF IInv, Types, clock
    <2>6. Queues'
      BY <1>1, <2>2, StateFacts, QueuesNext
    <2>7. Allocators'
      BY <1>1, <2>2, StateFacts DEF Allocators
    <2>8. Waiting'
      BY <1>1, <1>4, <2>2, StateFacts DEF Waiting
    <2>9. Clock'
      BY <1>1 DEF IInv, Clock, clock
    <2> QED BY <2>3, <2>4, <2>5, <2>6, <2>7, <2>8, <2>9 DEF IInv
  <1>6. CASE p \notin Timeless
    <2>1. AddEvent(p, t, "FreeInRT") /\ freedBy' = freedBy
      BY <1>6 DEF Complete
    <2> DEFINE e == [time |-> t, packet |-> p, free |-> "FreeInRT"]
    <2>2. /\ HeapInOrder(heap') /\ Len(heap') <= Limit
          /\ \A q \in Packets : q # p => fate'[q] = fate[q]
          /\ Sent' = Sent \cup {p}
          /\ fate' \in [Packets -> {"unsent", "sent", "performed", "refused", "dropped"}]
          /\ \/ /\ heap' = heap /\ leaked' = leaked \cup {p} /\ fate'[p] = "dropped"
             \/ /\ Len(heap) < Limit /\ leaked' = leaked /\ fate'[p] = "sent"
                /\ Contents(heap') = Contents(heap) \cup {p}
                /\ Entries(heap') = Entries(heap) \cup {e}
      BY <1>1, <1>2, <2>1, AddEventFacts
    <2>3. FreedAtMostOnce' /\ Freed' = Freed
      BY <2>1 DEF IInv, FreedAtMostOnce, Freed
    <2>4. Ownership'
      <3>1. Partition(Owners(inbox), Contents(heap), Owners(outbox), Freed, leaked, Sent)
        BY StateFacts
      <3>2. Partition(Owners(inbox'), Contents(heap'), Owners(outbox'), Freed', leaked', Sent')
        BY ONLY <1>1, <1>2, <2>2, <2>3, <3>1 DEF Partition
      <3>3. leaked' \subseteq Packets
        BY <1>1, <2>2, StateFacts
      <3> QED BY <3>2, <3>3, OwnershipNext
    <2>5. Types'
      BY <1>1, <1>3, <2>2 DEF IInv, Types, clock
    <2>6. Queues'
      BY <1>1, <2>2, StateFacts, QueuesNext
    <2>7. \A x \in Entries(heap) : x.packet \in Packets /\ x.packet # p
      BY <1>2, StateFacts, ContentsFacts
    <2>8. /\ \A x \in Entries(heap') : x.free = "FreeInRT" <=> x.packet \in Completions
          /\ \A x \in Entries(heap') : fate'[x.packet] = "sent" /\ x.time \in 1 .. MaxTime
      BY <1>1, <2>2, <2>7, StateFacts
    <2>9. Allocators'
      BY <1>1, <2>8, StateFacts DEF Allocators
    <2>10. Waiting'
      BY <1>1, <1>4, <2>2, <2>8 DEF Waiting
    <2>11. Clock'
      BY <1>1 DEF IInv, Clock, clock
    <2> QED BY <2>3, <2>4, <2>5, <2>6, <2>9, <2>10, <2>11 DEF IInv
  <1> QED BY <1>5, <1>6

LEMMA PerformPacketInv == ASSUME IInv, PerformPacket PROVE IInv'
  <1> DEFINE u == Undone(inbox)
             p == inbox[u].packet
             o == Keeps(p)
  <1>1. /\ u # 0 /\ inbox' = [inbox EXCEPT ![u].done = TRUE, ![u].owns = o]
        /\ UNCHANGED <<stamp, outbox, freedBy, phase, clock>>
    BY DEF PerformPacket
  <1>2. Fifo(inbox, InboxSize) /\ InboxSize \in Nat /\ o \in BOOLEAN /\ o = (p \in Timeless)
    BY StateFacts, Constants DEF Keeps
  <1> HIDE DEF u, o
  <1>3. /\ Fifo(inbox', InboxSize) /\ Len(inbox') = Len(inbox)
        /\ u \in 1 .. Len(inbox) /\ ~inbox[u].done /\ inbox[u].owns
        /\ inbox'[u].packet = p /\ inbox'[u].done
        /\ \A i \in 1 .. Len(inbox) : i # u => inbox'[i] = inbox[i]
        /\ Owners(inbox') = IF o THEN Owners(inbox) ELSE Owners(inbox) \ {p}
    <2>1. Fifo(inbox', InboxSize) /\ Passed(inbox, u, o, inbox')
      BY <1>1, <1>2, PerformSlot DEF u
    <2> QED BY <2>1 DEF Passed
  <1>4. /\ p \in NetPackets /\ p \in Packets /\ p \notin Completions
        /\ p \in Owners(inbox) /\ fate[p] = "sent" /\ p \in Sent
    BY <1>3, StateFacts, Constants DEF Owners, Sent
  <1>5. p \notin Contents(heap) /\ p \notin leaked
    BY <1>4, StateFacts DEF Partition
  <1>6. \A i \in 1 .. Len(inbox') : inbox'[i].packet \in NetPackets
    BY <1>3, <1>4, StateFacts
  <1>7. FreedAtMostOnce' /\ Freed' = Freed
    BY <1>1 DEF IInv, FreedAtMostOnce, Freed
  <1>8. Partition(Owners(inbox), Contents(heap), Owners(outbox), Freed, leaked, Sent)
    BY StateFacts
  <1>9. ASSUME \A q \in Packets : q # p /\ q \notin Contents(heap) => fate'[q] = fate[q]
        PROVE  \A i \in 1 .. Len(inbox') : ~inbox'[i].done => fate'[inbox'[i].packet] = "sent"
    <2> SUFFICES ASSUME NEW i \in 1 .. Len(inbox), ~inbox'[i].done
                 PROVE  fate'[inbox'[i].packet] = "sent"
      BY <1>3
    <2>1. i # u /\ inbox'[i] = inbox[i] /\ ~inbox[i].done /\ inbox[i].owns
      BY <1>2, <1>3 DEF Fifo
    <2>2. inbox[i].packet # p
      BY <1>2, <1>3, <2>1 DEF Fifo
    <2>3. /\ inbox[i].packet \in Packets /\ fate[inbox[i].packet] = "sent"
          /\ inbox[i].packet \in Owners(inbox)
      BY <2>1, StateFacts, Constants DEF Owners
    <2>4. inbox[i].packet \notin Contents(heap)
      BY <2>3, <1>8 DEF Partition
    <2> QED BY <1>9, <2>1, <2>2, <2>3, <2>4
  <1>10. Clock'
    BY <1>1 DEF IInv, Clock, clock
  <1>11. CASE p \in Timeless
    <2>1. Effect(p, heap) /\ leaked' = leaked \cup ClearedBy(p, heap)
      BY <1>11 DEF PerformPacket, u
    <2> HIDE DEF p
    <2>2. /\ HeapInOrder(heap') /\ Len(heap') <= Limit
          /\ Contents(heap') = Contents(heap) \ ClearedBy(p, heap)
          /\ ClearedBy(p, heap) \subseteq Contents(heap)
          /\ \A x \in Entries(heap') : x \in Entries(heap) /\ fate'[x.packet] = fate[x.packet]
          /\ fate' \in [Packets -> {"unsent", "sent", "performed", "refused", "dropped"}]
          /\ Sent' = Sent \cup {p}
          /\ \A q \in Packets : q # p /\ q \notin Contents(heap) => fate'[q] = fate[q]
      BY <1>4, <1>5, <2>1, StateFacts, EffectFacts
    <2>3. Ownership'
      <3>1. Owners(inbox') = Owners(inbox)
        BY <1>2, <1>3, <1>11
      <3>2. Partition(Owners(inbox'), Contents(heap'), Owners(outbox'), Freed', leaked', Sent')
        BY ONLY ZenonT(60), <1>1, <1>4, <1>7, <1>8, <2>1, <2>2, <3>1 DEF Partition
      <3>3. leaked' \subseteq Packets
        BY <2>1, <2>2, StateFacts
      <3> QED BY <3>2, <3>3, OwnershipNext
    <2>4. Types'
      BY <1>1, <2>2 DEF IInv, Types, clock
    <2>5. Queues'
      BY <1>1, <1>3, <2>2, StateFacts, QueuesNext
    <2>6. Allocators'
      BY <1>1, <1>6, <2>2, StateFacts DEF Allocators
    <2>7. Waiting'
      BY <1>9, <2>2, StateFacts DEF Waiting
    <2> QED BY <1>7, <1>10, <2>3, <2>4, <2>5, <2>6, <2>7 DEF IInv
  <1>12. CASE p \notin Timeless
    <2>1. AddEvent(p, stamp[p], "FreeInNRT") /\ stamp[p] \in 1 .. MaxTime
      BY <1>4, <1>12 DEF PerformPacket, u, IInv, Types
    <2> HIDE DEF p
    <2> DEFINE e == [time |-> stamp[p], packet |-> p, free |-> "FreeInNRT"]
    <2>2. /\ HeapInOrder(heap') /\ Len(heap') <= Limit
          /\ \A q \in Packets : q # p => fate'[q] = fate[q]
          /\ Sent' = Sent \cup {p}
          /\ fate' \in [Packets -> {"unsent", "sent", "performed", "refused", "dropped"}]
          /\ \/ /\ heap' = heap /\ leaked' = leaked \cup {p} /\ fate'[p] = "dropped"
             \/ /\ Len(heap) < Limit /\ leaked' = leaked /\ fate'[p] = "sent"
                /\ Contents(heap') = Contents(heap) \cup {p}
                /\ Entries(heap') = Entries(heap) \cup {e}
      BY <1>4, <1>5, <2>1, AddEventFacts
    <2>3. Ownership'
      <3>1. Owners(inbox') = Owners(inbox) \ {p}
        BY <1>2, <1>3, <1>12
      <3>2. Partition(Owners(inbox'), Contents(heap'), Owners(outbox'), Freed', leaked', Sent')
        <4>1. \/ Contents(heap') = Contents(heap) /\ leaked' = leaked \cup {p}
              \/ Contents(heap') = Contents(heap) \cup {p} /\ leaked' = leaked
          BY <2>2
        <4>2. Owners(outbox') = Owners(outbox) /\ Sent' = Sent
          BY <1>1, <1>4, <2>2
        <4> QED BY ONLY <1>4, <1>7, <1>8, <3>1, <4>1, <4>2 DEF Partition
      <3>3. leaked' \subseteq Packets
        BY <1>4, <2>2, StateFacts
      <3> QED BY <3>2, <3>3, OwnershipNext
    <2>4. Types'
      BY <1>1, <2>2 DEF IInv, Types, clock
    <2>5. Queues'
      BY <1>1, <1>3, <2>2, StateFacts, QueuesNext
    <2>6. \A x \in Entries(heap) : x.packet \in Packets /\ x.packet # p
      BY <1>5, StateFacts, ContentsFacts
    <2>7. /\ \A x \in Entries(heap') : x.free = "FreeInRT" <=> x.packet \in Completions
          /\ \A x \in Entries(heap') : fate'[x.packet] = "sent" /\ x.time \in 1 .. MaxTime
      BY SMTT(40), <1>4, <2>1, <2>2, <2>6, StateFacts
    <2>8. Allocators'
      BY <1>1, <1>6, <2>7, StateFacts DEF Allocators
    <2>9. Waiting'
      BY <1>9, <2>2, <2>7 DEF Waiting
    <2> QED BY <1>7, <1>10, <2>3, <2>4, <2>5, <2>8, <2>9 DEF IInv
  <1> QED BY <1>11, <1>12

(* The first event, and what is left without it.                           *)
LEMMA HeadFacts ==
  ASSUME IInv, heap # <<>>, NEW e, e = Head(heap), NEW rest, rest = HeapRemove(heap)
  PROVE  /\ e \in Events /\ e \in Entries(heap) /\ e.packet \in Packets
         /\ HeapInOrder(rest) /\ Len(rest) <= Limit
         /\ Entries(rest) = Entries(heap) \ {e}
         /\ e.packet \in Contents(heap) /\ Contents(rest) = Contents(heap) \ {e.packet}
         /\ \A x \in Entries(heap) : e.time <= x.time
  <1>1. /\ HeapInOrder(heap) /\ Len(heap) <= Limit /\ Limit \in Nat
        /\ heap \in Seq(Events) /\ Len(heap) \in Nat /\ Len(heap) >= 1
    BY StateFacts, Constants, HeapFacts, EmptySeq DEF HeapInOrder
  <1>2. e = heap[1] /\ 1 \in 1 .. Len(heap)
    BY <1>1
  <1>3. /\ e \in Entries(heap) /\ e.packet \in Contents(heap) /\ e \in Events
        /\ Contents(heap) = {x.packet : x \in Entries(heap)}
        /\ \A x, y \in Entries(heap) : x.packet = y.packet => x = y
    BY <1>1, <1>2, ContentsFacts
  <1>4. /\ HeapInOrder(rest) /\ Len(rest) = Len(heap) - 1
        /\ Entries(rest) = Entries(heap) \ {e}
    BY <1>1, <1>2, RemoveFacts
  <1>5. Contents(rest) = {x.packet : x \in Entries(rest)}
    BY <1>4, ContentsFacts
  <1>6. Contents(rest) = Contents(heap) \ {e.packet}
    BY <1>3, <1>4, <1>5
  <1>7. \A x \in Entries(heap) : e.time <= x.time
    BY <1>1, <1>2, HeadIsEarliest DEF Entries
  <1>8. e.packet \in Packets /\ Len(rest) <= Limit
    BY <1>1, <1>3, <1>4, EventFacts
  <1> QED BY <1>3, <1>4, <1>6, <1>7, <1>8

LEMMA PerformDueInv == ASSUME IInv, PerformDue PROVE IInv'
  <1> DEFINE e == Head(heap)
             p == e.packet
             rest == HeapRemove(heap)
             full == Len(outbox) >= OutboxSize
             back == e.free = "FreeInNRT"
             cleared == ClearedBy(p, rest)
             freed == IF back THEN {} ELSE {p}
             given == IF back /\ ~full THEN {p} ELSE {}
             lost == IF back /\ full THEN {p} ELSE {}
  <1>1. /\ heap # <<>> /\ Effect(p, rest)
        /\ freedBy' = IF back THEN freedBy ELSE FreedIn("audio", {p})
        /\ outbox' = IF back /\ ~full THEN Append(outbox, Slot(p)) ELSE outbox
        /\ leaked' = leaked \cup cleared \cup lost
        /\ UNCHANGED <<stamp, inbox, phase, clock>>
    BY DEF PerformDue
  <1>2. /\ e \in Events /\ e \in Entries(heap) /\ p \in Packets
        /\ HeapInOrder(rest) /\ Len(rest) <= Limit
        /\ Entries(rest) = Entries(heap) \ {e}
        /\ p \in Contents(heap) /\ Contents(rest) = Contents(heap) \ {p}
    BY <1>1, HeadFacts
  <1>3. /\ back <=> p \notin Completions
        /\ p \notin Completions => p \in NetPackets
        /\ fate[p] = "sent" /\ p \in Sent
    <2>1. e.free \in {"FreeInRT", "FreeInNRT"} /\ (e.free = "FreeInRT" <=> p \in Completions)
      BY <1>2, EventFacts, StateFacts
    <2> QED BY <1>2, <2>1, StateFacts DEF Sent, Packets
  <1> HIDE DEF p, rest, back
  <1>4. Partition(Owners(inbox), Contents(heap), Owners(outbox), Freed, leaked, Sent)
    BY StateFacts
  <1>5. p \notin Owners(inbox) /\ p \notin Owners(outbox) /\ p \notin Freed
    BY <1>2, <1>4 DEF Partition
  <1>6. /\ HeapInOrder(heap') /\ Len(heap') <= Limit
        /\ Contents(heap') = Contents(rest) \ cleared
        /\ cleared \subseteq Contents(rest)
        /\ \A x \in Entries(heap') : x \in Entries(heap) /\ fate'[x.packet] = fate[x.packet]
        /\ fate' \in [Packets -> {"unsent", "sent", "performed", "refused", "dropped"}]
        /\ Sent' = Sent \cup {p}
        /\ \A q \in Packets : q # p /\ q \notin Contents(rest) => fate'[q] = fate[q]
    BY <1>1, <1>2, EffectFacts
  <1>7. /\ Fifo(outbox', OutboxSize) /\ Owners(outbox') = Owners(outbox) \cup given
        /\ \A i \in 1 .. Len(outbox') :
              \/ i \in 1 .. Len(outbox) /\ outbox'[i] = outbox[i]
              \/ back /\ outbox'[i] = Slot(p)
    <2>0. Fifo(outbox, OutboxSize) /\ OutboxSize \in Nat /\ Len(outbox) \in Nat
      BY StateFacts, SlotFacts, Constants
    <2>1. CASE back /\ ~full
      <3>1. outbox' = Append(outbox, Slot(p)) /\ Len(outbox) < OutboxSize
        BY <1>1, <2>0, <2>1
      <3>2. /\ Fifo(outbox', OutboxSize) /\ Owners(outbox') = Owners(outbox) \cup {p}
            /\ Longer(outbox, p, outbox')
        BY <1>2, <1>5, <2>0, <3>1, AppendSlot
      <3>3. \A i \in 1 .. Len(outbox') :
               (i \in 1 .. Len(outbox) /\ outbox'[i] = outbox[i]) \/ outbox'[i] = Slot(p)
        BY <3>2 DEF Longer
      <3> QED BY <2>1, <3>2, <3>3
    <2>2. CASE ~(back /\ ~full)
      BY <1>1, <2>0, <2>2
    <2> QED BY <2>1, <2>2
  <1>8. FreedAtMostOnce' /\ Freed' = Freed \cup freed
    <2>1. CASE back
      BY <1>1, <2>1 DEF IInv, FreedAtMostOnce, Freed
    <2>2. CASE ~back
      <3>1. {p} \subseteq Packets /\ {p} \cap Freed = {} /\ "audio" \in Threads
        BY <1>2, <1>5 DEF Threads
      <3>2. \A q \in {p} : "audio" = "audio" <=> q \in Completions
        BY <1>3, <2>2
      <3>3. freedBy' = FreedIn("audio", {p})
        BY <1>1, <2>2
      <3> QED BY <2>2, <3>1, <3>2, <3>3, StateFacts, FreedFacts
    <2> QED BY <2>1, <2>2
  <1>9. Ownership'
    <2>1. given \cup freed \cup lost = {p} /\ given \cap (freed \cup lost) = {} /\ freed \cap lost = {}
      OBVIOUS
    <2>2. leaked' = leaked \cup cleared \cup lost /\ Owners(inbox') = Owners(inbox)
      BY <1>1
    <2>3. leaked' \subseteq Packets
      BY <1>2, <1>6, <2>1, <2>2, StateFacts
    <2> HIDE DEF given, freed, lost, cleared
    <2>4. Partition(Owners(inbox'), Contents(heap'), Owners(outbox'), Freed', leaked', Sent')
      <3>1. /\ Contents(heap') = (Contents(heap) \ {p}) \ cleared
            /\ cleared \subseteq Contents(heap) \ {p}
            /\ Owners(outbox') = Owners(outbox) \cup given
            /\ Sent' = Sent
        BY <1>2, <1>3, <1>6, <1>7
      <3> QED BY ONLY <1>2, <1>4, <1>8, <2>1, <2>2, <3>1 DEF Partition
    <2> QED BY <2>3, <2>4, OwnershipNext
  <1>10. Types'
    BY <1>1, <1>6 DEF IInv, Types, clock
  <1>11. Queues'
    BY <1>1, <1>6, <1>7, StateFacts, QueuesNext
  <1>12. Allocators'
    <2>1. \A i \in 1 .. Len(outbox') :
             outbox'[i].packet \in NetPackets /\ (outbox'[i].done => ~outbox'[i].owns)
      <3> SUFFICES ASSUME NEW i \in 1 .. Len(outbox')
                   PROVE  outbox'[i].packet \in NetPackets /\ (outbox'[i].done => ~outbox'[i].owns)
        OBVIOUS
      <3>1. CASE i \in 1 .. Len(outbox) /\ outbox'[i] = outbox[i]
        BY <3>1, StateFacts
      <3>2. CASE back /\ outbox'[i] = Slot(p)
        BY <1>2, <1>3, <3>2, NewSlot
      <3> QED BY <1>7, <3>1, <3>2
    <2> QED BY <1>1, <1>6, <2>1, StateFacts DEF Allocators
  <1>13. Waiting'
    <2>1. ASSUME NEW i \in 1 .. Len(inbox), ~inbox[i].done PROVE fate'[inbox[i].packet] = "sent"
      <3>1. /\ inbox[i].packet \in Packets /\ fate[inbox[i].packet] = "sent"
            /\ inbox[i].packet \in Owners(inbox)
        BY <2>1, StateFacts, Constants DEF Owners, Fifo
      <3>2. inbox[i].packet # p /\ inbox[i].packet \notin Contents(rest)
        BY <1>2, <1>4, <3>1 DEF Partition
      <3> QED BY <1>6, <3>1, <3>2
    <2> QED BY <1>1, <1>6, <2>1, StateFacts DEF Waiting
  <1>14. Clock'
    BY <1>1 DEF IInv, Clock, clock
  <1> QED BY <1>8, <1>9, <1>10, <1>11, <1>12, <1>13, <1>14 DEF IInv

-----------------------------------------------------------------------------
LEMMA StepInv == IInv /\ [Next]_vars => IInv'
  <1> SUFFICES ASSUME IInv, [Next]_vars PROVE IInv'
    OBVIOUS
  <1>1. CASE UNCHANGED vars
    <2>1. UNCHANGED <<stamp, fate, inbox, heap, outbox, memory>> /\ UNCHANGED <<phase, oscTime, left>>
      BY <1>1 DEF vars, memory, clock
    <2>2. Types' /\ Clock'
      BY <2>1 DEF IInv, Types, Clock
    <2> QED BY <2>1, <2>2, SameQueues
  <1>2. ASSUME NEW p \in NetPackets, NEW t \in 1 .. MaxTime, NEW c \in {"port", "process"},
               Send(p, t, c)
        PROVE  IInv'
    BY <1>2, SendInv
  <1>3. ASSUME NEW p \in Completions, NEW t \in 1 .. MaxTime, Complete(p, t) PROVE IInv'
    BY <1>3, CompleteInv
  <1>4. ASSUME NEW t \in 0 .. MaxTime, Callback(t) PROVE IInv'
    BY <1>4, CallbackInv
  <1>5. CASE ToEngineDone
    BY <1>5, ToEngineDoneInv
  <1>6. CASE PerformPacket
    BY <1>6, PerformPacketInv
  <1>7. CASE PacketsDone
    BY <1>7, PacketsDoneInv
  <1>8. CASE PerformDue
    BY <1>8, PerformDueInv
  <1>9. CASE RunBlock
    BY <1>9, RunBlockInv
  <1>10. CASE FreeOSCPacket
    BY <1>10, FreeOSCPacketInv
  <1> QED
    BY <1>1, <1>2, <1>3, <1>4, <1>5, <1>6, <1>7, <1>8, <1>9, <1>10 DEF Next, Audio

LEMMA Invariance == Spec => []IInv
  <1> QED BY InitInv, StepInv, PTL DEF Spec

(* Among numbered things that can have a mark only once, the mark is there *)
(* once or not at all.                                                     *)
LEMMA Count ==
  ASSUME NEW S, \A i, j \in S : i = j
  PROVE  Cardinality(S) = IF S = {} THEN 0 ELSE 1
  <1>1. CASE S = {}
    BY <1>1, FS_EmptySet
  <1>2. CASE S # {}
    <2>1. PICK x \in S : TRUE
      BY <1>2
    <2>2. S = {x}
      BY <2>1
    <2> QED BY <1>2, <2>2, FS_Singleton
  <1> QED BY <1>1, <1>2

LEMMA OwnedFacts ==
  ASSUME NEW f, NEW room, Fifo(f, room), NEW p
  PROVE  Owned(f, p) = IF p \in Owners(f) THEN 1 ELSE 0
  <1> DEFINE S == {i \in DOMAIN f : f[i].packet = p /\ f[i].owns}
  <1>1. \A i, j \in S : i = j
    BY SlotFacts DEF Fifo
  <1>2. S # {} <=> p \in Owners(f)
    BY SlotFacts DEF Fifo, Owners
  <1> HIDE DEF S
  <1>3. Cardinality(S) = IF S = {} THEN 0 ELSE 1
    BY <1>1, Count
  <1> QED BY <1>2, <1>3 DEF Owned, S

LEMMA OneOwnerInv == IInv => PacketsHaveOneOwner
  <1> SUFFICES ASSUME IInv PROVE PacketsHaveOneOwner
    OBVIOUS
  <1>1. TypeOK
    BY TypesSuffice DEF IInv
  <1>2. ASSUME NEW p \in Packets
        PROVE  /\ Owned(inbox, p) + Owned(outbox, p)
                    + Cardinality({i \in DOMAIN heap : heap[i].packet = p})
                    + Len(freedBy[p]) + Cardinality({p} \cap leaked)
                  = IF fate[p] = "unsent" THEN 0 ELSE 1
               /\ \A i \in DOMAIN freedBy[p] : freedBy[p][i] = "audio" <=> p \in Completions
    <2>1. /\ Owned(inbox, p) = IF p \in Owners(inbox) THEN 1 ELSE 0
          /\ Owned(outbox, p) = IF p \in Owners(outbox) THEN 1 ELSE 0
      BY StateFacts, OwnedFacts
    <2>2. Cardinality({i \in DOMAIN heap : heap[i].packet = p}) = IF p \in Contents(heap) THEN 1 ELSE 0
      <3> DEFINE S == {i \in DOMAIN heap : heap[i].packet = p}
      <3>1. \A i, j \in S : i = j
        BY SMTT(40), StateFacts, ContentsFacts DEF HeapInOrder, OneOfEach
      <3>2. S # {} <=> p \in Contents(heap)
        BY DEF Contents
      <3> HIDE DEF S
      <3>3. Cardinality(S) = IF S = {} THEN 0 ELSE 1
        BY <3>1, Count
      <3> QED BY <3>2, <3>3 DEF S
    <2>3. Cardinality({p} \cap leaked) = IF p \in leaked THEN 1 ELSE 0
      <3> DEFINE S == {p} \cap leaked
      <3>1. (\A i, j \in S : i = j) /\ (S # {} <=> p \in leaked)
        OBVIOUS
      <3> HIDE DEF S
      <3>2. Cardinality(S) = IF S = {} THEN 0 ELSE 1
        BY <3>1, Count
      <3> QED BY <3>1, <3>2 DEF S
    <2>4. freedBy[p] \in Seq(Threads) /\ Len(freedBy[p]) <= 1
      BY DEF IInv, FreedAtMostOnce
    <2>5. Len(freedBy[p]) = IF p \in Freed THEN 1 ELSE 0
      <3>1. Len(freedBy[p]) \in Nat /\ (freedBy[p] # <<>> => Len(freedBy[p]) \in Nat \ {0})
        BY <2>4, EmptySeq
      <3>2. CASE freedBy[p] = <<>>
        BY <3>2, EmptySeq DEF Freed
      <3>3. CASE freedBy[p] # <<>>
        BY <2>4, <3>1, <3>3 DEF Freed
      <3> QED BY <3>2, <3>3
    <2>6. DOMAIN freedBy[p] = 1 .. Len(freedBy[p])
      BY <2>4
    <2>7. \A i \in DOMAIN freedBy[p] : freedBy[p][i] = "audio" <=> p \in Completions
      BY <2>6 DEF IInv, FreedAtMostOnce
    <2>8. Partition(Owners(inbox), Contents(heap), Owners(outbox), Freed, leaked, Sent)
      BY StateFacts
    <2>9. fate[p] = "unsent" <=> p \notin Sent
      BY DEF Sent
    <2>10. CASE p \notin Sent
      <3>1. /\ p \notin Owners(inbox) /\ p \notin Contents(heap)
            /\ p \notin Owners(outbox) /\ p \notin Freed /\ p \notin leaked
        BY <2>8, <2>10 DEF Partition
      <3> QED BY ONLY <2>1, <2>2, <2>3, <2>5, <2>7, <2>9, <2>10, <3>1
    <2>11. CASE p \in Sent
      <3>1. \/ /\ p \in Owners(inbox) /\ p \notin Contents(heap)
               /\ p \notin Owners(outbox) /\ p \notin Freed /\ p \notin leaked
            \/ /\ p \notin Owners(inbox) /\ p \in Contents(heap)
               /\ p \notin Owners(outbox) /\ p \notin Freed /\ p \notin leaked
            \/ /\ p \notin Owners(inbox) /\ p \notin Contents(heap)
               /\ p \in Owners(outbox) /\ p \notin Freed /\ p \notin leaked
            \/ /\ p \notin Owners(inbox) /\ p \notin Contents(heap)
               /\ p \notin Owners(outbox) /\ p \in Freed /\ p \notin leaked
            \/ /\ p \notin Owners(inbox) /\ p \notin Contents(heap)
               /\ p \notin Owners(outbox) /\ p \notin Freed /\ p \in leaked
        BY ONLY <2>8, <2>11 DEF Partition
      <3> QED BY ONLY <2>1, <2>2, <2>3, <2>5, <2>7, <2>9, <2>11, <3>1
    <2> QED BY <2>10, <2>11
  <1> QED BY <1>1, <1>2 DEF PacketsHaveOneOwner

(* The memory of a packet has one owner from its arrival to the thread     *)
(* that frees it, the one whose allocator it came from, or is forgotten    *)
(* once, for any packets and any room in the fifos and in the heap.        *)
THEOREM PacketsKeepOneOwner == Spec => []PacketsHaveOneOwner
  <1> QED BY Invariance, OneOwnerInv, PTL

-----------------------------------------------------------------------------
(* The heap, as BundleQueue sees it, and what has been performed.          *)
Bundle(x) == [time |-> x.time, packet |-> x.packet]
Bundles(h) == {[time |-> h[i].time, packet |-> h[i].packet] : i \in DOMAIN h}
Done == {p \in Packets : fate[p] = "performed"}

LEMMA BundlesFacts ==
  ASSUME NEW h, HeapInOrder(h)
  PROVE  /\ Bundles(h) = {Bundle(x) : x \in Entries(h)}
         /\ \A x \in Entries(h) : Bundle(x).time = x.time /\ Bundle(x).packet = x.packet
         /\ Cardinality(Bundles(h)) \in Nat /\ Cardinality(Bundles(h)) <= Len(h)
  <1> DEFINE n == Len(h)
             f == [i \in 1 .. n |-> [time |-> h[i].time, packet |-> h[i].packet]]
  <1>1. DOMAIN h = 1 .. n /\ n \in Nat
    BY ContentsFacts
  <1>2. Bundles(h) = {Bundle(x) : x \in Entries(h)}
    BY <1>1 DEF Bundles, Bundle, Entries
  <1>3. f \in Surjection(1 .. n, Bundles(h))
    BY <1>1 DEF Surjection, Bundles
  <1> HIDE DEF f
  <1>4. IsFiniteSet(1 .. n) /\ Cardinality(1 .. n) = n
    <2>1. n \in Nat /\ n \in Int /\ 1 \in Int
      BY <1>1
    <2> HIDE DEF n
    <2>2. IsFiniteSet(1 .. n) /\ Cardinality(1 .. n) = IF 1 > n THEN 0 ELSE n - 1 + 1
      BY <2>1, FS_Interval
    <2> QED BY <2>1, <2>2
  <1>5. IsFiniteSet(Bundles(h)) /\ Cardinality(Bundles(h)) <= n
    BY <1>3, <1>4, FS_Surjection
  <1>6. Cardinality(Bundles(h)) \in Nat
    BY <1>5, FS_CardinalityType
  <1> QED BY <1>2, <1>5, <1>6 DEF Bundle

LEMMA NoBundles == Bundles(<<>>) = {}
  BY DEF Bundles

(* The abstract steps, in the terms of Scheduler.                          *)
LEMMA AbstractStutter ==
  ASSUME Bundles(heap') = Bundles(heap), Done' = Done, blockEnd' = blockEnd
  PROVE  UNCHANGED Abstract!vars
  BY DEF Abstract!vars, Bundles, Done

LEMMA SameCardinality == ASSUME NEW S PROVE Abstract!Cardinality(S) = Cardinality(S)
  BY Zenon DEF Abstract!Cardinality, Cardinality

LEMMA AbstractSchedule ==
  ASSUME NEW p \in Packets, NEW t \in 0 .. MaxTime + NumBufs * oscInc,
         Cardinality(Bundles(heap)) < Limit,
         \A f \in Bundles(heap) : f.packet # p,
         p \notin Done,
         Bundles(heap') = Bundles(heap) \cup {[time |-> t, packet |-> p]},
         Done' = Done, blockEnd' = blockEnd
  PROVE  Abstract!Next
  <1>1. Abstract!Schedule([time |-> t, packet |-> p])
    <2> DEFINE e == [time |-> t, packet |-> p]
    <2>1. e.packet = p
      OBVIOUS
    <2> HIDE DEF e
    <2>2. /\ Cardinality(Bundles(heap)) < Limit /\ \A f \in Bundles(heap) : f.packet # e.packet
          /\ e.packet \notin Done /\ Bundles(heap') = Bundles(heap) \cup {e}
          /\ Done' = Done /\ blockEnd' = blockEnd
      BY <2>1 DEF e
    <2>3. /\ Abstract!Cardinality({[time |-> heap[i].time, packet |-> heap[i].packet] : i \in DOMAIN heap})
             < Limit
          /\ UNCHANGED <<{q \in Packets : fate[q] = "performed"}, blockEnd>>
      BY <2>2, SameCardinality, Zenon DEF Bundles, Done
    <2>4. /\ \A f \in {[time |-> heap[i].time, packet |-> heap[i].packet] : i \in DOMAIN heap} :
                f.packet # e.packet
          /\ e.packet \notin {q \in Packets : fate[q] = "performed"}
          /\ {[time |-> heap'[i].time, packet |-> heap'[i].packet] : i \in DOMAIN heap'}
             = {[time |-> heap[i].time, packet |-> heap[i].packet] : i \in DOMAIN heap} \cup {e}
      BY <2>2, Zenon DEF Bundles, Done
    <2>5. Abstract!Schedule(e)
      BY <2>3, <2>4, Zenon DEF Abstract!Schedule
    <2> QED BY <2>5 DEF e
  <1> QED BY <1>1 DEF Abstract!Next

LEMMA AbstractPerformNext ==
  ASSUME NEW e \in Bundles(heap), \A f \in Bundles(heap) : e.time <= f.time,
         Bundles(heap') \in {Bundles(heap) \ {e}, {}},
         Done' = Done \cup {e.packet}, blockEnd' = blockEnd
  PROVE  Abstract!Next
  <1>1. Abstract!PerformNext(e)
    BY DEF Abstract!PerformNext, Bundles, Done
  <1> QED BY <1>1 DEF Abstract!Next, Bundles

LEMMA AbstractPerformAtOnce ==
  ASSUME NEW p \in Packets, p \notin Done, Bundles(heap') \in {Bundles(heap), {}},
         Done' = Done \cup {p}, blockEnd' = blockEnd
  PROVE  Abstract!Next
  <1>1. Abstract!PerformAtOnce(p)
    BY DEF Abstract!PerformAtOnce, Bundles, Done
  <1> QED BY <1>1 DEF Abstract!Next

LEMMA AbstractBlock ==
  ASSUME NEW t \in 0 .. MaxTime + NumBufs * oscInc, \A e \in Bundles(heap) : e.time > t,
         Bundles(heap') = Bundles(heap), Done' = Done, blockEnd' = t
  PROVE  Abstract!Next
  <1>1. Abstract!Block(t)
    BY DEF Abstract!Block, Bundles, Done
  <1> QED BY <1>1 DEF Abstract!Next

(* What performing a packet adds to Done, and adding an event does not.    *)
LEMMA EffectDone ==
  ASSUME IInv, NEW p \in Packets, NEW h, HeapInOrder(h), Entries(h) \subseteq Entries(heap),
         p \notin Contents(h), Len(h) <= Limit, Effect(p, h)
  PROVE  Done' = Done \cup {p} /\ Bundles(heap') \in {Bundles(h), {}}
  <1>1. /\ heap' \in {h, <<>>} /\ fate'[p] = "performed"
        /\ \A q \in Packets : q # p /\ q \notin Contents(h) => fate'[q] = fate[q]
        /\ \A q \in Packets : q # p /\ q \in Contents(h) =>
               fate[q] = "sent" /\ fate'[q] \in {"sent", "dropped"}
    BY EffectFacts
  <1>2. \A q \in Packets : q # p => (fate'[q] = "performed" <=> fate[q] = "performed")
    BY <1>1
  <1> QED BY <1>1, <1>2, NoBundles DEF Done

LEMMA AddEventAbstract ==
  ASSUME IInv, NEW p \in Packets, p \notin Contents(heap), fate[p] \in {"unsent", "sent"},
         NEW t \in 1 .. MaxTime,
         NEW func \in {"FreeInRT", "FreeInNRT"}, func = "FreeInRT" <=> p \in Completions,
         AddEvent(p, t, func), blockEnd' = blockEnd
  PROVE  Abstract!Next \/ UNCHANGED Abstract!vars
  <1> DEFINE e == [time |-> t, packet |-> p, free |-> func]
  <1>1. /\ \A q \in Packets : q # p => fate'[q] = fate[q]
        /\ HeapInOrder(heap') /\ HeapInOrder(heap)
        /\ \/ /\ heap' = heap /\ leaked' = leaked \cup {p} /\ fate'[p] = "dropped"
           \/ /\ Len(heap) < Limit /\ leaked' = leaked /\ fate'[p] = "sent"
              /\ Contents(heap') = Contents(heap) \cup {p}
              /\ Entries(heap') = Entries(heap) \cup {e}
    BY AddEventFacts, StateFacts
  <1>2. Done' = Done /\ p \notin Done
    <2>1. \A q \in Packets : fate'[q] = "performed" <=> fate[q] = "performed"
      BY <1>1
    <2> QED BY <2>1 DEF Done
  <1>3. CASE heap' = heap
    BY <1>2, <1>3, AbstractStutter
  <1>4. CASE Len(heap) < Limit /\ Entries(heap') = Entries(heap) \cup {e}
    <2>1. Bundle(e) = [time |-> t, packet |-> p]
      BY DEF Bundle
    <2>2. /\ Bundles(heap) = {Bundle(x) : x \in Entries(heap)}
          /\ \A x \in Entries(heap) : Bundle(x).packet = x.packet
          /\ Cardinality(Bundles(heap)) \in Nat /\ Cardinality(Bundles(heap)) <= Len(heap)
          /\ Bundles(heap') = {Bundle(x) : x \in Entries(heap')}
      BY <1>1, BundlesFacts
    <2> HIDE DEF e
    <2>3. Bundles(heap') = Bundles(heap) \cup {[time |-> t, packet |-> p]}
      BY <1>4, <2>1, <2>2
    <2>4. \A f \in Bundles(heap) : f.packet # p
      BY <1>1, <2>2, ContentsFacts
    <2>5. Cardinality(Bundles(heap)) < Limit
      BY <1>1, <1>4, <2>2, Constants, ContentsFacts
    <2>6. t \in 0 .. MaxTime + NumBufs * oscInc
      <3>1. NumBufs * oscInc \in Nat
        BY Constants
      <3> QED BY <3>1, Constants
    <2> QED BY <1>2, <2>3, <2>4, <2>5, <2>6, AbstractSchedule
  <1> QED BY <1>1, <1>3, <1>4

LEMMA InitAbstract == Init => Abstract!Init
  BY NoBundles DEF Init, Abstract!Init, Bundles, Done

LEMMA SendAbstract ==
  ASSUME IInv, NEW p \in NetPackets, NEW t, NEW caller, Send(p, t, caller)
  PROVE  UNCHANGED Abstract!vars
  <1>1. /\ heap' = heap /\ blockEnd' = blockEnd /\ fate[p] = "unsent" /\ p \in Packets
        /\ \E s \in {"refused", "sent"} : fate' = [fate EXCEPT ![p] = s]
    BY Constants DEF Send, Arrives, clock
  <1>2. \A q \in Packets : fate'[q] = "performed" <=> fate[q] = "performed"
    BY <1>1 DEF IInv, Types
  <1> QED BY <1>1, <1>2, AbstractStutter DEF Done

LEMMA PerformsAbstract ==
  ASSUME IInv, NEW p \in Packets, p \notin Contents(heap), fate[p] \in {"unsent", "sent"},
         Effect(p, heap), blockEnd' = blockEnd
  PROVE  Abstract!Next
  <1>1. Done' = Done \cup {p} /\ Bundles(heap') \in {Bundles(heap), {}}
    BY EffectDone, StateFacts
  <1>2. p \notin Done
    BY DEF Done
  <1> QED BY <1>1, <1>2, AbstractPerformAtOnce

LEMMA CompleteAbstract ==
  ASSUME IInv, NEW p \in Completions, NEW t \in 1 .. MaxTime, Complete(p, t)
  PROVE  Abstract!Next \/ UNCHANGED Abstract!vars
  <1>1. p \in Packets /\ fate[p] = "unsent" /\ blockEnd' = blockEnd
    BY Constants DEF Complete, Arrives, clock
  <1>2. p \notin Contents(heap)
    BY <1>1, Unsent
  <1>3. CASE p \in Timeless
    BY <1>1, <1>2, <1>3, PerformsAbstract DEF Complete
  <1>4. CASE p \notin Timeless
    <2>1. AddEvent(p, t, "FreeInRT")
      BY <1>4 DEF Complete
    <2> QED BY <1>1, <1>2, <2>1, AddEventAbstract
  <1> QED BY <1>3, <1>4

LEMMA PerformPacketAbstract ==
  ASSUME IInv, PerformPacket
  PROVE  Abstract!Next \/ UNCHANGED Abstract!vars
  <1> DEFINE u == Undone(inbox)
             p == inbox[u].packet
  <1>1. u # 0 /\ blockEnd' = blockEnd
    BY DEF PerformPacket, clock
  <1>2. u \in 1 .. Len(inbox) /\ ~inbox[u].done
    BY <1>1, StateFacts, UndoneFacts
  <1>3. /\ p \in NetPackets /\ p \in Packets /\ p \notin Completions
        /\ p \in Owners(inbox) /\ fate[p] = "sent"
    BY <1>2, StateFacts, Constants DEF Owners, Fifo
  <1>4. p \notin Contents(heap)
    BY <1>3, StateFacts DEF Partition
  <1>5. CASE p \in Timeless
    <2>1. Effect(p, heap)
      BY <1>5 DEF PerformPacket
    <2> HIDE DEF p
    <2> QED BY <1>1, <1>3, <1>4, <2>1, PerformsAbstract
  <1>6. CASE p \notin Timeless
    <2>1. AddEvent(p, stamp[p], "FreeInNRT") /\ stamp[p] \in 1 .. MaxTime
      BY <1>3, <1>6 DEF PerformPacket, IInv, Types
    <2> HIDE DEF p
    <2> QED BY <1>1, <1>3, <1>4, <2>1, AddEventAbstract
  <1> QED BY <1>5, <1>6

LEMMA PerformDueAbstract == ASSUME IInv, PerformDue PROVE Abstract!Next
  <1> DEFINE e == Head(heap)
             rest == HeapRemove(heap)
  <1>1. heap # <<>> /\ Effect(e.packet, rest) /\ blockEnd' = blockEnd
    BY DEF PerformDue, clock
  <1>2. /\ e \in Entries(heap) /\ e.packet \in Packets
        /\ HeapInOrder(rest) /\ Len(rest) <= Limit
        /\ Entries(rest) = Entries(heap) \ {e}
        /\ e.packet \in Contents(heap) /\ Contents(rest) = Contents(heap) \ {e.packet}
        /\ \A x \in Entries(heap) : e.time <= x.time
    BY <1>1, HeadFacts
  <1> HIDE DEF e, rest
  <1>3. Done' = Done \cup {e.packet} /\ Bundles(heap') \in {Bundles(rest), {}}
    BY <1>1, <1>2, EffectDone
  <1>4. /\ Bundles(heap) = {Bundle(x) : x \in Entries(heap)}
        /\ \A x \in Entries(heap) : Bundle(x).time = x.time /\ Bundle(x).packet = x.packet
        /\ Bundles(rest) = {Bundle(x) : x \in Entries(rest)}
    BY <1>2, StateFacts, BundlesFacts
  <1>5. \A x, y \in Entries(heap) : Bundle(x) = Bundle(y) => x = y
    BY <1>4, StateFacts, ContentsFacts
  <1>6. Bundles(rest) = Bundles(heap) \ {Bundle(e)}
    BY <1>2, <1>4, <1>5
  <1>7. /\ Bundle(e) \in Bundles(heap) /\ Bundle(e).packet = e.packet
        /\ \A f \in Bundles(heap) : Bundle(e).time <= f.time
    BY <1>2, <1>4
  <1> QED BY <1>1, <1>3, <1>6, <1>7, AbstractPerformNext

LEMMA RunBlockAbstract == ASSUME IInv, RunBlock PROVE Abstract!Next
  <1> DEFINE t == oscTime + oscInc
  <1>1. /\ heap # <<>> => ~(Head(heap).time <= t)
        /\ blockEnd' = t /\ heap' = heap /\ fate' = fate
    BY DEF RunBlock, Due
  <1>2. t \in 0 .. MaxTime + NumBufs * oscInc /\ t \in Nat
    <2>1. oscTime \in Nat
      BY DEF IInv, Types
    <2> QED BY <2>1, RunBlockFacts, Constants
  <1> HIDE DEF t
  <1>3. ASSUME NEW e \in Bundles(heap) PROVE e.time > t
    <2>1. PICK x \in Entries(heap) : e = Bundle(x) /\ e.time = x.time
      BY StateFacts, BundlesFacts
    <2>2. heap # <<>>
      BY <2>1, NoEntries
    <2>3. /\ Head(heap) \in Events /\ Head(heap).time <= x.time
      BY <2>1, <2>2, HeadFacts
    <2>4. Head(heap).time \in Nat /\ x.time \in Nat
      BY <2>1, <2>3, StateFacts, ContentsFacts, EventFacts
    <2> QED BY <1>1, <1>2, <2>1, <2>2, <2>3, <2>4
  <1>4. Done' = Done
    BY <1>1 DEF Done
  <1> QED BY <1>1, <1>2, <1>3, <1>4, AbstractBlock

LEMMA QuietAbstract ==
  ASSUME heap' = heap, fate' = fate, blockEnd' = blockEnd
  PROVE  UNCHANGED Abstract!vars
  BY AbstractStutter DEF Done

LEMMA StepAbstract == IInv /\ [Next]_vars => [Abstract!Next]_(Abstract!vars)
  <1> SUFFICES ASSUME IInv, [Next]_vars PROVE Abstract!Next \/ UNCHANGED Abstract!vars
    OBVIOUS
  <1>1. CASE UNCHANGED vars
    BY <1>1, QuietAbstract DEF vars, clock
  <1>2. ASSUME NEW p \in NetPackets, NEW t \in 1 .. MaxTime, NEW c \in {"port", "process"},
               Send(p, t, c)
        PROVE  UNCHANGED Abstract!vars
    BY <1>2, SendAbstract
  <1>3. ASSUME NEW p \in Completions, NEW t \in 1 .. MaxTime, Complete(p, t)
        PROVE  Abstract!Next \/ UNCHANGED Abstract!vars
    BY <1>3, CompleteAbstract
  <1>4. ASSUME NEW t \in 0 .. MaxTime, Callback(t) PROVE UNCHANGED Abstract!vars
    BY <1>4, QuietAbstract DEF Callback
  <1>5. CASE ToEngineDone
    BY <1>5, QuietAbstract DEF ToEngineDone, clock
  <1>6. CASE PerformPacket
    BY <1>6, PerformPacketAbstract
  <1>7. CASE PacketsDone
    BY <1>7, QuietAbstract DEF PacketsDone, clock
  <1>8. CASE PerformDue
    BY <1>8, PerformDueAbstract
  <1>9. CASE RunBlock
    BY <1>9, RunBlockAbstract
  <1>10. CASE FreeOSCPacket
    BY <1>10, QuietAbstract DEF FreeOSCPacket, clock
  <1> QED
    BY <1>1, <1>2, <1>3, <1>4, <1>5, <1>6, <1>7, <1>8, <1>9, <1>10 DEF Next, Audio

(* The heap, the two fifos and the callback do what BundleQueue promises:  *)
(* the earliest bundle first, none left behind by the block it is due in,  *)
(* for any number of bundles with any times and any room in the heap.      *)
THEOREM SchedulerIsBundleQueue == Spec => ImplementsBundleQueue
  <1>1. Init => Abstract!Init
    BY InitAbstract
  <1>2. IInv /\ [Next]_vars => [Abstract!Next]_(Abstract!vars)
    BY StepAbstract
  <1> QED BY <1>1, <1>2, Invariance, PTL DEF Spec, ImplementsBundleQueue, Abstract!Spec

=============================================================================
