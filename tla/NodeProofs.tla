----------------------------- MODULE NodeProofs -----------------------------
(***************************************************************************)
(* Proofs about NodeTree, NodeCommands and NodeCalc, for any number of     *)
(* groups and synths and clients that are Careful: whatever commands and   *)
(* done actions do, the links are those of one tree below the root, and a  *)
(* traversal that is under way in it stays in order.                       *)
(*                                                                         *)
(* First what the functions on links do to the fields, then that each      *)
(* keeps the tree (KeptTree), then the commands (IInv), the walk over the  *)
(* children of a group, the ordered tree the commands promise (NodeOrder), *)
(* and the calculation of a block (CInv).  Finite sets, walks and folds    *)
(* are reasoned about through a least counterexample (MinSubset,           *)
(* LeastNat).                                                              *)
(***************************************************************************)
EXTENDS NodeCalc, TLAPS, FiniteSetTheorems, SequenceTheorems, WellFoundedInduction

-----------------------------------------------------------------------------
(* What each operator does to the fields of a tree.                        *)
LEMMA Types ==
  ASSUME NEW t \in TreeType
  PROVE  /\ t.live \subseteq Node /\ Nil \notin Node /\ Groups \subseteq Node /\ Root \in Node
         /\ t.mParent \in [Node -> Groups \cup {Nil}]
         /\ t.mPrev \in [Node -> Node \cup {Nil}] /\ t.mNext \in [Node -> Node \cup {Nil}]
         /\ t.mHead \in [Groups -> Node \cup {Nil}] /\ t.mTail \in [Groups -> Node \cup {Nil}]
  BY NilAssumption, RootAssumption DEF TreeType, Node

(* u is t with s put between p and n in group g.                           *)
Placed(t, u, s, g, p, n) ==
    /\ u \in TreeType /\ u.live = t.live
    /\ \A x \in Node : /\ u.mParent[x] = IF x = s THEN g ELSE t.mParent[x]
                       /\ u.mPrev[x] = IF x = s THEN p ELSE IF x = n THEN s ELSE t.mPrev[x]
                       /\ u.mNext[x] = IF x = s THEN n ELSE IF x = p THEN s ELSE t.mNext[x]
    /\ \A x \in Groups : /\ u.mHead[x] = IF x = g /\ p = Nil THEN s ELSE t.mHead[x]
                         /\ u.mTail[x] = IF x = g /\ n = Nil THEN s ELSE t.mTail[x]

(* The same for the two ends of the link, and for the fields of s itself.  *)
Forward(t, u, g, p, v) ==
    /\ u \in TreeType /\ u.live = t.live
    /\ u.mParent = t.mParent /\ u.mPrev = t.mPrev /\ u.mTail = t.mTail
    /\ \A x \in Node : u.mNext[x] = IF x = p THEN v ELSE t.mNext[x]
    /\ \A x \in Groups : u.mHead[x] = IF x = g /\ p = Nil THEN v ELSE t.mHead[x]
Back(t, u, g, n, v) ==
    /\ u \in TreeType /\ u.live = t.live
    /\ u.mParent = t.mParent /\ u.mNext = t.mNext /\ u.mHead = t.mHead
    /\ \A x \in Node : u.mPrev[x] = IF x = n THEN v ELSE t.mPrev[x]
    /\ \A x \in Groups : u.mTail[x] = IF x = g /\ n = Nil THEN v ELSE t.mTail[x]
Own(t, s, g, p, n) == [t EXCEPT !.mParent[s] = g, !.mPrev[s] = p, !.mNext[s] = n]
Owned(t, u, s, g, p, n) ==
    /\ u \in TreeType /\ u.live = t.live /\ u.mHead = t.mHead /\ u.mTail = t.mTail
    /\ \A x \in Node : /\ u.mParent[x] = IF x = s THEN g ELSE t.mParent[x]
                       /\ u.mPrev[x] = IF x = s THEN p ELSE t.mPrev[x]
                       /\ u.mNext[x] = IF x = s THEN n ELSE t.mNext[x]

LEMMA ForwardFields ==
  ASSUME NEW t \in TreeType, NEW g \in Groups \cup {Nil}, NEW p \in Node \cup {Nil},
         NEW v \in Node \cup {Nil}
  PROVE  Forward(t, LinkForward(t, g, p, v), g, p, v)
  BY ZenonT(60), Types DEF LinkForward, Set, TreeType, Forward

LEMMA BackFields ==
  ASSUME NEW t \in TreeType, NEW g \in Groups \cup {Nil}, NEW n \in Node \cup {Nil},
         NEW v \in Node \cup {Nil}
  PROVE  Back(t, LinkBack(t, g, n, v), g, n, v)
  BY ZenonT(60), Types DEF LinkBack, Set, TreeType, Back

LEMMA OwnFields ==
  ASSUME NEW t \in TreeType, NEW s \in Node, NEW g \in Groups \cup {Nil},
         NEW p \in Node \cup {Nil}, NEW n \in Node \cup {Nil}
  PROVE  Owned(t, Own(t, s, g, p, n), s, g, p, n)
  BY Types DEF TreeType, Own, Owned

LEMMA PlaceFields ==
  ASSUME NEW t \in TreeType, NEW s \in Node, NEW g \in Groups,
         NEW p \in Node \cup {Nil}, NEW n \in Node \cup {Nil}
  PROVE  Placed(t, Place(t, s, g, p, n), s, g, p, n)
  <1>1. PICK v : v = LinkForward(t, g, p, s)
    OBVIOUS
  <1>2. Forward(t, v, g, p, s)
    BY <1>1, ForwardFields
  <1>3. PICK w : w = LinkBack(v, g, n, s)
    OBVIOUS
  <1>4. Back(v, w, g, n, s)
    BY <1>2, <1>3, BackFields DEF Forward
  <1>5. Owned(w, Own(w, s, g, p, n), s, g, p, n)
    BY <1>4, OwnFields DEF Back
  <1>6. Own(w, s, g, p, n) = Place(t, s, g, p, n)
    BY <1>1, <1>3 DEF Place, Own
  <1> QED BY <1>2, <1>4, <1>5, <1>6 DEF Forward, Back, Owned, Placed

(* u is t with s taken out of its place.                                   *)
Removed(t, u, s) ==
    /\ u \in TreeType /\ u.live = t.live
    /\ \A x \in Node :
          /\ u.mParent[x] = IF x = s THEN Nil ELSE t.mParent[x]
          /\ u.mPrev[x] = IF x = s THEN Nil
                          ELSE IF x = t.mNext[s] THEN t.mPrev[s] ELSE t.mPrev[x]
          /\ u.mNext[x] = IF x = s THEN Nil
                          ELSE IF x = t.mPrev[s] THEN t.mNext[s] ELSE t.mNext[x]
    /\ \A x \in Groups :
          /\ u.mHead[x] = IF x = t.mParent[s] /\ t.mPrev[s] = Nil THEN t.mNext[s]
                          ELSE t.mHead[x]
          /\ u.mTail[x] = IF x = t.mParent[s] /\ t.mNext[s] = Nil THEN t.mPrev[s]
                          ELSE t.mTail[x]

LEMMA RemoveFields ==
  ASSUME NEW t \in TreeType, NEW s \in Node
  PROVE  Removed(t, Node_Remove(t, s), s)
  <1>1. PICK g, p, n : g = t.mParent[s] /\ p = t.mPrev[s] /\ n = t.mNext[s]
    OBVIOUS
  <1>2. g \in Groups \cup {Nil} /\ p \in Node \cup {Nil} /\ n \in Node \cup {Nil}
    BY <1>1, Types
  <1>3. PICK v : v = LinkForward(t, g, p, n)
    OBVIOUS
  <1>4. Forward(t, v, g, p, n)
    BY <1>2, <1>3, ForwardFields
  <1>5. PICK w : w = LinkBack(v, g, n, p)
    OBVIOUS
  <1>6. Back(v, w, g, n, p)
    BY <1>2, <1>4, <1>5, BackFields DEF Forward
  <1>7. Owned(w, Own(w, s, Nil, Nil, Nil), s, Nil, Nil, Nil)
    BY <1>6, OwnFields DEF Back
  <1>8. Own(w, s, Nil, Nil, Nil) = Node_Remove(t, s)
    BY <1>1, <1>3, <1>5 DEF Node_Remove, Own
  <1> QED BY <1>1, <1>2, <1>4, <1>6, <1>7, <1>8 DEF Forward, Back, Owned, Removed

-----------------------------------------------------------------------------
(* What fails somewhere fails for the first time somewhere: the inductions *)
(* below are arguments from a least counterexample.                        *)
MinimalIn(X, C) == X \in C /\ \A Y \in C : Y \subseteq X => Y = X

LEMMA MinSubset ==
  ASSUME NEW S, IsFiniteSet(S), NEW C \in SUBSET (SUBSET S), C # {}
  PROVE  \E X : MinimalIn(X, C)
  <1>1. IsWellFoundedOn(StrictSubsetOrdering(S), FiniteSubsetsOf(S))
    BY FS_StrictSubsetOrderingWellFounded
  <1>2. C \subseteq FiniteSubsetsOf(S)
    BY FS_Subset DEF FiniteSubsetsOf
  <1>3. PICK X \in C : \A Y \in C : ~ (<<Y, X>> \in StrictSubsetOrdering(S))
    BY <1>1, <1>2, WFMin
  <1> QED BY <1>3 DEF StrictSubsetOrdering, MinimalIn

LEMMA LeastNat ==
  ASSUME NEW T, T \subseteq Nat, T # {}
  PROVE  \E m \in T : \A k \in T : m <= k
  <1>1. PICK n \in T : TRUE
    OBVIOUS
  <1> DEFINE C == {0 .. k : k \in T \cap (0 .. n)}
  <1>2. IsFiniteSet(0 .. n)
    BY <1>1, FS_Interval
  <1>3. C \in SUBSET (SUBSET (0 .. n)) /\ C # {}
    BY <1>1
  <1> HIDE DEF C
  <1>4. PICK X : MinimalIn(X, C)
    BY <1>2, <1>3, MinSubset
  <1>5. PICK m \in T \cap (0 .. n) : X = 0 .. m
    BY <1>4 DEF C, MinimalIn
  <1>6. ASSUME NEW k \in T, k < m PROVE FALSE
    <2>1. m \in Nat /\ k \in Nat /\ n \in Nat /\ k < m /\ m <= n
      BY <1>1, <1>5, <1>6
    <2>2. k \in T \cap (0 .. n)
      BY <2>1, <1>6
    <2>3. 0 .. k \in C
      BY <2>2 DEF C
    <2>4. 0 .. k \subseteq 0 .. m /\ m \notin 0 .. k /\ m \in 0 .. m
      BY <2>1
    <2> QED BY <1>4, <1>5, <2>3, <2>4 DEF MinimalIn
  <1> QED BY <1>5, <1>6

-----------------------------------------------------------------------------
(* No set of nodes is closed under "the sibling before": the lists have a  *)
(* beginning.  The links of neighbours alone do not say so, and the tree   *)
(* operations need it, because a ring of siblings that loses a node may    *)
(* end as one node that is its own sibling.                                *)
NoRing(t) ==
    \A D \in SUBSET t.live : D # {} => \E x \in D : t.mPrev[x] \notin D

GoodTree(t) ==
    /\ t \in TreeType /\ IsFiniteSet(t.live)
    /\ Root \in t.live /\ t.mParent[Root] = Nil
    /\ WellLinked(t) /\ NoRing(t)

(* Between p and n, neighbours in the list of g, there is nothing.         *)
Gap(t, g, p, n) ==
    /\ g \in Groups \cap t.live /\ p \in t.live \cup {Nil} /\ n \in t.live \cup {Nil}
    /\ IF p = Nil THEN t.mHead[g] = n ELSE t.mParent[p] = g /\ t.mNext[p] = n
    /\ IF n = Nil THEN t.mTail[g] = p ELSE t.mParent[n] = g /\ t.mPrev[n] = p

(* A node without a place that gets one in a gap keeps the tree good.      *)
LEMMA PlaceLinked ==
  ASSUME NEW t \in TreeType, WellLinked(t), NEW s \in t.live, t.mParent[s] = Nil,
         NEW g, NEW p, NEW n, Gap(t, g, p, n), NEW u, Placed(t, u, s, g, p, n)
  PROVE  WellLinked(u)
  <1> USE Types DEF WellLinked, Placed, Gap
  <1>1. t.mPrev[s] = Nil /\ t.mNext[s] = Nil /\ p # s /\ n # s
    BY DEF LooseHasNoSibling
  <1>2. \A x \in t.live : t.mPrev[x] # s /\ t.mNext[x] # s
    BY <1>1 DEF NextAgrees, PrevAgrees
  <1>3. FreedIsUnlinked(u)
    BY DEF FreedIsUnlinked
  <1>4. ParentIsLive(u)
    BY DEF ParentIsLive
  <1>5. LooseHasNoSibling(u)
    BY SMTT(40) DEF LooseHasNoSibling
  <1>6. NextAgrees(u)
    BY <1>1, <1>2 DEF NextAgrees, PrevAgrees, FirstIsHead
  <1>7. PrevAgrees(u)
    BY <1>1, <1>2 DEF NextAgrees, PrevAgrees, LastIsTail
  <1>8. FirstIsHead(u)
    BY <1>1, <1>2 DEF FirstIsHead
  <1>9. LastIsTail(u)
    BY <1>1, <1>2 DEF LastIsTail
  <1>10. HeadIsFirst(u)
    BY <1>1, <1>2 DEF HeadIsFirst
  <1>11. TailIsLast(u)
    BY <1>1, <1>2 DEF TailIsLast
  <1>12. BothEndsOrNone(u)
    BY <1>1 DEF BothEndsOrNone
  <1> QED BY <1>3, <1>4, <1>5, <1>6, <1>7, <1>8, <1>9, <1>10, <1>11, <1>12

LEMMA PlaceNoRing ==
  ASSUME NEW t \in TreeType, WellLinked(t), NoRing(t), NEW s \in t.live, t.mParent[s] = Nil,
         NEW g, NEW p, NEW n, Gap(t, g, p, n), NEW u, Placed(t, u, s, g, p, n)
  PROVE  NoRing(u)
  <1>1. SUFFICES ASSUME NEW D \in SUBSET t.live, D # {}, \A x \in D : u.mPrev[x] \in D
                 PROVE  FALSE
    BY DEF NoRing, Placed
  <1>2. t.mPrev[s] = Nil /\ t.mNext[s] = Nil /\ p # s /\ n # s /\ \A x \in t.live : t.mPrev[x] # s
    BY Types DEF LooseHasNoSibling, NextAgrees, PrevAgrees, WellLinked, Gap
  <1>3. CASE s \notin D
    BY <1>1, <1>2, <1>3, Types DEF Placed, NoRing
  <1>4. CASE s \in D
    <2>1. p \in D \ {s}
      BY <1>1, <1>2, <1>4, Types DEF Placed
    <2>2. \A x \in D \ {s} : t.mPrev[x] \in D \ {s}
      <3> TAKE x \in D \ {s}
      <3>1. CASE x = n
        BY <2>1, <3>1, Types DEF Gap
      <3>2. CASE x # n
        BY <1>1, <1>2, <3>2, Types DEF Placed
      <3> QED BY <3>1, <3>2
    <2> QED BY <2>1, <2>2 DEF NoRing
  <1> QED BY <1>3, <1>4

LEMMA RemoveLinked ==
  ASSUME NEW t \in TreeType, WellLinked(t), NEW s \in t.live, NEW u, Removed(t, u, s)
  PROVE  WellLinked(u)
  <1> USE Types DEF WellLinked, Removed
  <1>1. PICK g, p, n : g = t.mParent[s] /\ p = t.mPrev[s] /\ n = t.mNext[s]
    OBVIOUS
  <1>2. /\ g \in Groups \cup {Nil} /\ p \in Node \cup {Nil} /\ n \in Node \cup {Nil}
        /\ g = Nil => p = Nil /\ n = Nil
    BY <1>1 DEF LooseHasNoSibling
  <1>3. FreedIsUnlinked(u)
    BY <1>1, <1>2 DEF FreedIsUnlinked, ParentIsLive, NextAgrees, PrevAgrees
  <1>4. ParentIsLive(u)
    BY DEF ParentIsLive
  <1>5. LooseHasNoSibling(u)
    BY <1>1, <1>2 DEF LooseHasNoSibling, NextAgrees, PrevAgrees
  <1>6. NextAgrees(u)
    BY <1>1, <1>2 DEF NextAgrees, PrevAgrees
  <1>7. PrevAgrees(u)
    BY <1>1, <1>2 DEF NextAgrees, PrevAgrees
  <1>8. FirstIsHead(u)
    BY <1>1, <1>2 DEF FirstIsHead, NextAgrees, PrevAgrees
  <1>9. LastIsTail(u)
    BY <1>1, <1>2 DEF LastIsTail, NextAgrees, PrevAgrees
  <1>10. HeadIsFirst(u)
    BY <1>1, <1>2 DEF HeadIsFirst, NextAgrees, PrevAgrees
  <1>11. TailIsLast(u)
    BY <1>1, <1>2 DEF TailIsLast, NextAgrees, PrevAgrees
  <1>12. BothEndsOrNone(u)
    BY <1>1, <1>2 DEF BothEndsOrNone, NextAgrees, PrevAgrees, FirstIsHead, LastIsTail
  <1> QED BY <1>3, <1>4, <1>5, <1>6, <1>7, <1>8, <1>9, <1>10, <1>11, <1>12

LEMMA RemoveNoRing ==
  ASSUME NEW t \in TreeType, WellLinked(t), NoRing(t), NEW s \in t.live,
         NEW u, Removed(t, u, s)
  PROVE  NoRing(u)
  <1>1. SUFFICES ASSUME NEW D \in SUBSET t.live, D # {}, \A x \in D : u.mPrev[x] \in D
                 PROVE  FALSE
    BY DEF NoRing, Removed
  <1>2. s \notin D
    BY <1>1, Types DEF Removed
  <1>3. CASE t.mNext[s] \in D
    <2>1. \A x \in D \cup {s} : t.mPrev[x] \in D \cup {s}
      <3> TAKE x \in D \cup {s}
      <3>1. CASE x = s
        BY <1>1, <1>2, <1>3, <3>1, Types DEF Removed
      <3>2. CASE x = t.mNext[s]
        BY <3>2, Types DEF WellLinked, NextAgrees
      <3>3. CASE x # s /\ x # t.mNext[s]
        BY <1>1, <3>3, Types DEF Removed
      <3> QED BY <3>1, <3>2, <3>3
    <2> QED BY <2>1 DEF NoRing
  <1>4. CASE t.mNext[s] \notin D
    <2>1. \A x \in D : t.mPrev[x] \in D
      BY <1>1, <1>2, <1>4, Types DEF Removed
    <2> QED BY <1>1, <2>1 DEF NoRing
  <1> QED BY <1>3, <1>4

-----------------------------------------------------------------------------
(* u is t without the nodes of D, and with no child left in g.             *)
Forgotten(t, u, D, g) ==
    /\ u \in TreeType /\ u.live = t.live \ D
    /\ \A x \in Node : /\ u.mParent[x] = IF x \in D THEN Nil ELSE t.mParent[x]
                       /\ u.mPrev[x] = IF x \in D THEN Nil ELSE t.mPrev[x]
                       /\ u.mNext[x] = IF x \in D THEN Nil ELSE t.mNext[x]
    /\ \A x \in Groups : /\ u.mHead[x] = IF x \in D \/ x = g THEN Nil ELSE t.mHead[x]
                         /\ u.mTail[x] = IF x \in D \/ x = g THEN Nil ELSE t.mTail[x]

LEMMA ForgetFields ==
  ASSUME NEW t \in TreeType, NEW D
  PROVE  Forgotten(t, Forget(t, D), D, Nil)
  BY Types DEF Forget, Forgotten, TreeType

LEMMA DeleteAllFields ==
  ASSUME NEW t \in TreeType, NEW g \in Groups
  PROVE  Forgotten(t, Group_DeleteAll(t, g), Below(t, g) \ {g}, g)
  <1>1. PICK D : D = Below(t, g) \ {g}
    OBVIOUS
  <1>2. PICK u : u = Forget(t, D)
    OBVIOUS
  <1>3. Forgotten(t, u, D, Nil)
    BY <1>2, ForgetFields
  <1>4. PICK w : w = [u EXCEPT !.mHead[g] = Nil, !.mTail[g] = Nil]
    OBVIOUS
  <1>5. /\ w \in TreeType /\ w.live = u.live
        /\ w.mParent = u.mParent /\ w.mPrev = u.mPrev /\ w.mNext = u.mNext
        /\ \A x \in Groups : /\ w.mHead[x] = IF x = g THEN Nil ELSE u.mHead[x]
                             /\ w.mTail[x] = IF x = g THEN Nil ELSE u.mTail[x]
    BY <1>3, <1>4, Types DEF Forgotten, TreeType
  <1>6. Forgotten(t, w, D, g)
    BY <1>3, <1>5, Types DEF Forgotten
  <1> QED BY <1>1, <1>2, <1>4, <1>6 DEF Group_DeleteAll

(* D is all that is below D or g, and hangs from nothing else.             *)
Severed(t, D, g) ==
    /\ D \subseteq t.live /\ g \notin D
    /\ \A x \in t.live : t.mParent[x] \in D \/ (t.mParent[x] = g /\ g # Nil) => x \in D
    /\ \A x \in D : t.mParent[x] \in D \cup {g, Nil}

LEMMA ForgetLinked ==
  ASSUME NEW t \in TreeType, WellLinked(t), NEW D, NEW g, Severed(t, D, g),
         NEW u, Forgotten(t, u, D, g)
  PROVE  WellLinked(u)
  <1> USE Types DEF WellLinked, Forgotten, Severed
  <1>1. \A x \in t.live \ D : t.mPrev[x] \notin D /\ t.mNext[x] \notin D
    BY DEF NextAgrees, PrevAgrees, LooseHasNoSibling
  <1>2. \A x \in Groups \cap (t.live \ D) : x # g => t.mHead[x] \notin D /\ t.mTail[x] \notin D
    BY DEF HeadIsFirst, TailIsLast
  <1>3. FreedIsUnlinked(u)
    BY DEF FreedIsUnlinked
  <1>4. ParentIsLive(u)
    BY DEF ParentIsLive
  <1>5. LooseHasNoSibling(u)
    BY DEF LooseHasNoSibling
  <1>6. NextAgrees(u)
    BY <1>1 DEF NextAgrees
  <1>7. PrevAgrees(u)
    BY <1>1 DEF PrevAgrees
  <1>8. FirstIsHead(u)
    BY <1>1 DEF FirstIsHead
  <1>9. LastIsTail(u)
    BY <1>1 DEF LastIsTail
  <1>10. HeadIsFirst(u)
    BY <1>2 DEF HeadIsFirst
  <1>11. TailIsLast(u)
    BY <1>2 DEF TailIsLast
  <1>12. BothEndsOrNone(u)
    BY DEF BothEndsOrNone
  <1> QED BY <1>3, <1>4, <1>5, <1>6, <1>7, <1>8, <1>9, <1>10, <1>11, <1>12

LEMMA ForgetNoRing ==
  ASSUME NEW t \in TreeType, NoRing(t), NEW D, NEW g, NEW u, Forgotten(t, u, D, g)
  PROVE  NoRing(u)
  <1>1. SUFFICES ASSUME NEW E \in SUBSET (t.live \ D), E # {}, \A x \in E : u.mPrev[x] \in E
                 PROVE  FALSE
    BY DEF NoRing, Forgotten
  <1>2. \A x \in E : t.mPrev[x] \in E
    BY <1>1, Types DEF Forgotten
  <1> QED BY <1>1, <1>2 DEF NoRing

(* r hands its links over to s, which had none: nothing else moves.        *)
LEMMA HandOverLinked ==
  ASSUME NEW t \in TreeType, WellLinked(t), NoRing(t), NEW s \in t.live, NEW r \in t.live,
         t.mParent[s] = Nil, t.mParent[r] # Nil,
         NEW u, Placed(t, u, s, t.mParent[r], t.mPrev[r], t.mNext[r]),
         NEW w, Owned(u, w, r, Nil, Nil, Nil)
  PROVE  WellLinked(w)
  <1> USE Types DEF WellLinked
  <1>1. PICK g, p, n : g = t.mParent[r] /\ p = t.mPrev[r] /\ n = t.mNext[r]
    OBVIOUS
  <1>2. /\ t.mPrev[s] = Nil /\ t.mNext[s] = Nil /\ p # s /\ n # s /\ r # s
        /\ \A x \in t.live : t.mPrev[x] # s /\ t.mNext[x] # s
    BY <1>1 DEF LooseHasNoSibling, NextAgrees, PrevAgrees
  <1>3. p # r /\ n # r
    <2>1. t.mPrev[r] # r
      <3>1. SUFFICES ASSUME t.mPrev[r] = r PROVE FALSE
        OBVIOUS
      <3>2. \A x \in {r} : t.mPrev[x] \in {r}
        BY <3>1
      <3> QED BY ZenonT(60), <3>2 DEF NoRing
    <2> QED BY <1>1, <2>1 DEF NextAgrees
  <1>4. /\ w \in TreeType /\ w.live = t.live
        /\ \A x \in Node :
              /\ w.mParent[x] = IF x = r THEN Nil ELSE IF x = s THEN g ELSE t.mParent[x]
              /\ w.mPrev[x] = IF x = r THEN Nil ELSE IF x = s THEN p
                              ELSE IF x = n THEN s ELSE t.mPrev[x]
              /\ w.mNext[x] = IF x = r THEN Nil ELSE IF x = s THEN n
                              ELSE IF x = p THEN s ELSE t.mNext[x]
        /\ \A x \in Groups : /\ w.mHead[x] = IF x = g /\ p = Nil THEN s ELSE t.mHead[x]
                             /\ w.mTail[x] = IF x = g /\ n = Nil THEN s ELSE t.mTail[x]
    BY <1>1, <1>2, <1>3 DEF Placed, Owned
  <1>5. /\ g \in Groups \cap t.live /\ p \in t.live \cup {Nil} /\ n \in t.live \cup {Nil}
        /\ p # Nil => t.mNext[p] = r /\ t.mParent[p] = g
        /\ n # Nil => t.mPrev[n] = r /\ t.mParent[n] = g
        /\ p = Nil => t.mHead[g] = r
        /\ n = Nil => t.mTail[g] = r
        /\ g # Nil
    BY <1>1 DEF ParentIsLive, NextAgrees, PrevAgrees, FirstIsHead, LastIsTail
  <1>6. FreedIsUnlinked(w)
    BY <1>4, <1>5 DEF FreedIsUnlinked
  <1>7. ParentIsLive(w)
    BY <1>4, <1>5 DEF ParentIsLive
  <1>8. LooseHasNoSibling(w)
    BY <1>2, <1>3, <1>4, <1>5 DEF LooseHasNoSibling
  <1>9. NextAgrees(w)
    BY <1>1, <1>2, <1>3, <1>4, <1>5 DEF NextAgrees, PrevAgrees
  <1>10. PrevAgrees(w)
    BY <1>1, <1>2, <1>3, <1>4, <1>5 DEF NextAgrees, PrevAgrees
  <1>11. FirstIsHead(w)
    BY <1>1, <1>2, <1>3, <1>4, <1>5 DEF FirstIsHead, NextAgrees, PrevAgrees
  <1>12. LastIsTail(w)
    BY <1>1, <1>2, <1>3, <1>4, <1>5 DEF LastIsTail, NextAgrees, PrevAgrees
  <1>13. HeadIsFirst(w)
    BY SMTT(40), <1>1, <1>2, <1>3, <1>4, <1>5 DEF HeadIsFirst, NextAgrees
  <1>14. TailIsLast(w)
    BY <1>1, <1>2, <1>3, <1>4, <1>5 DEF TailIsLast, PrevAgrees
  <1>15. BothEndsOrNone(w)
    BY <1>1, <1>2, <1>3, <1>4, <1>5 DEF BothEndsOrNone, FirstIsHead, LastIsTail
  <1> QED BY <1>6, <1>7, <1>8, <1>9, <1>10, <1>11, <1>12, <1>13, <1>14, <1>15

LEMMA HandOverNoRing ==
  ASSUME NEW t \in TreeType, WellLinked(t), NoRing(t), NEW s \in t.live, NEW r \in t.live,
         t.mParent[s] = Nil, t.mParent[r] # Nil,
         NEW u, Placed(t, u, s, t.mParent[r], t.mPrev[r], t.mNext[r]),
         NEW w, Owned(u, w, r, Nil, Nil, Nil)
  PROVE  NoRing(w)
  <1>1. SUFFICES ASSUME NEW D \in SUBSET t.live, D # {}, \A x \in D : w.mPrev[x] \in D
                 PROVE  FALSE
    BY DEF NoRing, Placed, Owned
  <1>2. /\ t.mPrev[s] = Nil /\ t.mNext[s] = Nil /\ r # s
        /\ \A x \in t.live : t.mPrev[x] # s /\ t.mNext[x] # s
    BY Types DEF LooseHasNoSibling, NextAgrees, PrevAgrees, WellLinked
  <1>3. \A x \in t.live : t.mPrev[x] = r <=> (x = t.mNext[r])
    BY Types DEF WellLinked, NextAgrees, PrevAgrees
  <1>4. \A x \in t.live : w.mPrev[x] = IF x = r THEN Nil ELSE IF x = s THEN t.mPrev[r]
                                       ELSE IF x = t.mNext[r] THEN s ELSE t.mPrev[x]
    BY <1>2, Types DEF Placed, Owned
  <1>5. r \notin D
    BY <1>1, <1>4, Types
  <1>6. CASE s \notin D
    <2>1. \A x \in D : t.mPrev[x] \in D
      BY <1>1, <1>4, <1>5, <1>6, Types
    <2> QED BY <1>1, <2>1 DEF NoRing
  <1>7. CASE s \in D
    <2> DEFINE E == (D \ {s}) \cup {r}
    <2>1. \A x \in E : t.mPrev[x] \in E
      <3> TAKE x \in E
      <3>1. CASE x = r
        <4>1. w.mPrev[s] = t.mPrev[r]
          BY <1>2, <1>4
        <4> QED BY <1>1, <1>2, <1>7, <3>1, <4>1
      <3>2. CASE x = t.mNext[r] /\ x # r
        BY <1>3, <3>2
      <3>3. CASE x # t.mNext[r] /\ x # r
        BY <1>1, <1>2, <1>4, <3>3
      <3> QED BY <3>1, <3>2, <3>3
    <2>2. E \in SUBSET t.live /\ E # {}
      OBVIOUS
    <2> QED BY <2>1, <2>2 DEF NoRing
  <1> QED BY <1>6, <1>7

-----------------------------------------------------------------------------
(* What is below a node: it holds the node and every child of what it      *)
(* holds, and apart from the node nothing but such children.               *)
LEMMA BelowFacts ==
  ASSUME NEW t \in TreeType, NEW n \in t.live
  PROVE  /\ Below(t, n) \subseteq t.live /\ n \in Below(t, n)
         /\ Closed(t, Below(t, n))
         /\ \A x \in Below(t, n) : x # n => t.mParent[x] \in Below(t, n)
         /\ \A D \in SUBSET t.live : n \in D /\ Closed(t, D) => Below(t, n) \subseteq D
  <1> DEFINE B == Below(t, n)
  <1>1. B \subseteq t.live /\ n \in B
    BY DEF Below
  <1>2. \A D \in SUBSET t.live : n \in D /\ Closed(t, D) => B \subseteq D
    BY DEF Below
  <1>3. Closed(t, B)
    <2>1. SUFFICES ASSUME NEW x \in t.live, t.mParent[x] \in B,
                          NEW D \in SUBSET t.live, n \in D, Closed(t, D)
                   PROVE  x \in D
      BY DEF Below, Closed
    <2> QED BY <1>2, <2>1 DEF Closed
  <1>4. ASSUME NEW x \in B, x # n, t.mParent[x] \notin B PROVE FALSE
    <2>1. Closed(t, B \ {x})
      BY <1>3, <1>4 DEF Closed
    <2>2. n \in B \ {x} /\ B \ {x} \in SUBSET t.live
      BY <1>1, <1>4
    <2> QED BY <1>2, <1>4, <2>1, <2>2
  <1> HIDE DEF B
  <1>5. \A x \in B : x # n => t.mParent[x] \in B
    BY <1>4
  <1> QED BY <1>1, <1>2, <1>3, <1>5 DEF B

(* Every node is below the root, said as an induction: a set that holds    *)
(* the root and all children of its nodes holds every live node.           *)
Rooted(t) ==
    \A D \in SUBSET t.live : Root \in D /\ Closed(t, D) => D = t.live

LEMMA InTreeIsRooted ==
  ASSUME NEW t \in TreeType, Root \in t.live
  PROVE  InTree(t) <=> Rooted(t)
  <1>1. ASSUME InTree(t) PROVE Rooted(t)
    BY <1>1, BelowFacts DEF InTree, Rooted
  <1>2. ASSUME Rooted(t) PROVE InTree(t)
    BY <1>2, BelowFacts DEF InTree, Rooted
  <1> QED BY <1>1, <1>2

(* There are no cycles: the parent of a node is not below the node.        *)
LEMMA ParentNotBelow ==
  ASSUME NEW t \in TreeType, Root \in t.live, t.mParent[Root] = Nil, Rooted(t),
         NEW n \in t.live, n # Root
  PROVE  t.mParent[n] \notin Below(t, n)
  <1>1. SUFFICES ASSUME t.mParent[n] \in Below(t, n) PROVE FALSE
    OBVIOUS
  <1> DEFINE D == t.live \ Below(t, n)
  <1>2. \A x \in Below(t, n) : t.mParent[x] \in Below(t, n)
    BY <1>1, BelowFacts
  <1>3. Root \in D
    BY <1>2, BelowFacts, Types
  <1>4. Closed(t, D)
    BY <1>2 DEF Closed
  <1>5. n \notin D /\ D \in SUBSET t.live
    BY BelowFacts
  <1> QED BY <1>3, <1>4, <1>5 DEF Rooted

-----------------------------------------------------------------------------
(* The operations keep every node in the tree: only parents matter.        *)
LEMMA PlaceNewRooted ==
  ASSUME NEW t \in TreeType, Rooted(t), NEW s \in Node \ t.live, NEW g \in t.live,
         NEW u \in TreeType, u.live = t.live \cup {s}, s # Root, Root \in t.live,
         \A x \in t.live : u.mParent[x] = t.mParent[x],
         u.mParent[s] = g
  PROVE  Rooted(u)
  <1>1. SUFFICES ASSUME NEW D \in SUBSET u.live, Root \in D, Closed(u, D)
                 PROVE  D = u.live
    BY DEF Rooted
  <1>2. D \ {s} = t.live
    <2>1. Closed(t, D \ {s})
      BY <1>1 DEF Closed
    <2> QED BY <1>1, <2>1 DEF Rooted
  <1>3. s \in D
    BY <1>1, <1>2 DEF Closed
  <1> QED BY <1>2, <1>3

LEMMA MoveRooted ==
  ASSUME NEW t \in TreeType, Rooted(t), NEW s \in t.live,
         NEW g \in t.live, g \notin Below(t, s),
         NEW u \in TreeType, u.live = t.live, u.mParent[s] = g,
         \A x \in t.live : x # s => u.mParent[x] = t.mParent[x]
  PROVE  Rooted(u)
  <1>1. SUFFICES ASSUME NEW D \in SUBSET t.live, Root \in D, Closed(u, D)
                 PROVE  D = t.live
    BY DEF Rooted
  <1> DEFINE B == Below(t, s)
  <1>2. B \subseteq t.live /\ s \in B /\ Closed(t, B)
    BY BelowFacts
  <1> HIDE DEF B
  <1>3. Closed(t, D \cup B)
    BY <1>1, <1>2 DEF Closed
  <1>4. D \cup B = t.live
    BY <1>1, <1>2, <1>3 DEF Rooted
  <1>5. s \in D
    BY <1>1, <1>4 DEF Closed, B
  <1>6. Closed(t, D)
    BY <1>1, <1>5 DEF Closed
  <1> QED BY <1>1, <1>6 DEF Rooted

LEMMA ForgetRooted ==
  ASSUME NEW t \in TreeType, Rooted(t), NEW D, D \subseteq t.live, Root \in t.live, Root \notin D,
         \A x \in t.live : t.mParent[x] \in D => x \in D,
         NEW u \in TreeType, u.live = t.live \ D,
         \A x \in u.live : u.mParent[x] = t.mParent[x]
  PROVE  Rooted(u)
  <1>1. SUFFICES ASSUME NEW E \in SUBSET (t.live \ D), Root \in E, Closed(u, E)
                 PROVE  E = t.live \ D
    BY DEF Rooted
  <1>2. Closed(t, E \cup D)
    BY <1>1 DEF Closed
  <1>3. E \cup D = t.live
    BY <1>1, <1>2 DEF Rooted
  <1> QED BY <1>3

-----------------------------------------------------------------------------
(* What the commands keep of the tree.                                     *)
KeptTree(t) == GoodTree(t) /\ Rooted(t)

LEMMA InitTreeKept == KeptTree(InitTree)
  <1> DEFINE t == InitTree
  <1>1. t \in TreeType
    BY RootAssumption DEF InitTree, TreeType, Node
  <1>2. /\ t.live = {Root} /\ t.mParent[Root] = Nil
        /\ \A x \in Node : t.mParent[x] = Nil /\ t.mPrev[x] = Nil /\ t.mNext[x] = Nil
        /\ \A x \in Groups : t.mHead[x] = Nil /\ t.mTail[x] = Nil
    BY RootAssumption DEF InitTree, Node
  <1> HIDE DEF t
  <1>3. IsFiniteSet(t.live)
    BY <1>2, FS_Singleton
  <1>4. WellLinked(t)
    BY <1>1, <1>2, Types DEF WellLinked, FreedIsUnlinked, ParentIsLive, LooseHasNoSibling,
         NextAgrees, PrevAgrees, FirstIsHead, LastIsTail, HeadIsFirst, TailIsLast, BothEndsOrNone
  <1>5. NoRing(t)
    BY <1>1, <1>2, Types DEF NoRing
  <1>6. Rooted(t)
    BY <1>2 DEF Rooted
  <1> QED BY <1>1, <1>2, <1>3, <1>4, <1>5, <1>6 DEF KeptTree, GoodTree, t

(* The place an add action asks for, and that there is one.                *)
Under(t, a, x) == IF a \in {"head", "tail"} THEN x ELSE t.mParent[x]
HasPlace(t, a, x) ==
    /\ a \in AddActions /\ IsTarget(t, a, x)
    /\ a \in {"before", "after"} => t.mParent[x] # Nil

LEMMA AddPlaced ==
  ASSUME NEW t, GoodTree(t), NEW s \in t.live, s # Root,
         NEW a, NEW x, HasPlace(t, a, x)
  PROVE  \E p, n : /\ Gap(t, Under(t, a, x), p, n)
                   /\ Placed(t, Add(t, a, s, x), s, Under(t, a, x), p, n)
                   /\ a = "after" => p = x
                   /\ a = "before" => n = x
  <1> USE Types DEF GoodTree, WellLinked
  <1> DEFINE g == Under(t, a, x)
  <1>1. x \in t.live /\ g \in Groups \cap t.live
    BY DEF HasPlace, IsTarget, Under, ParentIsLive, AddActions
  <1>2. CASE a = "head"
    <2>1. Gap(t, g, Nil, t.mHead[g])
      BY <1>1, <1>2 DEF Gap, Under, HeadIsFirst, BothEndsOrNone
    <2>2. Add(t, a, s, x) = Place(t, s, g, Nil, t.mHead[g])
      BY <1>2 DEF Add, Group_AddHead, Under
    <2> QED BY <1>1, <1>2, <2>1, <2>2, PlaceFields
  <1>3. CASE a = "tail"
    <2>1. Gap(t, g, t.mTail[g], Nil)
      BY <1>1, <1>3 DEF Gap, Under, TailIsLast, BothEndsOrNone
    <2>2. Add(t, a, s, x) = Place(t, s, g, t.mTail[g], Nil)
      BY <1>3 DEF Add, Group_AddTail, Under
    <2>3. t.mTail[g] \in Node \cup {Nil} /\ Nil \in Node \cup {Nil} /\ g \in Groups /\ s \in Node
      BY <1>1
    <2>4. Placed(t, Place(t, s, g, t.mTail[g], Nil), s, g, t.mTail[g], Nil)
      BY <2>3, PlaceFields
    <2> QED BY <1>3, <2>1, <2>2, <2>4
  <1>4. CASE a = "before"
    <2>1. Gap(t, g, t.mPrev[x], x)
      BY <1>1, <1>4 DEF Gap, Under, HasPlace, FirstIsHead, PrevAgrees
    <2>2. Add(t, a, s, x) = Place(t, s, g, t.mPrev[x], x)
      BY <1>4 DEF Add, Node_AddBefore, Under, HasPlace
    <2>3. t.mPrev[x] \in Node \cup {Nil} /\ x \in Node \cup {Nil} /\ g \in Groups /\ s \in Node
      BY <1>1
    <2>4. Placed(t, Place(t, s, g, t.mPrev[x], x), s, g, t.mPrev[x], x)
      BY <2>3, PlaceFields
    <2> QED BY <1>4, <2>1, <2>2, <2>4
  <1>5. CASE a = "after"
    <2>1. Gap(t, g, x, t.mNext[x])
      BY <1>1, <1>5 DEF Gap, Under, HasPlace, LastIsTail, NextAgrees
    <2>2. Add(t, a, s, x) = Place(t, s, g, x, t.mNext[x])
      BY <1>5 DEF Add, Node_AddAfter, Under, HasPlace
    <2> QED BY <1>1, <1>5, <2>1, <2>2, PlaceFields
  <1> QED BY <1>2, <1>3, <1>4, <1>5 DEF HasPlace, AddActions

(* A node that is only known by its id.                                    *)
LEMMA NewGood ==
  ASSUME NEW t, GoodTree(t), NEW n \in Node \ t.live
  PROVE  /\ GoodTree(Node_New(t, n))
         /\ Node_New(t, n).live = t.live \cup {n}
         /\ Node_New(t, n).mParent = t.mParent
         /\ n # Root /\ t.mParent[n] = Nil
  <1> USE Types DEF GoodTree, WellLinked
  <1>1. PICK u : u = Node_New(t, n)
    OBVIOUS
  <1>2. /\ u \in TreeType /\ u.live = t.live \cup {n}
        /\ u.mParent = t.mParent /\ u.mPrev = t.mPrev /\ u.mNext = t.mNext
        /\ u.mHead = t.mHead /\ u.mTail = t.mTail
    BY <1>1 DEF Node_New, TreeType
  <1>3. /\ t.mParent[n] = Nil /\ t.mPrev[n] = Nil /\ t.mNext[n] = Nil
        /\ n \in Groups => t.mHead[n] = Nil /\ t.mTail[n] = Nil
    BY DEF FreedIsUnlinked
  <1>4. IsFiniteSet(u.live)
    BY <1>2, FS_AddElement
  <1>5. WellLinked(u)
    BY <1>2, <1>3 DEF FreedIsUnlinked, ParentIsLive, LooseHasNoSibling,
         NextAgrees, PrevAgrees, FirstIsHead, LastIsTail, HeadIsFirst, TailIsLast, BothEndsOrNone
  <1>6. NoRing(u)
    <2>1. SUFFICES ASSUME NEW D \in SUBSET u.live, D # {}, \A x \in D : t.mPrev[x] \in D
                   PROVE  FALSE
      BY <1>2 DEF NoRing
    <2>2. D \in SUBSET t.live
      BY <1>2, <1>3, <2>1
    <2> QED BY <2>1, <2>2 DEF NoRing
  <1>7. n # Root
    OBVIOUS
  <1> QED BY <1>1, <1>2, <1>3, <1>4, <1>5, <1>6, <1>7

LEMMA AddGood ==
  ASSUME NEW t, GoodTree(t), NEW s \in t.live, s # Root, t.mParent[s] = Nil,
         NEW a, NEW x, HasPlace(t, a, x)
  PROVE  GoodTree(Add(t, a, s, x))
  <1>1. PICK u : u = Add(t, a, s, x)
    OBVIOUS
  <1>2. PICK g, p, n : Gap(t, g, p, n) /\ Placed(t, u, s, g, p, n)
    BY <1>1, AddPlaced
  <1>3. WellLinked(u) /\ NoRing(u)
    BY <1>2, PlaceLinked, PlaceNoRing DEF GoodTree
  <1>4. /\ u \in TreeType /\ IsFiniteSet(u.live)
        /\ Root \in u.live /\ u.mParent[Root] = Nil
    BY <1>2, Types DEF GoodTree, Placed
  <1> QED BY <1>1, <1>3, <1>4 DEF GoodTree

LEMMA RemoveGood ==
  ASSUME NEW t, GoodTree(t), NEW s \in t.live
  PROVE  /\ GoodTree(Node_Remove(t, s)) /\ Removed(t, Node_Remove(t, s), s)
         /\ Node_Remove(t, s).mParent[s] = Nil /\ Node_Remove(t, s).live = t.live
  <1>1. PICK u : u = Node_Remove(t, s)
    OBVIOUS
  <1>2. Removed(t, u, s)
    BY <1>1, RemoveFields, Types DEF GoodTree
  <1>3. WellLinked(u) /\ NoRing(u)
    BY <1>2, RemoveLinked, RemoveNoRing DEF GoodTree
  <1>4. /\ u \in TreeType /\ IsFiniteSet(u.live) /\ u.live = t.live
        /\ Root \in u.live /\ u.mParent[Root] = Nil /\ u.mParent[s] = Nil
    BY <1>2, Types DEF GoodTree, Removed
  <1> QED BY <1>1, <1>2, <1>3, <1>4 DEF GoodTree

-----------------------------------------------------------------------------
(* What each kind of command does to a tree that is kept.                  *)
LEMMA NewKept ==
  ASSUME NEW t, KeptTree(t), NEW s \in Node \ t.live, NEW a, NEW x, HasPlace(t, a, x),
         NEW u, u = Add(Node_New(t, s), a, s, x)
  PROVE  KeptTree(u)
  <1>1. PICK v : v = Node_New(t, s)
    OBVIOUS
  <1>2. /\ GoodTree(v) /\ v.live = t.live \cup {s} /\ v.mParent = t.mParent
        /\ s # Root /\ v.mParent[s] = Nil
    BY <1>1, NewGood DEF KeptTree
  <1>3. HasPlace(v, a, x)
    BY <1>2 DEF HasPlace, IsTarget
  <1>4. GoodTree(u)
    BY <1>1, <1>2, <1>3, AddGood
  <1>5. PICK p, n : Placed(v, u, s, Under(v, a, x), p, n) /\ Gap(v, Under(v, a, x), p, n)
    BY <1>1, <1>2, <1>3, AddPlaced
  <1>6. Under(v, a, x) \in t.live
    BY <1>2, Types DEF HasPlace, IsTarget, Under, AddActions, KeptTree, GoodTree, WellLinked,
       ParentIsLive
  <1>7. Rooted(u)
    BY <1>2, <1>4, <1>5, <1>6, Types, PlaceNewRooted DEF Placed, KeptTree, GoodTree
  <1> QED BY <1>4, <1>7 DEF KeptTree

(* A move: n goes to a place that is not below n.                          *)
LEMMA MoveKept ==
  ASSUME NEW t, KeptTree(t), NEW s \in t.live, NEW a, NEW x, HasPlace(t, a, x),
         x \notin Below(t, s),
         NEW u, u = Add(Node_Remove(t, s), a, s, x)
  PROVE  /\ KeptTree(u) /\ u.live = t.live
         /\ u.mParent[s] = Under(t, a, x)
         /\ a = "after" => u.mPrev[s] = x
         /\ a = "before" => u.mNext[s] = x
  <1>1. PICK v : v = Node_Remove(t, s)
    OBVIOUS
  <1>2. /\ GoodTree(v) /\ Removed(t, v, s) /\ v.mParent[s] = Nil /\ v.live = t.live
    BY <1>1, RemoveGood DEF KeptTree
  <1>3. s # Root
    BY InTreeIsRooted DEF InTree, KeptTree, GoodTree, HasPlace, IsTarget
  <1>4. x # s /\ Under(t, a, x) \notin Below(t, s) /\ Under(t, a, x) \in t.live
    BY BelowFacts, Types DEF Closed, Under, HasPlace, IsTarget, AddActions, KeptTree, GoodTree,
       WellLinked, ParentIsLive
  <1>5. HasPlace(v, a, x) /\ Under(v, a, x) = Under(t, a, x)
    BY <1>2, <1>4, Types DEF Removed, HasPlace, IsTarget, Under, KeptTree, GoodTree
  <1>6. GoodTree(u)
    BY <1>1, <1>2, <1>3, <1>5, AddGood
  <1>7. PICK p, n : /\ Placed(v, u, s, Under(t, a, x), p, n)
                    /\ a = "after" => p = x
                    /\ a = "before" => n = x
    BY <1>1, <1>2, <1>3, <1>5, AddPlaced
  <1>8. Rooted(u)
    <2>1. /\ u.live = t.live /\ u.mParent[s] = Under(t, a, x)
          /\ \A y \in t.live : y # s => u.mParent[y] = t.mParent[y]
      BY <1>2, <1>7, Types DEF Placed, Removed, KeptTree, GoodTree
    <2> QED BY <1>4, <1>6, <2>1, MoveRooted DEF KeptTree, GoodTree
  <1>9. s \in Node
    BY Types DEF KeptTree, GoodTree
  <1> QED BY <1>2, <1>6, <1>7, <1>8, <1>9 DEF Placed, KeptTree

(* Without a parent a node is cut out with all that is below it.           *)
LEMMA SeveredBelow ==
  ASSUME NEW t \in TreeType, NEW n \in t.live, t.mParent[n] = Nil
  PROVE  Severed(t, Below(t, n), Nil)
  BY BelowFacts, Types DEF Severed, Closed

(* Cutting a node out does not change what is below it.                    *)
LEMMA RemoveBelow ==
  ASSUME NEW t \in TreeType, NEW n \in t.live, NEW v, Removed(t, v, n)
  PROVE  Below(v, n) = Below(t, n)
  <1>1. /\ v \in TreeType /\ v.live = t.live /\ n \in Node /\ n \in v.live
        /\ v.mParent[n] = Nil /\ \A x \in t.live : x # n => v.mParent[x] = t.mParent[x]
    BY Types DEF Removed
  <1> DEFINE A == Below(t, n)
             B == Below(v, n)
  <1>2. /\ A \in SUBSET t.live /\ n \in A /\ Closed(t, A)
        /\ \A D \in SUBSET t.live : n \in D /\ Closed(t, D) => A \subseteq D
    BY BelowFacts
  <1>3. /\ B \in SUBSET t.live /\ n \in B /\ Closed(v, B)
        /\ \A D \in SUBSET t.live : n \in D /\ Closed(v, D) => B \subseteq D
    BY <1>1, BelowFacts
  <1> HIDE DEF A, B
  <1>4. Closed(v, A) /\ Closed(t, B)
    BY <1>1, <1>2, <1>3 DEF Closed
  <1> QED BY <1>2, <1>3, <1>4 DEF A, B

LEMMA DeleteKept ==
  ASSUME NEW t, KeptTree(t), NEW s \in t.live
  PROVE  KeptTree(Node_Delete(t, s))
  <1>1. CASE s = Root
    BY <1>1 DEF Node_Delete
  <1>2. CASE s # Root
    <2>1. PICK v : v = Node_Remove(t, s)
      OBVIOUS
    <2>2. GoodTree(v) /\ Removed(t, v, s) /\ v.mParent[s] = Nil /\ v.live = t.live
      BY <2>1, RemoveGood DEF KeptTree
    <2>3. PICK D : D = Below(v, s)
      OBVIOUS
    <2>4. /\ D \subseteq t.live /\ s \in D /\ Severed(v, D, Nil) /\ Closed(v, D)
          /\ \A x \in D : x # s => v.mParent[x] \in D
      BY <2>2, <2>3, BelowFacts, SeveredBelow DEF GoodTree
    <2>5. PICK u : u = Forget(v, D)
      OBVIOUS
    <2>6. Forgotten(v, u, D, Nil)
      BY <2>2, <2>5, ForgetFields DEF GoodTree
    <2>7. WellLinked(u) /\ NoRing(u)
      BY <2>2, <2>4, <2>6, ForgetLinked, ForgetNoRing DEF GoodTree
    <2>8. Root \notin D
      BY <1>2, <2>2, <2>4, Types DEF GoodTree
    <2>9. GoodTree(u)
      <3>1. IsFiniteSet(u.live)
        BY <2>2, <2>6, FS_Subset DEF Forgotten, GoodTree
      <3> QED BY <2>2, <2>6, <2>7, <2>8, <3>1, Types DEF Forgotten, GoodTree
    <2>10. Rooted(u)
      <3>1. \A x \in t.live : t.mParent[x] \in D => x \in D
        BY <2>2, <2>4, Types DEF Closed, Removed, KeptTree, GoodTree
      <3>2. \A x \in u.live : u.mParent[x] = t.mParent[x]
        BY <2>2, <2>4, <2>6, Types DEF Forgotten, Removed, KeptTree, GoodTree
      <3>3. u.live = t.live \ D /\ u \in TreeType
        BY <2>2, <2>6 DEF Forgotten
      <3>4. t \in TreeType /\ Root \in t.live /\ Rooted(t) /\ D \subseteq t.live
        BY <2>4 DEF KeptTree, GoodTree
      <3> HIDE DEF Rooted
      <3> QED BY <2>8, <3>1, <3>2, <3>3, <3>4, ForgetRooted
    <2>11. D = Below(t, s)
      BY <2>2, <2>3, RemoveBelow DEF KeptTree, GoodTree
    <2> QED BY <1>2, <2>1, <2>5, <2>9, <2>10, <2>11 DEF Node_Delete, KeptTree
  <1> QED BY <1>1, <1>2

LEMMA DeleteAllKept ==
  ASSUME NEW t, KeptTree(t), NEW g \in Groups \cap t.live
  PROVE  KeptTree(Group_DeleteAll(t, g))
  <1>1. PICK D : D = Below(t, g) \ {g}
    OBVIOUS
  <1>2. PICK u : u = Group_DeleteAll(t, g)
    OBVIOUS
  <1>3. Forgotten(t, u, D, g)
    BY <1>1, <1>2, DeleteAllFields DEF KeptTree, GoodTree
  <1>4. g # Root => t.mParent[g] \notin Below(t, g)
    BY ParentNotBelow DEF KeptTree, GoodTree
  <1>5. g # Nil /\ t.mParent[Root] = Nil
    BY Types DEF KeptTree, GoodTree
  <1>6. /\ D \subseteq t.live /\ Severed(t, D, g) /\ Root \notin D
    BY <1>1, <1>4, <1>5, BelowFacts, Types DEF Severed, Closed, KeptTree, GoodTree
  <1>7. \A x \in t.live : t.mParent[x] \in D => x \in D
    BY <1>6 DEF Severed
  <1>8. WellLinked(u) /\ NoRing(u)
    BY <1>3, <1>6, ForgetLinked, ForgetNoRing DEF KeptTree, GoodTree
  <1>9. GoodTree(u)
    <2>1. IsFiniteSet(u.live)
      BY <1>3, FS_Subset DEF Forgotten, KeptTree, GoodTree
    <2> QED BY <1>3, <1>6, <1>8, <2>1, Types DEF Forgotten, KeptTree, GoodTree
  <1>10. Rooted(u)
    <2>1. \A x \in u.live : u.mParent[x] = t.mParent[x]
      BY <1>3, Types DEF Forgotten, KeptTree, GoodTree
    <2>2. u.live = t.live \ D /\ u \in TreeType
      BY <1>3 DEF Forgotten
    <2> QED BY <1>6, <1>7, <2>1, <2>2, ForgetRooted DEF KeptTree, GoodTree
  <1> QED BY <1>2, <1>9, <1>10 DEF KeptTree

LEMMA ReplaceKept ==
  ASSUME NEW t, KeptTree(t), NEW s \in Node \ t.live, NEW r \in t.live, t.mParent[r] # Nil
  PROVE  KeptTree(Node_Replace(Node_New(t, s), s, r))
  <1>1. PICK v : v = Node_New(t, s)
    OBVIOUS
  <1>2. /\ GoodTree(v) /\ v.live = t.live \cup {s} /\ v.mParent = t.mParent
        /\ s # Root /\ v.mParent[s] = Nil
    BY <1>1, NewGood DEF KeptTree
  <1>3. PICK g, p, n : g = t.mParent[r] /\ p = v.mPrev[r] /\ n = v.mNext[r]
    OBVIOUS
  <1>4. /\ t \in TreeType /\ v \in TreeType
        /\ r \in Node /\ r # s /\ r # Root /\ s # Nil /\ r # Nil
        /\ g \in Groups \cap t.live /\ g \in Node /\ g # s
        /\ p \in Node \cup {Nil} /\ n \in Node \cup {Nil}
    BY <1>2, <1>3, Types DEF KeptTree, GoodTree, WellLinked, ParentIsLive
  <1>5. PICK u : u = Place(v, s, g, p, n)
    OBVIOUS
  <1>6. Placed(v, u, s, g, p, n)
    BY <1>4, <1>5, PlaceFields
  <1>7. PICK w : w = Own(u, r, Nil, Nil, Nil)
    OBVIOUS
  <1>8. Owned(u, w, r, Nil, Nil, Nil)
    BY <1>4, <1>6, <1>7, OwnFields DEF Placed
  <1>9. Node_Replace(v, s, r) = Node_Delete(w, r)
    BY <1>2, <1>3, <1>5, <1>7 DEF Node_Replace, Own
  <1>10. WellLinked(w) /\ NoRing(w)
    BY <1>2, <1>3, <1>4, <1>6, <1>8, HandOverLinked, HandOverNoRing DEF GoodTree
  <1>11. /\ w \in TreeType /\ w.live = v.live
         /\ w.mParent[r] = Nil /\ w.mParent[s] = g /\ r \in w.live
         /\ \A x \in t.live : x # r => w.mParent[x] = t.mParent[x]
    BY <1>2, <1>4, <1>6, <1>8, Types DEF Placed, Owned
  <1>12. GoodTree(w)
    BY <1>2, <1>4, <1>10, <1>11 DEF GoodTree, KeptTree
  <1>13. PICK y : y = Node_Remove(w, r)
    OBVIOUS
  <1>14. GoodTree(y) /\ Removed(w, y, r) /\ y.mParent[r] = Nil /\ y.live = w.live
    BY <1>11, <1>12, <1>13, RemoveGood
  <1>15. PICK D : D = Below(y, r)
    OBVIOUS
  <1>16. /\ D \subseteq y.live /\ r \in D /\ Severed(y, D, Nil) /\ Closed(y, D)
         /\ \A x \in D : x # r => y.mParent[x] \in D
    BY <1>11, <1>14, <1>15, BelowFacts, SeveredBelow DEF GoodTree
  <1>17. PICK z : z = Forget(y, D)
    OBVIOUS
  <1>18. Forgotten(y, z, D, Nil)
    BY <1>14, <1>17, ForgetFields DEF GoodTree
  <1>19. /\ y.mParent[s] = g /\ y.live = t.live \cup {s}
         /\ \A x \in t.live : x # r => y.mParent[x] = t.mParent[x]
    BY <1>2, <1>4, <1>11, <1>14, Types DEF Removed
  <1>20. D \subseteq Below(t, r) /\ s \notin D /\ g \notin D
    <2> DEFINE B == Below(t, r)
    <2>1. B \subseteq t.live /\ r \in B /\ Closed(t, B)
      BY <1>4, BelowFacts
    <2>2. g \notin B
      BY <1>3, <1>4, ParentNotBelow DEF KeptTree, GoodTree
    <2> HIDE DEF B
    <2>3. Closed(y, B)
      BY <1>4, <1>14, <1>19, <2>1, <2>2, Types DEF Closed
    <2>4. D \subseteq B
      <3>1. y \in TreeType /\ r \in y.live /\ B \in SUBSET y.live
        BY <1>14, <1>19, <2>1 DEF GoodTree
      <3> QED BY <1>15, <2>1, <2>3, <3>1, BelowFacts
    <2> QED BY <2>1, <2>2, <2>4 DEF B
  <1>21. Root \in t.live /\ t.mParent[Root] = Nil /\ Root \notin D
    BY <1>4, <1>14, <1>16, <1>19, Types DEF KeptTree, GoodTree
  <1>22. GoodTree(z)
    <2>1. WellLinked(z) /\ NoRing(z)
      BY <1>14, <1>16, <1>18, ForgetLinked, ForgetNoRing DEF GoodTree
    <2>2. IsFiniteSet(z.live)
      BY <1>14, <1>18, FS_Subset DEF Forgotten, GoodTree
    <2> QED BY <1>14, <1>18, <1>21, <2>1, <2>2, Types DEF Forgotten, GoodTree
  <1>23. Rooted(z)
    <2>1. SUFFICES ASSUME NEW E \in SUBSET z.live, Root \in E, Closed(z, E)
                   PROVE  E = z.live
      BY DEF Rooted
    <2>2. /\ z.live = (t.live \cup {s}) \ D
          /\ \A x \in z.live : z.mParent[x] = y.mParent[x]
      BY <1>14, <1>18, <1>19, Types DEF Forgotten, GoodTree
    <2> DEFINE F == (E \ {s}) \cup D
    <2>3. Closed(t, F)
      <3>1. SUFFICES ASSUME NEW x \in t.live, t.mParent[x] \in F PROVE x \in F
        BY DEF Closed
      <3>2. CASE x = r
        BY <1>16, <3>2
      <3>3. CASE x # r /\ t.mParent[x] \in D
        BY <1>14, <1>16, <1>19, <3>3 DEF Closed
      <3>4. CASE x # r /\ t.mParent[x] \in E \ {s} /\ x \notin D
        BY <1>19, <2>1, <2>2, <3>4 DEF Closed
      <3> QED BY <3>1, <3>2, <3>3, <3>4
    <2>4. F = t.live
      BY <1>16, <1>19, <1>20, <1>21, <2>1, <2>2, <2>3 DEF Rooted, KeptTree
    <2>5. g \in E /\ s \in E
      BY <1>4, <1>19, <1>20, <2>1, <2>2, <2>4 DEF Closed
    <2> QED BY <2>1, <2>2, <2>4, <2>5
  <1>24. z = Node_Delete(w, r)
    <2>1. D = Below(w, r)
      BY <1>11, <1>14, <1>15, RemoveBelow
    <2> QED BY <1>4, <1>13, <1>17, <2>1 DEF Node_Delete
  <1> QED BY <1>1, <1>9, <1>22, <1>23, <1>24 DEF KeptTree

-----------------------------------------------------------------------------
(* A pair that waits can still be carried out, and the node that an        *)
(* /n_order listed last is still there.                                    *)
MsgKept ==
    /\ msg.cmd \in DOMAIN Pairs =>
          /\ msg.node \in tree.live
          /\ HasPlace(tree, Pairs[msg.cmd], msg.target)
          /\ msg.target \notin Below(tree, msg.node)
    /\ msg.cmd = "n_order" => msg.node \in tree.live

IInv == TypeOK /\ KeptTree(tree) /\ MsgKept

LEMMA PairsIs == DOMAIN Pairs = {"n_before", "n_after"} /\ Pairs["n_before"] = "before"
                   /\ Pairs["n_after"] = "after"
  BY DEF Pairs

LEMMA InitIInv == Init => IInv
  BY InitTreeKept, NilAssumption, PairsIs DEF Init, IInv, TypeOK, MsgKept, Idle, KeptTree, GoodTree

(* What Sound promises of a place, when the clients are careful.           *)
LEMMA SoundPlace ==
  ASSUME Careful, NEW t, NEW a \in AddActions, NEW n, NEW x, IsTarget(t, a, x), Sound(t, a, n, x)
  PROVE  HasPlace(t, a, x) /\ (n \in t.live => x \notin Below(t, n))
  BY DEF HasPlace, Sound

(* The round that moves a pair that waited.                                *)
LEMMA WaitingMoved ==
  ASSUME IInv, NEW cmd \in DOMAIN Pairs, msg.cmd = cmd, NEW u, u = MoveWaiting(cmd)
  PROVE  /\ KeptTree(u) /\ u.live = tree.live
         /\ cmd = "n_after" => u.mPrev[msg.node] = msg.target
         /\ cmd = "n_before" => u.mNext[msg.node] = msg.target
         /\ u.mParent[msg.node] = tree.mParent[msg.target]
  <1>1. /\ msg.node \in tree.live
        /\ HasPlace(tree, Pairs[cmd], msg.target)
        /\ msg.target \notin Below(tree, msg.node)
        /\ KeptTree(tree)
    BY DEF IInv, MsgKept
  <1>2. /\ KeptTree(u) /\ u.live = tree.live
        /\ u.mParent[msg.node] = Under(tree, Pairs[cmd], msg.target)
        /\ Pairs[cmd] = "after" => u.mPrev[msg.node] = msg.target
        /\ Pairs[cmd] = "before" => u.mNext[msg.node] = msg.target
    BY <1>1, MoveKept DEF MoveWaiting
  <1> QED BY <1>2, PairsIs DEF Under

LEMMA AfterPairKept ==
  ASSUME IInv, NEW cmd \in DOMAIN Pairs, msg = Idle \/ msg.cmd = cmd, NEW n \in Node
  PROVE  KeptTree(AfterPair(cmd, n)) /\ AfterPair(cmd, n).live = tree.live
  <1>1. CASE msg.node \notin {Nil, n}
    <2>1. msg.cmd = cmd
      BY <1>1 DEF Idle
    <2> QED BY <1>1, <2>1, WaitingMoved DEF AfterPair
  <1>2. CASE msg.node \in {Nil, n}
    BY <1>2 DEF AfterPair, IInv
  <1> QED BY <1>1, <1>2

LEMMA NextIInv ==
  ASSUME Careful, IInv, [Next]_commandVars
  PROVE  IInv'
  <1> USE PairsIs
  <1>1. SUFFICES ASSUME Next PROVE KeptTree(tree') /\ TypeOK' /\ MsgKept'
    BY DEF IInv, commandVars, TypeOK, MsgKept
  <1>2. KeptTree(tree) /\ tree \in TreeType /\ tree.live \subseteq Node /\ Nil \notin Node
    BY Types DEF IInv, KeptTree, GoodTree
  <1>3. ASSUME KeptTree(tree'), UNCHANGED msg, msg.cmd \in {"none", "g_deepFree"}
        PROVE  TypeOK' /\ MsgKept'
    BY <1>3 DEF IInv, TypeOK, MsgKept, KeptTree, GoodTree
  <1>4. ASSUME KeptTree(tree'), msg' = Idle PROVE TypeOK' /\ MsgKept'
    BY <1>4 DEF TypeOK, MsgKept, KeptTree, GoodTree, Idle
  <1>5. ASSUME NEW n \in Node, NEW a \in AddActions, NEW x \in Node, New(n, a, x)
        PROVE  KeptTree(tree') /\ TypeOK' /\ MsgKept'
    <2>1. HasPlace(tree, a, x) /\ n \in Node \ tree.live
      BY <1>5, SoundPlace DEF New
    <2>2. tree' = Add(Node_New(tree, n), a, n, x) /\ msg' = Idle
      BY <1>5 DEF New
    <2>3. KeptTree(tree')
      BY <1>2, <2>1, <2>2, NewKept
    <2> QED BY <1>4, <2>2, <2>3
  <1>6. ASSUME NEW n \in Node, NEW r \in Node, NewReplacing(n, r)
        PROVE  KeptTree(tree') /\ TypeOK' /\ MsgKept'
    <2>1. n \in Node \ tree.live /\ r \in tree.live /\ tree.mParent[r] # Nil
      BY <1>6 DEF NewReplacing, Sound
    <2>2. tree' = Node_Replace(Node_New(tree, n), n, r) /\ msg' = Idle
      BY <1>6 DEF NewReplacing
    <2>3. KeptTree(tree')
      BY <1>2, <2>1, <2>2, ReplaceKept
    <2> QED BY <1>4, <2>2, <2>3
  <1>7. ASSUME NEW n \in Node, NodeFree(n) PROVE KeptTree(tree') /\ TypeOK' /\ MsgKept'
    <2>1. KeptTree(tree') /\ msg' = Idle
      BY <1>2, <1>7, DeleteKept DEF NodeFree
    <2> QED BY <1>4, <2>1
  <1>8. ASSUME NEW g \in Groups, FreeAll(g) PROVE KeptTree(tree') /\ TypeOK' /\ MsgKept'
    <2>1. KeptTree(tree') /\ msg' = Idle
      BY <1>2, <1>8, DeleteAllKept DEF FreeAll
    <2> QED BY <1>4, <2>1
  <1>9. ASSUME NEW g \in Groups, DeepFree(g) PROVE KeptTree(tree') /\ TypeOK' /\ MsgKept'
    BY <1>2, <1>9 DEF DeepFree, Loop, TypeOK, MsgKept, Node
  <1>10. ASSUME NEW a \in {"head", "tail"}, NEW g \in Groups, NEW n \in Node, MoveToGroup(a, g, n)
         PROVE  KeptTree(tree') /\ TypeOK' /\ MsgKept'
    <2>1. HasPlace(tree, a, g) /\ n \in tree.live /\ g \notin Below(tree, n)
      BY <1>10, SoundPlace DEF MoveToGroup, AddActions
    <2>2. tree' = Add(Node_Remove(tree, n), a, n, g) /\ msg' = Idle
      BY <1>10 DEF MoveToGroup
    <2>3. KeptTree(tree')
      BY <1>2, <2>1, <2>2, MoveKept
    <2> QED BY <1>4, <2>2, <2>3
  <1>11. ASSUME NEW cmd \in DOMAIN Pairs, NEW n \in Node, NEW x \in Node, ReadPair(cmd, n, x)
         PROVE  KeptTree(tree') /\ TypeOK' /\ MsgKept'
    <2>1. KeptTree(tree') /\ tree'.live = tree.live
      BY <1>11, AfterPairKept DEF ReadPair
    <2>2. n \in tree'.live /\ x \in tree'.live /\ Sound(tree', Pairs[cmd], n, x)
      BY <1>11, <2>1 DEF ReadPair
    <2>3. HasPlace(tree', Pairs[cmd], x) /\ x \notin Below(tree', n)
      BY <2>2, SoundPlace DEF IsTarget, AddActions
    <2>4. msg' = [cmd |-> cmd, node |-> n, target |-> x]
      BY <1>11 DEF ReadPair, Loop
    <2>5. MsgKept'
      BY <2>2, <2>3, <2>4 DEF MsgKept
    <2> QED BY <2>1, <2>4, <2>5 DEF TypeOK, KeptTree, GoodTree
  <1>12. ASSUME NEW a \in AddActions, NEW x \in Node, NEW n \in Node, OrderFirst(a, x, n)
         PROVE  KeptTree(tree') /\ TypeOK' /\ MsgKept'
    <2>1. HasPlace(tree, a, x) /\ n \in tree.live /\ x \notin Below(tree, n)
      BY <1>12, SoundPlace DEF OrderFirst
    <2>2. tree' = Add(Node_Remove(tree, n), a, n, x) /\ msg' = Loop("n_order", n, Nil)
      BY <1>12 DEF OrderFirst
    <2>3. KeptTree(tree') /\ tree'.live = tree.live
      BY <1>2, <2>1, <2>2, MoveKept
    <2> QED BY <2>1, <2>2, <2>3 DEF TypeOK, MsgKept, KeptTree, GoodTree, Loop
  <1>13. ASSUME Continue PROVE KeptTree(tree') /\ TypeOK' /\ MsgKept'
    <2>1. ASSUME NEW s \in Synths, DeepFreeGraph(s) PROVE KeptTree(tree') /\ TypeOK' /\ MsgKept'
      <3>1. s \in tree.live
        BY <2>1 DEF DeepFreeGraph, SynthsBelow, Below
      <3>2. KeptTree(tree')
        BY <1>2, <2>1, <3>1, DeleteKept DEF DeepFreeGraph
      <3> QED BY <1>3, <2>1, <3>2 DEF DeepFreeGraph
    <2>2. ASSUME DeepFreeEnd PROVE KeptTree(tree') /\ TypeOK' /\ MsgKept'
      BY <1>2, <1>4, <2>2 DEF DeepFreeEnd
    <2>3. ASSUME NEW cmd \in DOMAIN Pairs, EndPairs(cmd)
          PROVE  KeptTree(tree') /\ TypeOK' /\ MsgKept'
      <3>1. KeptTree(MoveWaiting(cmd))
        BY <2>3, WaitingMoved DEF EndPairs
      <3>2. KeptTree(tree') /\ msg' = Idle
        BY <1>2, <2>3, <3>1 DEF EndPairs
      <3> QED BY <1>4, <3>2
    <2>4. ASSUME NEW n \in Node, OrderNext(n) PROVE KeptTree(tree') /\ TypeOK' /\ MsgKept'
      <3>1. msg.node \in tree.live /\ n \in tree.live /\ Sound(tree, "after", n, msg.node)
        BY <2>4 DEF OrderNext, IInv, MsgKept
      <3>2. HasPlace(tree, "after", msg.node) /\ msg.node \notin Below(tree, n)
        BY <3>1, SoundPlace DEF IsTarget, AddActions
      <3>3. tree' = Add(Node_Remove(tree, n), "after", n, msg.node)
        BY <2>4 DEF OrderNext, Add
      <3>4. KeptTree(tree') /\ tree'.live = tree.live
        BY <1>2, <3>1, <3>2, <3>3, MoveKept
      <3> QED BY <2>4, <3>1, <3>4 DEF OrderNext, TypeOK, MsgKept, KeptTree, GoodTree, Loop
    <2>5. ASSUME OrderEnd PROVE KeptTree(tree') /\ TypeOK' /\ MsgKept'
      BY <1>2, <1>4, <2>5 DEF OrderEnd
    <2> QED BY <1>13, <2>1, <2>2, <2>3, <2>4, <2>5 DEF Continue
  <1> QED BY <1>1, <1>5, <1>6, <1>7, <1>8, <1>9, <1>10, <1>11, <1>12, <1>13 DEF Next

THEOREM Invariance == Careful => (Spec => []IInv)
  <1> SUFFICES ASSUME Careful PROVE Spec => []IInv
    OBVIOUS
  <1>1. IInv /\ [Next]_commandVars => IInv'
    BY NextIInv
  <1> QED BY <1>1, InitIInv, PTL DEF Spec

(* However nodes are made, moved, replaced and freed, one by one or in the *)
(* rounds of a message, the links of neighbours agree and head and tail    *)
(* are the ends of their list (Node_Remove, Node_AddAfter, Node_Replace,   *)
(* Group_DeleteAll and the rest of SC_Node.cpp and SC_Group.cpp).          *)
THEOREM LinksStayInAgreement == Careful => (Spec => []LinksAgree)
  <1>1. IInv => LinksAgree
    BY DEF IInv, LinksAgree, KeptTree, GoodTree
  <1> QED BY <1>1, Invariance, PTL

(* A pair of /n_before or /n_after that waited is moved next to the target *)
(* it was read with, and every node of an /n_order after the one before it *)
(* (meth_n_before, meth_n_after, meth_n_order).                            *)
THEOREM MovesGoWhereAsked == Careful => (Spec => PlacedWhereAsked)
  <1> DEFINE P ==
        /\ msg.cmd = "n_after" /\ MovesNow =>
             /\ tree'.mPrev[msg.node] = msg.target
             /\ tree'.mParent[msg.node] = tree.mParent[msg.target]
        /\ msg.cmd = "n_before" /\ MovesNow =>
             /\ tree'.mNext[msg.node] = msg.target
             /\ tree'.mParent[msg.node] = tree.mParent[msg.target]
        /\ msg.cmd = "n_order" /\ tree' # tree => tree'.mPrev[msg'.node] = msg.node
  <1> SUFFICES ASSUME Careful PROVE Spec => [][P]_commandVars
    BY DEF PlacedWhereAsked
  <1>1. ASSUME IInv, [Next]_commandVars PROVE [P]_commandVars
    <2> USE PairsIs
    <2>1. SUFFICES ASSUME Next PROVE P
      BY <1>1
    <2>2. msg.node \in Node \cup {Nil} /\ Nil \notin Node
      BY <1>1, NilAssumption DEF IInv, TypeOK, Node
    <2>3. CASE msg = Idle \/ msg.cmd = "g_deepFree"
      BY <2>3 DEF Idle, MovesNow
    <2>4. ASSUME NEW cmd \in DOMAIN Pairs, msg.cmd = cmd, MovesNow
          PROVE  tree' = MoveWaiting(cmd)
      <3>1. msg.node \in tree.live /\ msg.target \notin Below(tree, msg.node)
        BY <1>1, <2>4 DEF IInv, MsgKept
      <3>2. msg # Idle /\ msg.node # Nil /\ msg.node # msg.target
        BY <1>1, <2>4, <3>1, <2>2, BelowFacts, Types DEF Idle, IInv, KeptTree, GoodTree
      <3>3. CASE \E c \in DOMAIN Pairs, n, x \in Node : ReadPair(c, n, x)
        <4>1. PICK c \in DOMAIN Pairs, n \in Node, x \in Node : ReadPair(c, n, x)
          BY <3>3
        <4>2. c = cmd /\ tree' = AfterPair(cmd, n) /\ msg' = [cmd |-> c, node |-> n, target |-> x]
          BY <2>4, <3>2, <4>1 DEF ReadPair, Loop
        <4>3. msg' # Idle /\ n # msg.node
          BY <2>4, <2>2, <4>2 DEF MovesNow, Idle
        <4> QED BY <3>2, <4>2, <4>3 DEF AfterPair
      <3>4. CASE \E c \in DOMAIN Pairs : EndPairs(c)
        BY <2>4, <3>2, <3>4 DEF EndPairs
      <3>5. CASE Next /\ ~ (\E c \in DOMAIN Pairs : EndPairs(c))
                      /\ ~ (\E c \in DOMAIN Pairs, n, x \in Node : ReadPair(c, n, x))
        BY <2>4, <3>2, <3>5 DEF Next, Continue, New, NewReplacing, NodeFree, FreeAll, DeepFree,
           MoveToGroup, OrderFirst, OrderNext, OrderEnd, DeepFreeGraph, DeepFreeEnd
      <3> QED BY <2>1, <3>3, <3>4, <3>5
    <2>5. ASSUME NEW cmd \in DOMAIN Pairs, msg.cmd = cmd, MovesNow
          PROVE  /\ cmd = "n_after" => tree'.mPrev[msg.node] = msg.target
                 /\ cmd = "n_before" => tree'.mNext[msg.node] = msg.target
                 /\ tree'.mParent[msg.node] = tree.mParent[msg.target]
      BY <1>1, <2>4, <2>5, WaitingMoved
    <2>6. ASSUME msg.cmd = "n_order", tree' # tree PROVE tree'.mPrev[msg'.node] = msg.node
      <3>1. PICK n \in Node : OrderNext(n)
        BY <2>1, <2>6 DEF Next, Continue, New, NewReplacing, NodeFree, FreeAll, DeepFree, Idle,
           MoveToGroup, ReadPair, OrderFirst, EndPairs, OrderEnd, DeepFreeGraph, DeepFreeEnd
      <3>2. msg.node \in tree.live /\ n \in tree.live /\ Sound(tree, "after", n, msg.node)
        BY <1>1, <2>6, <3>1 DEF OrderNext, IInv, MsgKept
      <3>3. HasPlace(tree, "after", msg.node) /\ msg.node \notin Below(tree, n)
        BY <1>1, <3>2, SoundPlace DEF IsTarget, AddActions
      <3>4. tree' = Add(Node_Remove(tree, n), "after", n, msg.node) /\ msg'.node = n
        BY <3>1 DEF OrderNext, Add, Loop
      <3> QED BY <1>1, <3>2, <3>3, <3>4, MoveKept DEF IInv
    <2> QED BY <2>5, <2>6
  <1> HIDE DEF P
  <1> QED BY <1>1, Invariance, PTL DEF Spec

-----------------------------------------------------------------------------
(* The recursion of Walk defines a function: the first pointers of a walk  *)
(* exist for every number of them.                                         *)
WalkNext(t, g, f, i) ==
    IF i = 1 THEN t.mHead[g] ELSE IF f[i - 1] = Nil THEN Nil ELSE t.mNext[f[i - 1]]

LEMMA WalkExists ==
  ASSUME NEW t, NEW g, NEW N \in Nat
  PROVE  \E f : f = [i \in 1 .. N |-> WalkNext(t, g, f, i)]
  <1> DEFINE T == {k \in Nat : ~ \E f : f = [i \in 1 .. k |-> WalkNext(t, g, f, i)]}
  <1>1. SUFFICES ASSUME T # {} PROVE FALSE
    OBVIOUS
  <1>2. PICK m \in T : \A k \in T : m <= k
    BY <1>1, LeastNat
  <1>3. m # 0
    <2>1. [i \in 1 .. 0 |-> Nil] = [i \in 1 .. 0 |-> WalkNext(t, g, [j \in 1 .. 0 |-> Nil], i)]
      OBVIOUS
    <2> QED BY <1>2, <2>1
  <1>4. m - 1 \in Nat /\ m - 1 \notin T
    BY <1>2, <1>3
  <1>5. PICK f : f = [i \in 1 .. (m - 1) |-> WalkNext(t, g, f, i)]
    BY <1>4
  <1>6. PICK h : h = [i \in 1 .. m |-> IF i < m THEN f[i] ELSE WalkNext(t, g, f, m)]
    OBVIOUS
  <1>7. \A i \in 1 .. m : h[i] = WalkNext(t, g, h, i)
    <2> TAKE i \in 1 .. m
    <2>1. m \in Nat /\ m # 0
      BY <1>2, <1>3
    <2>2. i = 1 \/ (i - 1 \in 1 .. (m - 1) /\ h[i - 1] = f[i - 1])
      BY <1>6, <2>1
    <2>3. WalkNext(t, g, h, i) = WalkNext(t, g, f, i)
      BY <2>2 DEF WalkNext
    <2>4. CASE i = m
      BY <1>6, <2>1, <2>3, <2>4
    <2>5. CASE i # m
      <3>1. i \in 1 .. (m - 1) /\ i < m
        BY <2>1, <2>5
      <3>2. f[i] = WalkNext(t, g, f, i)
        BY <1>5, <3>1
      <3> QED BY <1>6, <2>3, <3>1, <3>2
    <2> QED BY <2>4, <2>5
  <1>8. h = [i \in 1 .. m |-> WalkNext(t, g, h, i)]
    BY <1>6, <1>7
  <1> QED BY <1>2, <1>8

LEMMA WalkIs ==
  ASSUME NEW t, NEW g, IsFiniteSet(t.live)
  PROVE  Walk(t, g) = [i \in 1 .. Cardinality(t.live) |-> WalkNext(t, g, Walk(t, g), i)]
  <1>1. Cardinality(t.live) \in Nat
    BY FS_CardinalityType
  <1>2. \E f : f = [i \in 1 .. Cardinality(t.live) |-> WalkNext(t, g, f, i)]
    BY <1>1, WalkExists
  <1>3. Walk(t, g) = CHOOSE f : f = [i \in 1 .. Cardinality(t.live) |-> WalkNext(t, g, f, i)]
    BY DEF Walk, WalkNext
  <1> QED BY <1>2, <1>3

(* q is the list of g: it begins at the head, follows mNext to the tail,   *)
(* and meets every child of g, once.                                       *)
Members(t, g) == {n \in t.live : t.mParent[n] = g}
IsListOf(t, g, q, k) ==
    /\ k \in Nat /\ q \in [1 .. k -> t.live]
    /\ \A i, j \in 1 .. k : q[i] = q[j] => i = j
    /\ {q[i] : i \in 1 .. k} = Members(t, g)
    /\ k = Cardinality(Members(t, g))
    /\ k = 0 => t.mHead[g] = Nil
    /\ k # 0 => q[1] = t.mHead[g]
    /\ \A i \in 1 .. k : t.mNext[q[i]] = IF i = k THEN Nil ELSE q[i + 1]

LEMMA WalkMeets ==
  ASSUME NEW t, GoodTree(t), NEW g \in Groups \cap t.live
  PROVE  \E k : Children(t, g) = [i \in 1 .. k |-> Walk(t, g)[i]]
                  /\ IsListOf(t, g, Children(t, g), k)
  <1> DEFINE N == Cardinality(t.live)
  <1>1. PICK w : w = Walk(t, g)
    OBVIOUS
  <1>2. N \in Nat /\ N > 0
    BY FS_CardinalityType, FS_EmptySet DEF GoodTree
  <1>3. w = [i \in 1 .. N |-> WalkNext(t, g, w, i)]
    BY <1>1, WalkIs DEF GoodTree
  <1> HIDE DEF N
  <1>4. /\ w[1] = t.mHead[g]
        /\ \A i \in 1 .. N : i # 1 =>
              /\ i - 1 \in 1 .. N
              /\ w[i] = IF w[i - 1] = Nil THEN Nil ELSE t.mNext[w[i - 1]]
    BY <1>2, <1>3 DEF WalkNext
  (* Every pointer of the walk leads to a child of g, and back to the one before. *)
  <1>5. \A i \in 1 .. N : w[i] # Nil => w[i] \in t.live /\ t.mParent[w[i]] = g
    <2> DEFINE T == {i \in 1 .. N : w[i] # Nil /\ ~ (w[i] \in t.live /\ t.mParent[w[i]] = g)}
    <2>1. SUFFICES ASSUME T # {} PROVE FALSE
      OBVIOUS
    <2>2. PICK m \in T : \A k \in T : m <= k
      <3>1. T \subseteq Nat
        BY <1>2
      <3> HIDE DEF T
      <3> QED BY <2>1, <3>1, LeastNat
    <2>3. CASE m = 1
      BY <1>4, <2>2, <2>3, Types DEF GoodTree, WellLinked, HeadIsFirst
    <2>4. CASE m # 1
      <3>1. m - 1 \in 1 .. N /\ m - 1 \notin T
        BY <1>2, <1>4, <2>2, <2>4
      <3>2. w[m - 1] # Nil /\ w[m] = t.mNext[w[m - 1]] /\ w[m] # Nil
        BY <1>4, <2>2, <2>4
      <3>3. w[m - 1] \in t.live /\ t.mParent[w[m - 1]] = g
        BY <3>1, <3>2
      <3> QED BY <2>2, <3>2, <3>3, Types DEF GoodTree, WellLinked, NextAgrees
    <2> QED BY <2>3, <2>4
  <1>6. \A i \in 1 .. N : w[i] # Nil =>
           t.mPrev[w[i]] = IF i = 1 THEN Nil ELSE w[i - 1]
    <2> SUFFICES ASSUME NEW i \in 1 .. N, w[i] # Nil
                 PROVE  t.mPrev[w[i]] = IF i = 1 THEN Nil ELSE w[i - 1]
      OBVIOUS
    <2>1. CASE i = 1
      BY <1>4, <2>1, Types DEF GoodTree, WellLinked, HeadIsFirst
    <2>2. CASE i # 1
      <3>1. i - 1 \in 1 .. N /\ w[i - 1] # Nil /\ w[i] = t.mNext[w[i - 1]]
        BY <1>4, <2>2
      <3>2. w[i - 1] \in t.live
        BY <1>5, <3>1
      <3> QED BY <2>2, <3>1, <3>2, Types DEF GoodTree, WellLinked, NextAgrees
    <2> QED BY <2>1, <2>2
  (* So no node is met twice. *)
  <1>7. \A i, j \in 1 .. N : w[i] # Nil /\ w[i] = w[j] => i = j
    <2> DEFINE T == {i \in 1 .. N : w[i] # Nil /\ \E j \in 1 .. N : i < j /\ w[i] = w[j]}
    <2>1. ASSUME T # {} PROVE FALSE
      <3>1. PICK m \in T : \A k \in T : m <= k
        <4>1. T \subseteq Nat
          BY <1>2
        <4> HIDE DEF T
        <4> QED BY <2>1, <4>1, LeastNat
      <3>2. PICK j \in 1 .. N : m < j /\ w[m] = w[j]
        BY <3>1
      <3>3. m \in 1 .. N /\ w[m] # Nil /\ j # 1 /\ j - 1 \in 1 .. N
        BY <1>2, <3>1, <3>2
      <3>4. t.mPrev[w[m]] = w[j - 1] /\ w[j - 1] # Nil
        BY <1>4, <1>6, <3>2, <3>3
      <3>5. m # 1 /\ m - 1 \in 1 .. N /\ w[m - 1] = w[j - 1] /\ w[m - 1] # Nil
        BY <1>4, <1>6, <3>3, <3>4
      <3>6. m - 1 \in T
        BY <1>2, <3>2, <3>3, <3>5
      <3> QED BY <1>2, <3>1, <3>3, <3>6
    <2>2. T = {}
      BY <2>1
    <2>3. \A i, j \in 1 .. N : w[i] # Nil /\ w[i] = w[j] => ~ (i < j)
      BY <2>2
    <2> QED BY <1>2, <2>3
  (* The pointers that are not Nil come first. *)
  <1> DEFINE K == {i \in 1 .. N : w[i] # Nil}
  <1>8. PICK k \in 0 .. N : K = 1 .. k
    <2> DEFINE T == {i \in Nat : i + 1 \notin K}
    <2>1. N \in T /\ T \subseteq Nat
      BY <1>2
    <2>2. PICK m \in T : \A i \in T : m <= i
      <3> HIDE DEF T
      <3> QED BY <2>1, LeastNat
    <2>3. m \in 0 .. N /\ m + 1 \notin K
      BY <1>2, <2>1, <2>2
    <2>4. \A i \in 1 .. m : i \in K
      <3> TAKE i \in 1 .. m
      <3>1. i - 1 \in Nat /\ ~ (m <= i - 1)
        BY <2>3
      <3>2. i - 1 \notin T
        BY <2>2, <3>1
      <3> QED BY <2>3, <3>1, <3>2
    <2>5. \A i \in K : i <= m
      <3> DEFINE U == {i \in K : i > m}
      <3>1. SUFFICES ASSUME U # {} PROVE FALSE
        BY <1>2, <2>3
      <3>2. PICK u \in U : \A i \in U : u <= i
        <4>1. U \subseteq Nat
          BY <1>2
        <4> HIDE DEF U
        <4> QED BY <3>1, <4>1, LeastNat
      <3>3. u \in 1 .. N /\ u > m /\ u # m + 1 /\ w[u] # Nil
        BY <2>3, <3>2
      <3>4. u # 1 /\ u - 1 \in 1 .. N /\ w[u - 1] # Nil
        BY <1>2, <1>4, <2>3, <3>3
      <3>5. u - 1 \in U
        BY <1>2, <2>3, <3>3, <3>4
      <3> QED BY <1>2, <3>2, <3>3, <3>5
    <2>6. K \subseteq 1 .. m
      <3>1. \A i \in K : i \in 1 .. N /\ i <= m
        BY <2>5
      <3> QED BY <1>2, <2>3, <3>1
    <2>7. K = 1 .. m
      BY <2>4, <2>6
    <2> QED BY <2>3, <2>7
  <1>9. \A i \in 1 .. k : i \in 1 .. N /\ w[i] # Nil
    BY <1>8
  <1>10. \A i \in (1 .. N) \ (1 .. k) : w[i] = Nil
    BY <1>8
  <1> HIDE DEF K
  (* The walk leaves no child out. *)
  <1> DEFINE M == Members(t, g)
             W == {w[i] : i \in 1 .. k}
  <1>11. W \subseteq M
    BY <1>5, <1>9 DEF Members
  <1>12. k = N => W = t.live
    <2>1. SUFFICES ASSUME k = N PROVE W = t.live
      OBVIOUS
    <2>2. PICK f : f = [i \in 1 .. N |-> w[i]]
      OBVIOUS
    <2>3. f \in Injection(1 .. N, t.live)
      <3>1. \A i \in 1 .. N : w[i] # Nil /\ w[i] \in t.live
        BY <1>5, <1>9, <2>1
      <3>2. f \in [1 .. N -> t.live]
        BY <2>2, <3>1
      <3>3. \A i, j \in 1 .. N : f[i] = f[j] => i = j
        BY <1>7, <2>2, <3>1
      <3> QED BY <3>2, <3>3 DEF Injection, IsInjective
    <2>4. Cardinality(1 .. N) = Cardinality(t.live)
      BY <1>2, FS_Interval DEF N
    <2>5. f \in Surjection(1 .. N, t.live)
      BY <2>3, <2>4, FS_Injection DEF GoodTree
    <2>6. \A x \in t.live : \E i \in 1 .. N : w[i] = x
      BY <2>2, <2>5 DEF Surjection
    <2> QED BY <1>11, <2>1, <2>6 DEF Members
  <1>13. M \subseteq W
    <2> DEFINE U == M \ W
    <2>1. SUFFICES ASSUME U # {} PROVE FALSE
      OBVIOUS
    <2>2. \A x \in U : t.mPrev[x] \in U
      <3> TAKE x \in U
      <3>1. x \in t.live /\ t.mParent[x] = g /\ x \in Node /\ g # Nil
        BY Types DEF Members, GoodTree
      <3>2. k < N
        BY <1>2, <1>12, <3>1
      <3>3. t.mPrev[x] # Nil
        <4>1. SUFFICES ASSUME t.mPrev[x] = Nil PROVE FALSE
          OBVIOUS
        <4>2. t.mHead[g] = x /\ x # Nil
          BY <3>1, <4>1, Types DEF GoodTree, WellLinked, FirstIsHead
        <4>3. w[1] = x /\ 1 \in 1 .. k
          BY <1>2, <1>4, <1>10, <4>2
        <4> QED BY <4>3
      <3>4. PICK y : y = t.mPrev[x]
        OBVIOUS
      <3>5. y \in t.live /\ t.mParent[y] = g /\ t.mNext[y] = x
        BY <3>1, <3>3, <3>4, Types DEF GoodTree, WellLinked, PrevAgrees
      <3>6. y \notin W
        <4>1. SUFFICES ASSUME NEW i \in 1 .. k, y = w[i] PROVE FALSE
          OBVIOUS
        <4>2. i + 1 \in 1 .. N /\ i + 1 # 1 /\ (i + 1) - 1 = i
          BY <1>2, <1>8, <3>2
        <4>3. w[i + 1] = x
          BY <1>4, <1>9, <3>5, <4>1, <4>2
        <4>4. i + 1 \in 1 .. k
          BY <1>10, <3>1, <4>2, <4>3, Types DEF GoodTree
        <4> QED BY <4>3, <4>4
      <3> QED BY <3>4, <3>5, <3>6 DEF Members
    <2>3. U \in SUBSET t.live
      BY DEF Members
    <2> HIDE DEF U
    <2> QED BY <2>1, <2>2, <2>3 DEF GoodTree, NoRing
  <1>14. W = M
    BY <1>11, <1>13
  <1>15. k = Cardinality(M)
    <2>1. PICK f : f = [i \in 1 .. k |-> w[i]]
      OBVIOUS
    <2>2. f \in Bijection(1 .. k, M)
      <3>1. f \in [1 .. k -> M]
        BY <1>14, <2>1
      <3>2. \A i, j \in 1 .. k : f[i] = f[j] => i = j
        BY <1>7, <1>9, <2>1
      <3>3. \A x \in M : \E i \in 1 .. k : f[i] = x
        BY <1>14, <2>1
      <3> QED BY <3>1, <3>2, <3>3 DEF Bijection, Injection, Surjection, IsInjective
    <2>3. IsFiniteSet(1 .. k) /\ Cardinality(1 .. k) = k
      BY <1>8, FS_Interval
    <2>4. ExistsBijection(1 .. k, M)
      BY <2>2 DEF ExistsBijection
    <2> HIDE DEF M
    <2> QED BY <2>3, <2>4, FS_Bijection
  <1>16. Children(t, g) = [i \in 1 .. k |-> w[i]]
    <2>1. DOMAIN w = 1 .. N
      BY <1>3
    <2>2. {i \in DOMAIN w : w[i] # Nil} = 1 .. k
      BY <1>8, <2>1 DEF K
    <2>3. Cardinality(1 .. k) = k
      BY <1>8, FS_Interval
    <2> QED BY <1>1, <2>2, <2>3 DEF Children
  <1>17. \A i \in 1 .. k : t.mNext[w[i]] = IF i = k THEN Nil ELSE w[i + 1]
    <2> TAKE i \in 1 .. k
    <2>1. CASE i < N
      <3>1. i + 1 \in 1 .. N /\ i + 1 # 1 /\ (i + 1) - 1 = i
        BY <1>2, <1>8, <2>1
      <3>2. w[i + 1] = t.mNext[w[i]]
        BY <1>4, <1>9, <3>1
      <3>3. i = k => i + 1 \notin 1 .. k
        BY <1>8
      <3> QED BY <1>10, <3>1, <3>2, <3>3
    <2>2. CASE i = N
      <3>1. i = k
        BY <1>8, <2>2
      <3>2. SUFFICES ASSUME t.mNext[w[i]] # Nil PROVE FALSE
        BY <3>1
      <3>3. PICK x : x = t.mNext[w[i]]
        OBVIOUS
      <3>4. x \in t.live /\ t.mPrev[x] = w[i]
        BY <1>5, <1>9, <3>2, <3>3, Types DEF GoodTree, WellLinked, NextAgrees
      <3>5. PICK j \in 1 .. k : x = w[j]
        BY <1>12, <2>2, <3>1, <3>4
      <3>6. j # 1 /\ w[j - 1] = w[i]
        BY <1>6, <1>9, <3>4, <3>5
      <3>7. j - 1 \in 1 .. N /\ j - 1 # i
        BY <1>2, <1>8, <3>1, <3>5, <3>6
      <3> QED BY <1>7, <1>9, <3>6, <3>7
    <2>3. i < N \/ i = N
      BY <1>2, <1>8
    <2> QED BY <2>1, <2>2, <2>3
  <1>18. k = 0 => t.mHead[g] = Nil
    BY <1>2, <1>4, <1>10
  <1>19. k # 0 => w[1] = t.mHead[g]
    BY <1>4
  <1> QED
    <2> DEFINE q == [i \in 1 .. k |-> w[i]]
    <2>1. q \in [1 .. k -> t.live] /\ \A i \in 1 .. k : q[i] = w[i]
      BY <1>5, <1>9
    <2>2. k # 0 => q[1] = t.mHead[g]
      BY <1>8, <1>19
    <2>3. {q[i] : i \in 1 .. k} = M
      BY <1>14, <2>1
    <2>4. \A i \in 1 .. k : t.mNext[q[i]] = IF i = k THEN Nil ELSE q[i + 1]
      <3> TAKE i \in 1 .. k
      <3>1. i # k => i + 1 \in 1 .. k
        BY <1>8
      <3> QED BY <1>17, <2>1, <3>1
    <2>5. \A i, j \in 1 .. k : q[i] = q[j] => i = j
      BY <1>7, <1>9, <2>1
    <2>6. k \in Nat
      BY <1>8
    <2> HIDE DEF q, M
    <2>7. IsListOf(t, g, q, k)
      BY <1>15, <1>18, <2>1, <2>2, <2>3, <2>4, <2>5, <2>6 DEF IsListOf, M
    <2> QED BY <1>1, <1>16, <2>7 DEF q

LEMMA WalkMeetsMembers ==
  ASSUME GoodTree(tree)
  PROVE  WalkMeetsAllChildren
  <1> SUFFICES ASSUME NEW g \in Groups \cap tree.live
               PROVE  /\ Len(Children(tree, g)) = Cardinality(Members(tree, g))
                      /\ \A n \in Members(tree, g) :
                            \E i \in 1 .. Len(Children(tree, g)) : Children(tree, g)[i] = n
    BY DEF WalkMeetsAllChildren, Members
  <1>1. PICK q : q = Children(tree, g)
    OBVIOUS
  <1>2. PICK k : q = [i \in 1 .. k |-> Walk(tree, g)[i]] /\ IsListOf(tree, g, q, k)
    BY <1>1, WalkMeets
  <1>3. Len(q) = k
    BY <1>2 DEF IsListOf
  <1> QED BY <1>1, <1>2, <1>3 DEF IsListOf

(* No command cuts a live node off from the audio callback: each is found  *)
(* by walking down from the root (Group_Calc), and the walk over the       *)
(* children of a group meets them all, once.                               *)
THEOREM NodesStayInTree == Careful => (Spec => []EveryNodeInTree)
  <1>1. IInv => EveryNodeInTree
    BY InTreeIsRooted, WalkMeetsMembers DEF IInv, KeptTree, GoodTree, EveryNodeInTree
  <1> QED BY <1>1, Invariance, PTL

-----------------------------------------------------------------------------
(* What the functions on sequences that NodeOrder uses do to the elements. *)
InsertedAt(r, S, q, i, e) ==
    /\ r \in Seq(S) /\ Len(r) = Len(q) + 1
    /\ \A j \in 1 .. Len(q) + 1 :
          r[j] = IF j < i THEN q[j] ELSE IF j = i THEN e ELSE q[j - 1]
RemovedAt(r, S, q, i) ==
    /\ r \in Seq(S) /\ Len(r) = Len(q) - 1
    /\ \A j \in 1 .. Len(q) - 1 : r[j] = IF j < i THEN q[j] ELSE q[j + 1]

LEMMA InsertAtIs ==
  ASSUME NEW S, NEW q \in Seq(S), NEW i \in 1 .. Len(q) + 1, NEW e \in S
  PROVE  InsertedAt(Order!InsertAt(q, i, e), S, q, i, e)
  <1>1. Len(q) \in Nat /\ \A j \in 1 .. Len(q) : q[j] \in S
    BY LenProperties, ElementOfSeq
  <1>2. PICK a, b, c : a = SubSeq(q, 1, i - 1) /\ b = a \o <<e>> /\ c = SubSeq(q, i, Len(q))
    OBVIOUS
  <1>3. a \in Seq(S) /\ Len(a) = i - 1 /\ \A j \in 1 .. i - 1 : a[j] = q[j]
    BY <1>1, <1>2, SubSeqProperties
  <1>4. c \in Seq(S) /\ Len(c) = Len(q) - i + 1 /\ \A j \in 1 .. Len(q) - i + 1 : c[j] = q[i + j - 1]
    <2>1. /\ c \in Seq(S) /\ Len(c) = IF i <= Len(q) THEN Len(q) - i + 1 ELSE 0
          /\ \A j \in 1 .. Len(q) - i + 1 : c[j] = q[i + j - 1]
      BY <1>1, <1>2, SubSeqProperties
    <2> QED BY <1>1, <2>1
  <1>5. b \in Seq(S) /\ Len(b) = i /\ \A j \in 1 .. i : b[j] = IF j < i THEN q[j] ELSE e
    <2>1. <<e>> \in Seq(S) /\ Len(<<e>>) = 1 /\ <<e>>[1] = e
      OBVIOUS
    <2>2. /\ b \in Seq(S) /\ Len(b) = i - 1 + 1
          /\ \A j \in 1 .. i - 1 + 1 : b[j] = IF j <= i - 1 THEN a[j] ELSE <<e>>[j - (i - 1)]
      BY <1>2, <1>3, <2>1, ConcatProperties
    <2> QED BY <1>1, <1>3, <2>1, <2>2
  <1>6. Order!InsertAt(q, i, e) = b \o c
    BY <1>2 DEF Order!InsertAt
  <1>7. /\ b \o c \in Seq(S) /\ Len(b \o c) = Len(b) + Len(c)
        /\ \A j \in 1 .. Len(b) + Len(c) :
              (b \o c)[j] = IF j <= Len(b) THEN b[j] ELSE c[j - Len(b)]
    BY <1>4, <1>5, ConcatProperties
  <1>8. Len(b) + Len(c) = Len(q) + 1
    BY <1>1, <1>4, <1>5
  <1>9. ASSUME NEW j \in 1 .. Len(q) + 1
        PROVE  (b \o c)[j] = IF j < i THEN q[j] ELSE IF j = i THEN e ELSE q[j - 1]
    <2>1. CASE j <= i
      BY <1>1, <1>5, <1>7, <1>8, <2>1
    <2>2. CASE j > i
      <3>1. j - i \in 1 .. Len(q) - i + 1 /\ i + (j - i) - 1 = j - 1
        BY <1>1, <2>2
      <3> QED BY <1>1, <1>4, <1>5, <1>7, <1>8, <2>2, <3>1
    <2>3. j <= i \/ j > i
      BY <1>1
    <2> QED BY <2>1, <2>2, <2>3
  <1> QED BY <1>6, <1>7, <1>8, <1>9 DEF InsertedAt

LEMMA RemoveAtIs ==
  ASSUME NEW S, NEW q \in Seq(S), NEW i \in 1 .. Len(q)
  PROVE  RemovedAt(Order!RemoveAt(q, i), S, q, i)
  <1>1. Len(q) \in Nat /\ \A j \in 1 .. Len(q) : q[j] \in S
    BY LenProperties, ElementOfSeq
  <1>2. PICK a, c : a = SubSeq(q, 1, i - 1) /\ c = SubSeq(q, i + 1, Len(q))
    OBVIOUS
  <1>3. a \in Seq(S) /\ Len(a) = i - 1 /\ \A j \in 1 .. i - 1 : a[j] = q[j]
    BY <1>1, <1>2, SubSeqProperties
  <1>4. c \in Seq(S) /\ Len(c) = Len(q) - i /\ \A j \in 1 .. Len(q) - i : c[j] = q[i + j]
    <2>1. /\ c \in Seq(S) /\ Len(c) = IF i + 1 <= Len(q) THEN Len(q) - (i + 1) + 1 ELSE 0
          /\ \A j \in 1 .. Len(q) - (i + 1) + 1 : c[j] = q[(i + 1) + j - 1]
      BY <1>1, <1>2, SubSeqProperties
    <2> QED BY <1>1, <2>1
  <1>5. /\ a \o c \in Seq(S) /\ Len(a \o c) = Len(a) + Len(c)
        /\ \A j \in 1 .. Len(a) + Len(c) :
              (a \o c)[j] = IF j <= Len(a) THEN a[j] ELSE c[j - Len(a)]
    BY <1>3, <1>4, ConcatProperties
  <1>6. Len(a) + Len(c) = Len(q) - 1
    BY <1>1, <1>3, <1>4
  <1>7. ASSUME NEW j \in 1 .. Len(q) - 1
        PROVE  (a \o c)[j] = IF j < i THEN q[j] ELSE q[j + 1]
    <2>1. CASE j < i
      BY <1>1, <1>3, <1>5, <1>6, <2>1
    <2>2. CASE j >= i
      <3>1. /\ j - (i - 1) \in 1 .. Len(q) - i /\ i + (j - (i - 1)) = j + 1
            /\ ~ (j <= i - 1) /\ ~ (j < i)
        BY <1>1, <2>2
      <3>2. c[j - (i - 1)] = q[j + 1]
        BY <1>4, <3>1
      <3>3. (a \o c)[j] = c[j - (i - 1)]
        BY <1>3, <1>5, <1>6, <3>1
      <3> QED BY <3>1, <3>2, <3>3
    <2>3. j < i \/ j >= i
      BY <1>1
    <2> QED BY <2>1, <2>2, <2>3
  <1>8. Order!RemoveAt(q, i) = a \o c
    BY <1>2 DEF Order!RemoveAt
  <1> QED BY <1>5, <1>6, <1>7, <1>8 DEF RemovedAt

LEMMA RemoveFirstIs ==
  ASSUME NEW S, NEW q \in Seq(S), \A i, j \in 1 .. Len(q) : q[i] = q[j] => i = j, NEW e
  PROVE  /\ (\A i \in 1 .. Len(q) : q[i] # e) => Order!RemoveFirst(q, e) = q
         /\ \A i \in 1 .. Len(q) : q[i] = e => Order!RemoveFirst(q, e) = Order!RemoveAt(q, i)
  <1>1. ASSUME \A i \in 1 .. Len(q) : q[i] # e PROVE Order!RemoveFirst(q, e) = q
    BY <1>1 DEF Order!RemoveFirst
  <1>2. ASSUME NEW i \in 1 .. Len(q), q[i] = e
        PROVE  Order!RemoveFirst(q, e) = Order!RemoveAt(q, i)
    <2>1. {j \in 1 .. Len(q) : q[j] = e} = {i}
      BY <1>2
    <2>2. i \in Nat
      BY LenProperties
    <2>3. Order!Min({i}) = i
      BY <2>2 DEF Order!Min
    <2>4. Order!SelectInSeq(q, LAMBDA v : v = e) = i
      BY <2>1, <2>3 DEF Order!SelectInSeq
    <2> QED BY <1>2, <2>4 DEF Order!RemoveFirst
  <1> QED BY <1>1, <1>2

-----------------------------------------------------------------------------
(* q is the list of g, told by links and members alone: there is only one. *)
Elements(q) == {q[i] : i \in 1 .. Len(q)}
Injective(q) == \A i, j \in 1 .. Len(q) : q[i] = q[j] => i = j
Listed(t, g, q) ==
    /\ q \in Seq(Node) /\ Injective(q)
    /\ Elements(q) = Members(t, g)
    /\ \A i \in 1 .. Len(q) : t.mNext[q[i]] = IF i = Len(q) THEN Nil ELSE q[i + 1]

LEMMA ListedFacts ==
  ASSUME NEW t, NEW g, NEW q, Listed(t, g, q)
  PROVE  /\ q \in Seq(Node) /\ Len(q) \in Nat /\ Injective(q)
         /\ \A i \in 1 .. Len(q) :
               /\ q[i] \in t.live /\ q[i] \in Node /\ t.mParent[q[i]] = g
               /\ t.mNext[q[i]] = IF i = Len(q) THEN Nil ELSE q[i + 1]
         /\ \A n \in t.live : t.mParent[n] = g => \E i \in 1 .. Len(q) : q[i] = n
  <1>1. q \in Seq(Node) /\ Len(q) \in Nat /\ \A i \in 1 .. Len(q) : q[i] \in Node
    BY LenProperties, ElementOfSeq DEF Listed
  <1>2. \A i \in 1 .. Len(q) : q[i] \in Members(t, g)
    BY DEF Listed, Elements
  <1>3. \A n \in Members(t, g) : \E i \in 1 .. Len(q) : q[i] = n
    BY DEF Listed, Elements
  <1> QED BY <1>1, <1>2, <1>3 DEF Listed, Members

LEMMA ListedHead ==
  ASSUME NEW t, GoodTree(t), NEW g \in Groups \cap t.live, NEW q, Listed(t, g, q)
  PROVE  t.mHead[g] = IF Len(q) = 0 THEN Nil ELSE q[1]
  <1> USE Types, ListedFacts DEF GoodTree, WellLinked
  <1>1. CASE Len(q) = 0
    <2>1. \A n \in t.live : t.mParent[n] # g
      BY <1>1
    <2> QED BY <1>1, <2>1 DEF HeadIsFirst
  <1>2. CASE Len(q) # 0
    <2>1. 1 \in 1 .. Len(q) /\ q[1] \in t.live /\ t.mParent[q[1]] = g /\ g # Nil
      BY <1>2
    <2>2. ASSUME t.mPrev[q[1]] # Nil PROVE FALSE
      <3>1. /\ t.mPrev[q[1]] \in t.live /\ t.mNext[t.mPrev[q[1]]] = q[1]
            /\ t.mParent[t.mPrev[q[1]]] = g
        BY <2>1, <2>2 DEF PrevAgrees
      <3>2. PICK i \in 1 .. Len(q) : q[i] = t.mPrev[q[1]]
        BY <3>1
      <3>3. t.mNext[q[i]] = q[1] /\ q[1] # Nil
        BY <2>1, <3>1, <3>2
      <3>4. i # Len(q) /\ q[i + 1] = q[1] /\ i + 1 \in 1 .. Len(q)
        BY <3>3
      <3> QED BY <2>1, <3>4 DEF Injective
    <2> QED BY <1>2, <2>1, <2>2 DEF FirstIsHead
  <1> QED BY <1>1, <1>2

LEMMA ListedPrefix ==
  ASSUME NEW t, GoodTree(t), NEW g \in Groups \cap t.live,
         NEW q, Listed(t, g, q), NEW p, Listed(t, g, p)
  PROVE  Len(q) <= Len(p) /\ \A i \in 1 .. Len(q) : q[i] = p[i]
  <1> DEFINE T == {i \in 1 .. Len(q) : i > Len(p) \/ q[i] # p[i]}
  <1>0. /\ Len(q) \in Nat /\ Len(p) \in Nat
        /\ \A i \in 1 .. Len(q) : q[i] \in Node /\ t.mNext[q[i]] = IF i = Len(q) THEN Nil ELSE q[i + 1]
        /\ \A i \in 1 .. Len(p) : p[i] \in Node /\ t.mNext[p[i]] = IF i = Len(p) THEN Nil ELSE p[i + 1]
        /\ Nil \notin Node
    BY ListedFacts, Types DEF GoodTree
  <1>1. ASSUME T # {} PROVE FALSE
    <2>1. T \subseteq Nat
      BY <1>0
    <2>2. PICK m \in T : \A k \in T : m <= k
      BY <1>1, <2>1, LeastNat
    <2>3. m \in 1 .. Len(q) /\ (m > Len(p) \/ q[m] # p[m])
      BY <2>2
    <2>4. CASE m = 1
      <3>1. q[1] = t.mHead[g] /\ q[1] # Nil
        BY <1>0, <2>3, <2>4, ListedHead
      <3>2. Len(p) # 0 /\ p[1] = q[1]
        BY <3>1, ListedHead
      <3> QED BY <1>0, <2>3, <2>4, <3>2
    <2>5. CASE m # 1
      <3>1. m - 1 \in 1 .. Len(q) /\ m - 1 \notin T
        BY <1>0, <2>2, <2>3, <2>5
      <3>2. m - 1 \in 1 .. Len(p) /\ p[m - 1] = q[m - 1]
        BY <1>0, <3>1
      <3>3. t.mNext[q[m - 1]] = q[m] /\ q[m] # Nil
        <4>1. m - 1 # Len(q) /\ m - 1 + 1 = m
          BY <1>0, <2>3
        <4> QED BY <1>0, <2>3, <3>1, <4>1
      <3>4. m - 1 # Len(p) /\ p[m] = q[m]
        <4>1. m - 1 + 1 = m
          BY <1>0, <2>3
        <4> QED BY <1>0, <3>2, <3>3, <4>1
      <3> QED BY <1>0, <2>3, <3>2, <3>4
    <2> QED BY <2>4, <2>5
  <1>2. \A i \in 1 .. Len(q) : i <= Len(p) /\ q[i] = p[i]
    BY <1>0, <1>1
  <1>3. Len(q) <= Len(p)
    BY <1>0, <1>2
  <1> QED BY <1>2, <1>3

LEMMA OneList ==
  ASSUME NEW t, GoodTree(t), NEW g \in Groups \cap t.live,
         NEW q, Listed(t, g, q), NEW p, Listed(t, g, p)
  PROVE  q = p
  <1>1. q \in Seq(Node) /\ p \in Seq(Node) /\ Len(q) \in Nat /\ Len(p) \in Nat
    BY ListedFacts
  <1>2. Len(q) = Len(p) /\ \A i \in 1 .. Len(q) : q[i] = p[i]
    <2>1. Len(q) <= Len(p) /\ \A i \in 1 .. Len(q) : q[i] = p[i]
      BY ListedPrefix
    <2>2. Len(p) <= Len(q)
      BY ListedPrefix
    <2> QED BY <1>1, <2>1, <2>2
  <1> QED BY <1>1, <1>2, SeqEqual

(* The walk over the children of a group finds that list.                  *)
LEMMA WalkListed ==
  ASSUME NEW t, GoodTree(t), NEW g \in Groups \cap t.live
  PROVE  Listed(t, g, Children(t, g))
  <1>1. PICK q : q = Children(t, g)
    OBVIOUS
  <1>2. PICK k : IsListOf(t, g, q, k)
    BY <1>1, WalkMeets
  <1>3. /\ k \in Nat /\ q \in [1 .. k -> Node] /\ q \in [1 .. k -> t.live]
    BY <1>2, Types DEF IsListOf, GoodTree
  <1>4. q \in Seq(Node) /\ Len(q) = k
    BY <1>3
  <1> QED BY <1>1, <1>2, <1>4 DEF IsListOf, Listed, Injective, Elements

-----------------------------------------------------------------------------
(* What happens to the lists when links change.                            *)
LEMMA ListStays ==
  ASSUME NEW t, NEW u, NEW g, NEW q, Listed(t, g, q), Members(u, g) = Members(t, g),
         \A x \in Members(t, g) : u.mNext[x] = t.mNext[x]
  PROVE  Listed(u, g, q)
  <1>1. \A i \in 1 .. Len(q) : q[i] \in Members(t, g)
    BY DEF Listed, Elements
  <1> QED BY <1>1 DEF Listed

LEMMA ListEmpty ==
  ASSUME NEW t, NEW g, Members(t, g) = {}
  PROVE  Listed(t, g, <<>>)
  BY DEF Listed, Elements, Injective

(* A node that is put between p and n stands between them in the list.     *)
LEMMA ListInserted ==
  ASSUME NEW t, GoodTree(t), NEW s \in t.live, t.mParent[s] = Nil,
         NEW g, NEW p, NEW n, Gap(t, g, p, n), NEW u, Placed(t, u, s, g, p, n),
         NEW q, Listed(t, g, q)
  PROVE  \E i \in 1 .. Len(q) + 1 : Listed(u, g, Order!InsertAt(q, i, s))
  <1>1. /\ t \in TreeType /\ s \in Node /\ Nil \notin Node /\ t.live \subseteq Node
        /\ g \in Groups \cap t.live /\ g # Nil /\ p # s /\ u.live = t.live
        /\ \A x \in Node : /\ u.mNext[x] = IF x = s THEN n ELSE IF x = p THEN s ELSE t.mNext[x]
                           /\ u.mParent[x] = IF x = s THEN g ELSE t.mParent[x]
    BY Types DEF GoodTree, Gap, Placed
  <1>2. /\ q \in Seq(Node) /\ Len(q) \in Nat /\ Injective(q)
        /\ \A i \in 1 .. Len(q) :
              /\ q[i] \in t.live /\ q[i] \in Node /\ t.mParent[q[i]] = g
              /\ t.mNext[q[i]] = IF i = Len(q) THEN Nil ELSE q[i + 1]
        /\ \A x \in t.live : t.mParent[x] = g => \E i \in 1 .. Len(q) : q[i] = x
    BY ListedFacts
  <1>3. \A i \in 1 .. Len(q) : q[i] # s
    BY <1>1, <1>2
  <1>4. PICK i \in 1 .. Len(q) + 1 : /\ n = IF i = Len(q) + 1 THEN Nil ELSE q[i]
                                     /\ i = 1 => p = Nil
                                     /\ i # 1 => i - 1 \in 1 .. Len(q) /\ q[i - 1] = p
    <2>1. CASE p = Nil
      <3>1. n = IF Len(q) = 0 THEN Nil ELSE q[1]
        BY <1>1, <2>1, ListedHead DEF Gap
      <3> QED BY <1>2, <2>1, <3>1
    <2>2. CASE p # Nil
      <3>1. p \in t.live /\ t.mParent[p] = g /\ t.mNext[p] = n
        BY <2>2 DEF Gap
      <3>2. PICK j \in 1 .. Len(q) : q[j] = p
        BY <1>2, <3>1
      <3>3. n = IF j = Len(q) THEN Nil ELSE q[j + 1]
        BY <1>2, <3>1, <3>2
      <3>4. /\ j + 1 \in 1 .. Len(q) + 1 /\ j + 1 # 1 /\ j + 1 - 1 = j
            /\ j + 1 = Len(q) + 1 <=> j = Len(q)
        BY <1>2
      <3> QED BY <3>2, <3>3, <3>4
    <2> QED BY <2>1, <2>2
  <1>5. PICK r : r = Order!InsertAt(q, i, s)
    OBVIOUS
  <1>6. /\ r \in Seq(Node) /\ Len(r) = Len(q) + 1
        /\ \A j \in 1 .. Len(q) + 1 :
              r[j] = IF j < i THEN q[j] ELSE IF j = i THEN s ELSE q[j - 1]
    <2>1. q \in Seq(Node) /\ s \in Node
      BY <1>1, <1>2
    <2>2. InsertedAt(r, Node, q, i, s)
      BY <1>5, <2>1, InsertAtIs
    <2> QED BY <2>2 DEF InsertedAt
  <1>7. Injective(r)
    <2>1. SUFFICES ASSUME NEW j \in 1 .. Len(r), NEW k \in 1 .. Len(r), r[j] = r[k], j < k
                   PROVE  FALSE
      BY <1>2, <1>6 DEF Injective
    <2>2. /\ j < i => j \in 1 .. Len(q)
          /\ k < i => k \in 1 .. Len(q)
          /\ j > i => j - 1 \in 1 .. Len(q)
          /\ k > i => k - 1 \in 1 .. Len(q)
          /\ j \in 1 .. Len(q) + 1 /\ k \in 1 .. Len(q) + 1
          /\ (j < i \/ j = i \/ j > i) /\ (k < i \/ k = i \/ k > i)
          /\ j # k /\ j - 1 # k - 1
          /\ j >= i => k > i
          /\ j > i => ~ (j < i) /\ j # i
          /\ k > i => ~ (k < i) /\ k # i
      BY <1>2, <1>6, <2>1
    <2>3. /\ r[j] = IF j < i THEN q[j] ELSE IF j = i THEN s ELSE q[j - 1]
          /\ r[k] = IF k < i THEN q[k] ELSE IF k = i THEN s ELSE q[k - 1]
      BY <1>6, <2>2
    <2>4. \A a, b \in 1 .. Len(q) : q[a] = q[b] => a = b
      BY <1>2 DEF Injective
    <2>5. j < i /\ k > i => j # k - 1
      BY <1>2, <2>2
    <2>6. CASE j < i /\ k < i
      BY <2>1, <2>2, <2>3, <2>4, <2>6
    <2>7. CASE j < i /\ k = i
      BY <1>3, <2>1, <2>2, <2>3, <2>7
    <2>8. CASE j < i /\ k > i
      <3>1. r[k] = q[k - 1] /\ r[j] = q[j]
        BY <1>2, <2>2, <2>3, <2>8
      <3> QED BY <2>1, <2>2, <2>4, <2>5, <2>8, <3>1
    <2>9. CASE j >= i
      <3>1. k > i /\ r[k] = q[k - 1] /\ k - 1 \in 1 .. Len(q)
        BY <1>2, <2>1, <2>2, <2>3, <2>9
      <3>2. CASE j = i
        <4>1. ~ (j < i)
          BY <1>2, <3>2
        <4>2. r[j] = s
          BY <2>3, <3>2, <4>1
        <4> QED BY <1>3, <2>1, <3>1, <4>2
      <3>3. CASE j > i
        <4>1. r[j] = q[j - 1] /\ j - 1 \in 1 .. Len(q)
          BY <1>2, <2>2, <2>3, <3>3
        <4> QED BY <2>1, <2>2, <2>4, <3>1, <4>1
      <3> QED BY <2>2, <2>9, <3>2, <3>3
    <2> QED BY <1>2, <2>2, <2>6, <2>7, <2>8, <2>9
  <1>8. Elements(r) = Elements(q) \cup {s}
    <2>1. ASSUME NEW j \in 1 .. Len(r) PROVE r[j] \in Elements(q) \cup {s}
      <3>1. /\ j < i => j \in 1 .. Len(q)
            /\ j > i => j - 1 \in 1 .. Len(q)
            /\ j < i \/ j = i \/ j > i
            /\ j > i => ~ (j < i) /\ j # i
            /\ j \in 1 .. Len(q) + 1
        BY <1>2, <1>6
      <3>2. r[j] = IF j < i THEN q[j] ELSE IF j = i THEN s ELSE q[j - 1]
        BY <1>6, <3>1
      <3>3. r[j] = s \/ \E k \in 1 .. Len(q) : r[j] = q[k]
        BY <3>1, <3>2
      <3> QED BY <3>3 DEF Elements
    <2>2. ASSUME NEW j \in 1 .. Len(q) PROVE q[j] \in Elements(r)
      <3>1. CASE j < i
        <4>1. j \in 1 .. Len(r) /\ r[j] = q[j]
          BY <1>2, <1>6, <3>1
        <4> QED BY <4>1 DEF Elements
      <3>2. CASE ~ (j < i)
        <4>1. j + 1 \in 1 .. Len(r) /\ ~ (j + 1 < i) /\ j + 1 # i /\ j + 1 - 1 = j
          BY <1>2, <1>6, <3>2
        <4>2. r[j + 1] = q[j]
          BY <1>6, <4>1
        <4> QED BY <4>1, <4>2 DEF Elements
      <3> QED BY <3>1, <3>2
    <2>3. i \in 1 .. Len(r) /\ r[i] = s
      BY <1>2, <1>6
    <2> QED BY <2>1, <2>2, <2>3 DEF Elements
  <1>9. Members(u, g) = Members(t, g) \cup {s}
    BY <1>1 DEF Members
  <1>10. ASSUME NEW j \in 1 .. Len(r)
         PROVE  u.mNext[r[j]] = IF j = Len(r) THEN Nil ELSE r[j + 1]
    <2>1. CASE j < i - 1
      <3>1. /\ j \in 1 .. Len(q) /\ j < i /\ j # Len(q) /\ i - 1 \in 1 .. Len(q)
            /\ j + 1 \in 1 .. Len(q) + 1 /\ j + 1 < i /\ i # 1 /\ j # Len(r) /\ j # i - 1
        BY <1>2, <1>6, <2>1
      <3>2. r[j] = q[j] /\ r[j + 1] = q[j + 1] /\ q[j] # p
        BY <1>2, <1>4, <1>6, <3>1 DEF Injective
      <3> QED BY SMTT(40), <1>1, <1>2, <1>3, <3>1, <3>2
    <2>2. CASE j = i - 1
      <3>1. /\ j \in 1 .. Len(q) /\ j < i /\ j + 1 = i /\ i # 1 /\ j # Len(r)
        BY <1>2, <1>6, <2>2
      <3>2. r[j] = p /\ r[j + 1] = s
        BY <1>4, <1>6, <2>2, <3>1
      <3> QED BY <1>1, <1>2, <1>4, <2>2, <3>1, <3>2
    <2>3. CASE j = i
      <3>1. r[j] = s /\ (j = Len(r) <=> i = Len(q) + 1)
        BY <1>2, <1>6, <2>3
      <3>2. i # Len(q) + 1 => r[i + 1] = q[i]
        <4>1. SUFFICES ASSUME i # Len(q) + 1 PROVE r[i + 1] = q[i]
          OBVIOUS
        <4>2. i + 1 \in 1 .. Len(q) + 1 /\ ~ (i + 1 < i) /\ i + 1 # i /\ i + 1 - 1 = i
          BY SMTT(40), <1>2, <4>1
        <4> QED BY <1>6, <4>2
      <3> QED BY <1>1, <1>4, <2>3, <3>1, <3>2
    <2>4. CASE j > i
      <3>1. /\ j - 1 \in 1 .. Len(q) /\ ~ (j < i) /\ j # i /\ j - 1 # i - 1
            /\ j = Len(r) <=> j - 1 = Len(q)
            /\ j - 1 + 1 = j
            /\ i # 1 => i - 1 \in 1 .. Len(q)
        BY <1>2, <1>6, <2>4
      <3>2. r[j] = q[j - 1]
        BY <1>6, <3>1
      <3>3. q[j - 1] # p /\ q[j - 1] # s
        BY SMTT(40), <1>1, <1>2, <1>3, <1>4, <3>1 DEF Injective
      <3>4. j # Len(r) => r[j + 1] = q[j]
        <4>1. SUFFICES ASSUME j # Len(r) PROVE r[j + 1] = q[j]
          OBVIOUS
        <4>2. j + 1 \in 1 .. Len(q) + 1 /\ ~ (j + 1 < i) /\ j + 1 # i /\ j + 1 - 1 = j
          BY <1>2, <1>6, <2>4, <4>1
        <4> QED BY <1>6, <4>2
      <3> QED BY <1>1, <1>2, <3>1, <3>2, <3>3, <3>4
    <2>5. j < i - 1 \/ j = i - 1 \/ j = i \/ j > i
      BY <1>2
    <2> QED BY <2>1, <2>2, <2>3, <2>4, <2>5
  <1>11. Elements(r) = Members(u, g)
    BY <1>8, <1>9 DEF Listed
  <1>12. Listed(u, g, r)
    BY <1>6, <1>7, <1>10, <1>11 DEF Listed
  <1> QED BY <1>5, <1>12

(* A node that is taken out leaves its list, and no other list changes.    *)
LEMMA ListRemoved ==
  ASSUME NEW t, GoodTree(t), NEW s \in t.live, NEW u, Removed(t, u, s),
         NEW g \in Groups \cap t.live, NEW q, Listed(t, g, q)
  PROVE  Listed(u, g, Order!RemoveFirst(q, s))
  <1>1. /\ t \in TreeType /\ s \in Node /\ Nil \notin Node /\ t.live \subseteq Node
        /\ g # Nil /\ u.live = t.live
        /\ \A x \in Node :
              /\ u.mParent[x] = IF x = s THEN Nil ELSE t.mParent[x]
              /\ u.mNext[x] = IF x = s THEN Nil
                              ELSE IF x = t.mPrev[s] THEN t.mNext[s] ELSE t.mNext[x]
    BY Types DEF GoodTree, Removed
  <1>2. /\ q \in Seq(Node) /\ Len(q) \in Nat /\ Injective(q)
        /\ \A i \in 1 .. Len(q) :
              /\ q[i] \in t.live /\ q[i] \in Node /\ t.mParent[q[i]] = g
              /\ t.mNext[q[i]] = IF i = Len(q) THEN Nil ELSE q[i + 1]
        /\ \A x \in t.live : t.mParent[x] = g => \E i \in 1 .. Len(q) : q[i] = x
    BY ListedFacts
  <1>3. \A x \in t.live : x = t.mPrev[s] => t.mParent[x] = t.mParent[s] /\ t.mNext[x] = s
    BY <1>1, Types DEF GoodTree, WellLinked, PrevAgrees
  <1>4. CASE t.mParent[s] # g
    <2>1. \A i \in 1 .. Len(q) : q[i] # s
      BY <1>2, <1>4
    <2>2. Order!RemoveFirst(q, s) = q
      BY <1>2, <2>1, RemoveFirstIs DEF Injective
    <2>3. Members(u, g) = Members(t, g)
      BY <1>1, <1>4 DEF Members
    <2>4. \A x \in Members(t, g) : u.mNext[x] = t.mNext[x]
      BY <1>1, <1>3, <1>4 DEF Members
    <2> QED BY <2>2, <2>3, <2>4, ListStays
  <1>5. CASE t.mParent[s] = g
    <2>1. PICK i \in 1 .. Len(q) : q[i] = s
      BY <1>2, <1>5
    <2>2. PICK r : r = Order!RemoveAt(q, i)
      OBVIOUS
    <2>3. Order!RemoveFirst(q, s) = r
      BY <1>2, <2>1, <2>2, RemoveFirstIs DEF Injective
    <2>4. /\ r \in Seq(Node) /\ Len(r) = Len(q) - 1
          /\ \A j \in 1 .. Len(q) - 1 : r[j] = IF j < i THEN q[j] ELSE q[j + 1]
      <3>1. RemovedAt(r, Node, q, i)
        BY <1>2, <2>2, RemoveAtIs
      <3> QED BY <3>1 DEF RemovedAt
    <2>5. Injective(r)
      <3>1. SUFFICES ASSUME NEW j \in 1 .. Len(r), NEW k \in 1 .. Len(r), r[j] = r[k], j < k
                     PROVE  FALSE
        BY <1>2, <2>4 DEF Injective
      <3>2. j \in 1 .. Len(q) /\ k \in 1 .. Len(q) /\ j + 1 \in 1 .. Len(q) /\ k + 1 \in 1 .. Len(q)
        BY <1>2, <2>4
      <3> QED BY <1>2, <2>4, <3>1, <3>2 DEF Injective
    <2>6. Elements(r) = Elements(q) \ {s}
      <3>1. ASSUME NEW j \in 1 .. Len(r) PROVE r[j] \in Elements(q) \ {s}
        <4>2. CASE j < i
          <5>1. j \in 1 .. Len(q) /\ j # i /\ r[j] = q[j]
            BY <1>2, <2>4, <4>2
          <5> QED BY <1>2, <2>1, <5>1 DEF Elements, Injective
        <4>3. CASE ~ (j < i)
          <5>1. j + 1 \in 1 .. Len(q) /\ j + 1 # i /\ r[j] = q[j + 1]
            BY <1>2, <2>4, <4>3
          <5>2. q[j + 1] # q[i]
            BY <1>2, <2>1, <5>1 DEF Injective
          <5>3. q[j + 1] \in Elements(q)
            BY <5>1 DEF Elements
          <5> QED BY <2>1, <5>1, <5>2, <5>3
        <4> QED BY <4>2, <4>3
      <3>2. ASSUME NEW j \in 1 .. Len(q), q[j] # s PROVE q[j] \in Elements(r)
        <4>1. CASE j < i
          <5>1. j \in 1 .. Len(r) /\ r[j] = q[j]
            BY <1>2, <2>4, <4>1
          <5> QED BY <5>1 DEF Elements
        <4>2. CASE j > i
          <5>1. j - 1 \in 1 .. Len(r) /\ ~ (j - 1 < i) /\ j - 1 + 1 = j
            BY <1>2, <2>4, <4>2
          <5>2. r[j - 1] = q[j]
            BY <2>4, <5>1
          <5> QED BY <5>1, <5>2 DEF Elements
        <4>3. j < i \/ j > i
          BY <1>2, <2>1, <3>2
        <4> QED BY <4>1, <4>2, <4>3
      <3> QED BY <3>1, <3>2 DEF Elements
    <2>7. Members(u, g) = Members(t, g) \ {s}
      BY <1>1 DEF Members
    <2>8. ASSUME NEW j \in 1 .. Len(r)
          PROVE  u.mNext[r[j]] = IF j = Len(r) THEN Nil ELSE r[j + 1]
      <3>1. CASE j < i - 1
        <4>1. /\ j \in 1 .. Len(q) /\ j < i /\ j # Len(q) /\ j + 1 < i /\ j # Len(r)
              /\ j + 1 \in 1 .. Len(q) - 1 /\ j # i /\ j + 1 # i /\ j + 1 \in 1 .. Len(q)
          BY <1>2, <2>4, <3>1
        <4>2. r[j] = q[j] /\ r[j + 1] = q[j + 1] /\ t.mNext[q[j]] = q[j + 1]
          BY <1>2, <2>4, <4>1
        <4>3. q[j] # s /\ q[j + 1] # s
          BY <1>2, <2>1, <4>1 DEF Injective
        <4> QED BY SMTT(40), <1>1, <1>2, <1>3, <4>1, <4>2, <4>3
      <3>2. CASE j = i - 1
        <4>1. /\ j \in 1 .. Len(q) /\ j < i /\ j # Len(q) /\ j + 1 = i /\ j # i
              /\ j = Len(r) <=> i = Len(q)
          BY <1>2, <2>4, <3>2
        <4>2. r[j] = q[j] /\ t.mNext[q[j]] = s /\ q[j] # s
          BY <1>2, <2>1, <2>4, <4>1 DEF Injective
        <4>3. t.mPrev[s] = q[j]
          BY <1>1, <1>2, <4>1, <4>2 DEF GoodTree, WellLinked, NextAgrees
        <4>4. u.mNext[r[j]] = t.mNext[s]
          BY <1>1, <1>2, <4>1, <4>2, <4>3
        <4>5. t.mNext[s] = IF i = Len(q) THEN Nil ELSE q[i + 1]
          BY <1>2, <2>1
        <4>6. i # Len(q) => r[i] = q[i + 1]
          <5>1. SUFFICES ASSUME i # Len(q) PROVE r[i] = q[i + 1]
            OBVIOUS
          <5>2. i \in 1 .. Len(q) - 1 /\ ~ (i < i)
            BY <1>2, <5>1
          <5> QED BY <2>4, <5>2
        <4> QED BY <4>1, <4>4, <4>5, <4>6
      <3>3. CASE j >= i
        <4>1. /\ j + 1 \in 1 .. Len(q) /\ ~ (j < i) /\ j + 1 # i
              /\ j = Len(r) <=> j + 1 = Len(q)
          BY <1>2, <2>4, <3>3
        <4>2. r[j] = q[j + 1] /\ q[j + 1] # s
          BY <1>2, <2>1, <2>4, <4>1 DEF Injective
        <4>3. q[j + 1] # t.mPrev[s]
          <5>1. SUFFICES ASSUME q[j + 1] = t.mPrev[s] PROVE FALSE
            OBVIOUS
          <5>2. t.mNext[q[j + 1]] = s /\ s # Nil
            BY <1>1, <1>2, <1>3, <4>1, <5>1
          <5>3. j + 1 # Len(q) /\ q[j + 1 + 1] = s
            BY <1>2, <4>1, <5>2
          <5>4. j + 1 + 1 \in 1 .. Len(q) /\ j + 1 + 1 # i
            BY <1>2, <3>3, <4>1, <5>3
          <5> QED BY <1>2, <2>1, <5>3, <5>4 DEF Injective
        <4>4. u.mNext[r[j]] = IF j + 1 = Len(q) THEN Nil ELSE q[j + 1 + 1]
          <5>1. /\ q[j + 1] \in Node
                /\ t.mNext[q[j + 1]] = IF j + 1 = Len(q) THEN Nil ELSE q[j + 1 + 1]
            BY <1>2, <4>1
          <5>2. u.mNext[q[j + 1]] = t.mNext[q[j + 1]]
            BY <1>1, <4>2, <4>3, <5>1
          <5> QED BY <4>2, <5>1, <5>2
        <4>5. j # Len(r) => r[j + 1] = q[j + 1 + 1]
          <5>1. SUFFICES ASSUME j # Len(r) PROVE r[j + 1] = q[j + 1 + 1]
            OBVIOUS
          <5>2. j + 1 \in 1 .. Len(q) - 1 /\ ~ (j + 1 < i)
            BY <1>2, <2>4, <3>3, <5>1
          <5> QED BY <2>4, <5>2
        <4> QED BY <4>1, <4>4, <4>5
      <3>4. j < i - 1 \/ j = i - 1 \/ j >= i
        BY SMTT(40), <1>2
      <3> QED BY <3>1, <3>2, <3>3, <3>4
    <2>9. Elements(r) = Members(u, g)
      BY <2>6, <2>7 DEF Listed
    <2>10. Listed(u, g, r)
      BY <2>4, <2>5, <2>8, <2>9 DEF Listed
    <2> QED BY <2>3, <2>10
  <1> QED BY <1>4, <1>5

(* When r hands its links over to s, s stands where r stood.               *)
LEMMA ListHandedOver ==
  ASSUME NEW t, GoodTree(t), NEW s \in t.live, NEW r \in t.live,
         t.mParent[s] = Nil, t.mParent[r] # Nil,
         NEW u, Placed(t, u, s, t.mParent[r], t.mPrev[r], t.mNext[r]),
         NEW w, Owned(u, w, r, Nil, Nil, Nil),
         NEW g \in Groups \cap t.live, NEW q, Listed(t, g, q)
  PROVE  Listed(w, g, Order!ReplaceAll(q, r, s))
  <1>1. /\ t \in TreeType /\ s \in Node /\ r \in Node /\ Nil \notin Node /\ t.live \subseteq Node
        /\ g # Nil /\ r # s /\ w.live = t.live
        /\ \A x \in Node :
              /\ w.mParent[x] = IF x = r THEN Nil ELSE IF x = s THEN t.mParent[r] ELSE t.mParent[x]
              /\ w.mNext[x] = IF x = r THEN Nil ELSE IF x = s THEN t.mNext[r]
                              ELSE IF x = t.mPrev[r] THEN s ELSE t.mNext[x]
    BY Types DEF GoodTree, Placed, Owned
  <1>2. /\ q \in Seq(Node) /\ Len(q) \in Nat /\ Injective(q)
        /\ \A i \in 1 .. Len(q) :
              /\ q[i] \in t.live /\ q[i] \in Node /\ t.mParent[q[i]] = g
              /\ t.mNext[q[i]] = IF i = Len(q) THEN Nil ELSE q[i + 1]
        /\ \A x \in t.live : t.mParent[x] = g => \E i \in 1 .. Len(q) : q[i] = x
    BY ListedFacts
  <1>3. /\ \A x \in t.live : x = t.mPrev[r] => t.mParent[x] = t.mParent[r] /\ t.mNext[x] = r
        /\ \A x \in t.live : t.mNext[x] = r => x = t.mPrev[r]
    BY <1>1, Types DEF GoodTree, WellLinked, NextAgrees, PrevAgrees
  <1>4. \A i \in 1 .. Len(q) : q[i] # s
    BY <1>1, <1>2
  <1>5. PICK p : p = Order!ReplaceAll(q, r, s)
    OBVIOUS
  <1>6. /\ p \in Seq(Node) /\ Len(p) = Len(q)
        /\ \A i \in 1 .. Len(q) : p[i] = IF q[i] = r THEN s ELSE q[i]
    <2>1. p = [i \in 1 .. Len(q) |-> IF q[i] = r THEN s ELSE q[i]]
      BY <1>5 DEF Order!ReplaceAll
    <2>2. p \in [1 .. Len(q) -> Node]
      BY <1>1, <1>2, <2>1
    <2> QED BY <1>2, <2>1, <2>2
  <1>7. Injective(p)
    BY <1>2, <1>4, <1>6 DEF Injective
  <1>8. ASSUME NEW i \in 1 .. Len(p) PROVE w.mNext[p[i]] = IF i = Len(p) THEN Nil ELSE p[i + 1]
    <2>1. /\ i \in 1 .. Len(q) /\ Len(p) = Len(q)
          /\ i # Len(q) => i + 1 \in 1 .. Len(q) /\ i + 1 # i
      BY <1>2, <1>6
    <2>2. i # Len(q) => p[i + 1] = IF q[i + 1] = r THEN s ELSE q[i + 1]
      BY <1>6, <2>1
    <2>3. /\ q[i] \in t.live /\ q[i] \in Node /\ q[i] # s
          /\ t.mNext[q[i]] = IF i = Len(q) THEN Nil ELSE q[i + 1]
      BY <1>2, <1>4, <2>1
    <2>4. CASE q[i] = r
      <3>1. p[i] = s /\ w.mNext[p[i]] = t.mNext[r]
        BY <1>1, <1>6, <2>1, <2>4
      <3>2. i # Len(q) => q[i + 1] # r
        BY <1>2, <2>1, <2>4 DEF Injective
      <3> QED BY <2>1, <2>2, <2>3, <2>4, <3>1, <3>2
    <2>5. CASE q[i] # r
      <3>1. p[i] = q[i] /\ w.mNext[p[i]] = IF q[i] = t.mPrev[r] THEN s ELSE t.mNext[q[i]]
        BY <1>1, <1>6, <2>1, <2>3, <2>5
      <3>2. q[i] = t.mPrev[r] <=> t.mNext[q[i]] = r
        BY <1>3, <2>3
      <3> QED BY <1>1, <2>1, <2>2, <2>3, <3>1, <3>2
    <2> QED BY <2>4, <2>5
  <1>9. Elements(p) = Members(w, g)
    <2>1. ASSUME NEW i \in 1 .. Len(q) PROVE p[i] \in Members(w, g)
      <3>1. q[i] \in t.live /\ q[i] \in Node /\ q[i] # s /\ t.mParent[q[i]] = g
        BY <1>2, <1>4
      <3> QED BY <1>1, <1>6, <3>1 DEF Members
    <2>2. ASSUME NEW x \in Members(w, g) PROVE \E i \in 1 .. Len(q) : p[i] = x
      <3>1. x \in t.live /\ x \in Node /\ w.mParent[x] = g /\ x # r
        BY <1>1 DEF Members
      <3>2. CASE x = s
        <4>1. t.mParent[r] = g
          BY <1>1, <3>1, <3>2
        <4>2. PICK i \in 1 .. Len(q) : q[i] = r
          BY <1>2, <4>1
        <4> QED BY <1>6, <3>2, <4>2
      <3>3. CASE x # s
        <4>1. t.mParent[x] = g
          BY <1>1, <3>1, <3>3
        <4>2. PICK i \in 1 .. Len(q) : q[i] = x
          BY <1>2, <3>1, <4>1
        <4> QED BY <1>6, <3>1, <4>2
      <3> QED BY <3>2, <3>3
    <2> QED BY <1>6, <2>1, <2>2 DEF Elements
  <1>10. Listed(w, g, p)
    BY <1>6, <1>7, <1>8, <1>9 DEF Listed
  <1> QED BY <1>5, <1>10

-----------------------------------------------------------------------------
(* The children that every group of a tree lists: the refinement mapping.  *)
Kids(t) == [g \in Groups |-> IF g \in t.live THEN Children(t, g) ELSE <<>>]

LEMMA KidsListed ==
  ASSUME NEW t, GoodTree(t), NEW g \in Groups
  PROVE  /\ g \in t.live => Listed(t, g, Kids(t)[g])
         /\ g \notin t.live => Kids(t)[g] = <<>> /\ Listed(t, g, <<>>)
  <1>1. g \in t.live => Listed(t, g, Kids(t)[g])
    BY WalkListed DEF Kids
  <1>2. ASSUME g \notin t.live PROVE Kids(t)[g] = <<>> /\ Listed(t, g, <<>>)
    <2>1. Members(t, g) = {}
      BY <1>2, Types DEF Members, GoodTree, WellLinked, ParentIsLive
    <2> QED BY <1>2, <2>1, ListEmpty DEF Kids
  <1> QED BY <1>1, <1>2

(* An assignment of a list to every group is that of the tree, when each   *)
(* is the list of its group and no other group has any.                    *)
LEMMA KidsAre ==
  ASSUME NEW t, GoodTree(t), NEW c, c = [g \in Groups |-> c[g]],
         \A g \in Groups \cap t.live : Listed(t, g, c[g]),
         \A g \in Groups \ t.live : c[g] = <<>>
  PROVE  Kids(t) = c
  <1>1. ASSUME NEW g \in Groups PROVE Kids(t)[g] = c[g]
    BY KidsListed, OneList
  <1>2. Kids(t) = [g \in Groups |-> Kids(t)[g]]
    BY DEF Kids
  <1> HIDE DEF Kids
  <1>3. [g \in Groups |-> Kids(t)[g]] = [g \in Groups |-> c[g]]
    BY <1>1
  <1> QED BY <1>2, <1>3

(* Adding puts a node into the list of one group.                          *)
LEMMA AddInserts ==
  ASSUME NEW t, GoodTree(t), NEW s \in t.live, s # Root, t.mParent[s] = Nil,
         NEW a, NEW x, HasPlace(t, a, x), NEW u, u = Add(t, a, s, x),
         NEW g, g = Under(t, a, x)
  PROVE  /\ g \in Groups \cap t.live
         /\ \E i \in 1 .. Len(Kids(t)[g]) + 1 :
               Kids(u) = [Kids(t) EXCEPT ![g] = Order!InsertAt(@, i, s)]
  <1>1. PICK p, n : Gap(t, g, p, n) /\ Placed(t, u, s, g, p, n)
    BY AddPlaced
  <1>2. g \in Groups \cap t.live /\ u.live = t.live /\ s \in Node /\ t.live \subseteq Node
    BY <1>1, Types DEF Gap, Placed, GoodTree
  <1>3. GoodTree(u)
    BY AddGood
  <1>4. Listed(t, g, Kids(t)[g])
    BY <1>2, KidsListed
  <1>5. PICK i \in 1 .. Len(Kids(t)[g]) + 1 : Listed(u, g, Order!InsertAt(Kids(t)[g], i, s))
    BY <1>1, <1>4, ListInserted
  <1>6. ASSUME NEW h \in Groups \cap t.live, h # g PROVE Listed(u, h, Kids(t)[h])
    <2>1. Listed(t, h, Kids(t)[h])
      BY KidsListed
    <2>2. h # Nil /\ Nil \notin Node /\ \A y \in Node : u.mParent[y] = IF y = s THEN g ELSE t.mParent[y]
      BY <1>1, Types DEF Placed, GoodTree
    <2>3. Members(u, h) = Members(t, h)
      BY <1>2, <1>6, <2>2 DEF Members
    <2>4. \A y \in Members(t, h) : u.mNext[y] = t.mNext[y]
      <3>1. SUFFICES ASSUME NEW y \in t.live, t.mParent[y] = h PROVE u.mNext[y] = t.mNext[y]
        BY DEF Members
      <3>2. y # s /\ y # p /\ y \in Node
        <4>1. p = Nil \/ t.mParent[p] = g
          BY <1>1 DEF Gap
        <4> QED BY <1>2, <1>6, <2>2, <3>1, <4>1
      <3> QED BY <1>1, <1>2, <3>2 DEF Placed
    <2> QED BY <2>1, <2>3, <2>4, ListStays
  <1>7. PICK c : c = [Kids(t) EXCEPT ![g] = Order!InsertAt(@, i, s)]
    OBVIOUS
  <1>8. /\ c = [h \in Groups |-> c[h]]
        /\ \A h \in Groups : c[h] = IF h = g THEN Order!InsertAt(Kids(t)[g], i, s) ELSE Kids(t)[h]
    <2>1. Kids(t) = [h \in Groups |-> Kids(t)[h]]
      BY DEF Kids
    <2> HIDE DEF Kids
    <2> QED BY <1>2, <1>7, <2>1
  <1>9. \A h \in Groups \cap t.live : Listed(u, h, c[h])
    BY <1>5, <1>6, <1>8
  <1>10. \A h \in Groups \ t.live : c[h] = <<>>
    BY <1>2, <1>8, KidsListed
  <1>11. Kids(u) = c
    BY <1>2, <1>3, <1>8, <1>9, <1>10, KidsAre
  <1> QED BY <1>2, <1>7, <1>11

(* A node known by its id is in no list, and has none.                     *)
LEMMA NewKids ==
  ASSUME NEW t, GoodTree(t), NEW s \in Node \ t.live
  PROVE  Kids(Node_New(t, s)) = Kids(t)
  <1>1. PICK u : u = Node_New(t, s)
    OBVIOUS
  <1>2. GoodTree(u) /\ u.live = t.live \cup {s} /\ u.mParent = t.mParent /\ t.mParent[s] = Nil
    BY <1>1, NewGood
  <1>3. u.mNext = t.mNext /\ Nil \notin Groups
    BY <1>1, NilAssumption DEF Node_New
  <1>4. \A g \in Groups : Members(u, g) = Members(t, g)
    BY <1>2, <1>3 DEF Members
  <1>5. ASSUME NEW g \in Groups PROVE Listed(u, g, Kids(t)[g])
    <2>1. Listed(t, g, Kids(t)[g])
      BY KidsListed
    <2> QED BY <1>3, <1>4, <2>1, ListStays
  <1>6. Kids(t) = [g \in Groups |-> Kids(t)[g]]
    BY DEF Kids
  <1>7. \A g \in Groups \ u.live : Kids(t)[g] = <<>>
    BY <1>2, KidsListed
  <1> HIDE DEF Kids
  <1>8. Kids(u) = Kids(t)
    BY <1>2, <1>5, <1>6, <1>7, KidsAre
  <1> QED BY <1>1, <1>8

LEMMA RemoveEmpty == \A e : Order!RemoveFirst(<<>>, e) = <<>>
  BY DEF Order!RemoveFirst

LEMMA RemoveKids ==
  ASSUME NEW t, GoodTree(t), NEW s \in t.live
  PROVE  Kids(Node_Remove(t, s)) = [g \in Groups |-> Order!RemoveFirst(Kids(t)[g], s)]
  <1>1. PICK u : u = Node_Remove(t, s)
    OBVIOUS
  <1>2. GoodTree(u) /\ Removed(t, u, s) /\ u.live = t.live
    BY <1>1, RemoveGood
  <1>3. PICK c : c = [g \in Groups |-> Order!RemoveFirst(Kids(t)[g], s)]
    OBVIOUS
  <1>4. c = [g \in Groups |-> c[g]] /\ \A g \in Groups : c[g] = Order!RemoveFirst(Kids(t)[g], s)
    BY <1>3
  <1>5. \A g \in Groups \cap u.live : Listed(u, g, c[g])
    BY <1>2, <1>4, KidsListed, ListRemoved
  <1>6. \A g \in Groups \ u.live : c[g] = <<>>
    BY <1>2, <1>4, KidsListed, RemoveEmpty
  <1>7. Kids(u) = c
    BY <1>2, <1>4, <1>5, <1>6, KidsAre
  <1> QED BY <1>1, <1>3, <1>7

(* Forgetting nodes that hang together changes no list but theirs.         *)
LEMMA ForgetKids ==
  ASSUME NEW t, GoodTree(t), NEW D, NEW g, Severed(t, D, g),
         NEW u, GoodTree(u), Forgotten(t, u, D, g)
  PROVE  Kids(u) = [h \in Groups |-> IF h \in D \/ h = g THEN <<>> ELSE Kids(t)[h]]
  <1>1. PICK c : c = [h \in Groups |-> IF h \in D \/ h = g THEN <<>> ELSE Kids(t)[h]]
    OBVIOUS
  <1>2. /\ c = [h \in Groups |-> c[h]]
        /\ \A h \in Groups : c[h] = IF h \in D \/ h = g THEN <<>> ELSE Kids(t)[h]
    BY <1>1
  <1>3. /\ u.live = t.live \ D /\ t.live \subseteq Node /\ Nil \notin Node /\ Groups \subseteq Node
        /\ \A x \in t.live \ D : u.mParent[x] = t.mParent[x] /\ u.mNext[x] = t.mNext[x]
        /\ \A x \in t.live : t.mParent[x] \in D \/ (t.mParent[x] = g /\ g # Nil) => x \in D
        /\ \A x \in D : t.mParent[x] \in D \cup {g, Nil}
    BY Types DEF Forgotten, Severed, GoodTree
  <1>4. ASSUME NEW h \in Groups \cap u.live PROVE Listed(u, h, c[h])
    <2>1. h \notin D /\ h \in t.live /\ h # Nil
      BY <1>3, <1>4
    <2>2. CASE h = g
      <3>1. Members(u, h) = {}
        BY <1>3, <2>1, <2>2 DEF Members
      <3> QED BY <1>2, <2>2, <3>1, ListEmpty
    <2>3. CASE h # g
      <3>1. Members(u, h) = Members(t, h)
        BY <1>3, <2>1, <2>3 DEF Members
      <3>2. \A x \in Members(t, h) : u.mNext[x] = t.mNext[x]
        BY <1>3, <2>1, <2>3 DEF Members
      <3>3. Listed(t, h, Kids(t)[h]) /\ c[h] = Kids(t)[h]
        BY <1>2, <2>1, <2>3, KidsListed
      <3> QED BY <3>1, <3>2, <3>3, ListStays
    <2> QED BY <2>2, <2>3
  <1>5. \A h \in Groups \ u.live : c[h] = <<>>
    BY <1>2, <1>3, KidsListed
  <1>6. Kids(u) = c
    BY <1>2, <1>4, <1>5, KidsAre
  <1> QED BY <1>1, <1>6

(* Deleting a node frees what is below it and takes it out of its list.    *)
LEMMA DeleteKids ==
  ASSUME NEW t, GoodTree(t), NEW s \in t.live, s # Root, GoodTree(Node_Delete(t, s))
  PROVE  /\ Node_Delete(t, s).live = t.live \ Below(t, s)
         /\ Kids(Node_Delete(t, s)) = [g \in Groups |-> IF g \in Below(t, s) THEN <<>>
                                                        ELSE Order!RemoveFirst(Kids(t)[g], s)]
  <1>1. PICK v : v = Node_Remove(t, s)
    OBVIOUS
  <1>2. GoodTree(v) /\ Removed(t, v, s) /\ v.mParent[s] = Nil /\ v.live = t.live
    BY <1>1, RemoveGood
  <1>3. PICK D : D = Below(t, s)
    OBVIOUS
  <1>4. PICK u : u = Node_Delete(t, s)
    OBVIOUS
  <1>5. u = Forget(v, D) /\ GoodTree(u)
    BY <1>1, <1>3, <1>4 DEF Node_Delete
  <1>6. Forgotten(v, u, D, Nil)
    BY <1>2, <1>5, ForgetFields DEF GoodTree
  <1>7. D = Below(v, s)
    BY <1>2, <1>3, RemoveBelow DEF GoodTree
  <1>8. Severed(v, D, Nil)
    BY <1>2, <1>7, SeveredBelow DEF GoodTree
  <1>9. Kids(u) = [g \in Groups |-> IF g \in D \/ g = Nil THEN <<>> ELSE Kids(v)[g]]
    BY <1>2, <1>5, <1>6, <1>8, ForgetKids
  <1>10. Kids(v) = [g \in Groups |-> Order!RemoveFirst(Kids(t)[g], s)]
    BY <1>1, RemoveKids
  <1>11. Kids(u) = [g \in Groups |-> IF g \in D THEN <<>> ELSE Order!RemoveFirst(Kids(t)[g], s)]
    BY <1>9, <1>10, NilAssumption
  <1>12. u.live = t.live \ D
    BY <1>2, <1>6 DEF Forgotten
  <1> QED BY <1>3, <1>4, <1>11, <1>12

LEMMA DeleteAllKids ==
  ASSUME NEW t, KeptTree(t), NEW g \in Groups \cap t.live
  PROVE  /\ Group_DeleteAll(t, g).live = (t.live \ Below(t, g)) \cup {g}
         /\ Kids(Group_DeleteAll(t, g)) =
               [h \in Groups |-> IF h \in Below(t, g) THEN <<>> ELSE Kids(t)[h]]
  <1>1. PICK D : D = Below(t, g) \ {g}
    OBVIOUS
  <1>2. PICK u : u = Group_DeleteAll(t, g)
    OBVIOUS
  <1>3. Forgotten(t, u, D, g)
    BY <1>1, <1>2, DeleteAllFields DEF KeptTree, GoodTree
  <1>4. g # Root => t.mParent[g] \notin Below(t, g)
    BY ParentNotBelow DEF KeptTree, GoodTree
  <1>5. Severed(t, D, g)
    BY <1>1, <1>4, BelowFacts, Types DEF Severed, Closed, KeptTree, GoodTree
  <1>6. GoodTree(u) /\ GoodTree(t)
    BY <1>2, DeleteAllKept DEF KeptTree
  <1>7. Kids(u) = [h \in Groups |-> IF h \in D \/ h = g THEN <<>> ELSE Kids(t)[h]]
    BY <1>3, <1>5, <1>6, ForgetKids
  <1>8. g \in Below(t, g)
    BY <1>6, BelowFacts DEF GoodTree
  <1>9. \A h \in Groups : h \in D \/ h = g <=> h \in Below(t, g)
    BY <1>1, <1>8
  <1>10. Kids(u) = [h \in Groups |-> IF h \in Below(t, g) THEN <<>> ELSE Kids(t)[h]]
    BY <1>7, <1>9
  <1>11. u.live = (t.live \ Below(t, g)) \cup {g}
    BY <1>1, <1>3 DEF Forgotten
  <1> QED BY <1>2, <1>10, <1>11

(* A node that is replaced has handed its place over before it is freed.   *)
LEMMA ReplaceKids ==
  ASSUME NEW t, KeptTree(t), NEW s \in Node \ t.live, NEW r \in t.live, t.mParent[r] # Nil,
         NEW z, z = Node_Replace(Node_New(t, s), s, r)
  PROVE  /\ z.live = (t.live \cup {s}) \ Below(t, r)
         /\ Kids(z) = [g \in Groups |-> IF g \in Below(t, r) THEN <<>>
                                        ELSE Order!ReplaceAll(Kids(t)[g], r, s)]
  <1>1. PICK v : v = Node_New(t, s)
    OBVIOUS
  <1>2. /\ GoodTree(v) /\ v.live = t.live \cup {s} /\ v.mParent = t.mParent
        /\ s # Root /\ v.mParent[s] = Nil /\ Kids(v) = Kids(t)
    BY <1>1, NewGood, NewKids DEF KeptTree
  <1>3. PICK g, p, n : g = v.mParent[r] /\ p = v.mPrev[r] /\ n = v.mNext[r]
    OBVIOUS
  <1>4. /\ t \in TreeType /\ v \in TreeType /\ GoodTree(t)
        /\ r \in Node /\ r # s /\ r # Root /\ s # Nil /\ r # Nil /\ r \in v.live
        /\ g \in Groups \cap t.live /\ g # Nil
        /\ p \in Node \cup {Nil} /\ n \in Node \cup {Nil}
    BY <1>2, <1>3, Types DEF KeptTree, GoodTree, WellLinked, ParentIsLive
  <1>5. PICK u : u = Place(v, s, g, p, n)
    OBVIOUS
  <1>6. Placed(v, u, s, g, p, n)
    BY <1>4, <1>5, PlaceFields
  <1>7. PICK w : w = Own(u, r, Nil, Nil, Nil)
    OBVIOUS
  <1>8. Owned(u, w, r, Nil, Nil, Nil)
    BY <1>4, <1>6, <1>7, OwnFields DEF Placed
  <1>9. z = Node_Delete(w, r)
    BY <1>1, <1>2, <1>3, <1>4, <1>5, <1>7 DEF Node_Replace, Own
  <1>10. GoodTree(z)
    BY ReplaceKept DEF KeptTree
  <1>11. WellLinked(w) /\ NoRing(w)
    BY <1>2, <1>3, <1>4, <1>6, <1>8, HandOverLinked, HandOverNoRing DEF GoodTree
  <1>12. /\ w \in TreeType /\ w.live = v.live
         /\ w.mParent[r] = Nil /\ w.mParent[s] = g /\ r \in w.live
         /\ \A x \in t.live : x # r => w.mParent[x] = t.mParent[x]
    BY <1>2, <1>4, <1>6, <1>8, Types DEF Placed, Owned
  <1>13. GoodTree(w)
    BY <1>2, <1>4, <1>11, <1>12 DEF GoodTree, KeptTree
  <1>14. /\ z.live = w.live \ Below(w, r)
         /\ Kids(z) = [h \in Groups |-> IF h \in Below(w, r) THEN <<>>
                                        ELSE Order!RemoveFirst(Kids(w)[h], r)]
    BY <1>4, <1>9, <1>10, <1>12, <1>13, DeleteKids
  <1>15. Kids(w) = [h \in Groups |-> Order!ReplaceAll(Kids(v)[h], r, s)]
    <2>1. PICK c : c = [h \in Groups |-> Order!ReplaceAll(Kids(v)[h], r, s)]
      OBVIOUS
    <2>2. c = [h \in Groups |-> c[h]] /\ \A h \in Groups : c[h] = Order!ReplaceAll(Kids(v)[h], r, s)
      BY <2>1
    <2>3. ASSUME NEW h \in Groups \cap w.live PROVE Listed(w, h, c[h])
      <3>1. h \in Groups \cap v.live /\ Listed(v, h, Kids(v)[h])
        BY <1>2, <1>12, KidsListed
      <3>2. s \in v.live /\ v.mParent[r] # Nil
        BY <1>2, <1>3, <1>4
      <3> QED BY <1>2, <1>3, <1>4, <1>6, <1>8, <2>2, <3>1, <3>2, ListHandedOver
    <2>4. ASSUME NEW h \in Groups \ w.live PROVE c[h] = <<>>
      <3>1. Kids(v)[h] = <<>>
        BY <1>2, <1>12, KidsListed
      <3>2. Order!ReplaceAll(<<>>, r, s) = <<>>
        BY DEF Order!ReplaceAll
      <3> QED BY <2>2, <3>1, <3>2
    <2>5. Kids(w) = c
      BY <1>13, <2>2, <2>3, <2>4, KidsAre
    <2> QED BY <2>1, <2>5
  <1>16. ASSUME NEW h \in Groups PROVE Order!RemoveFirst(Kids(w)[h], r) = Kids(w)[h]
    <2>1. PICK q : q = Kids(w)[h]
      OBVIOUS
    <2>2. Listed(w, h, q)
      BY <1>13, <2>1, KidsListed
    <2>3. \A i \in 1 .. Len(q) : q[i] # r
      BY <1>12, <2>2, ListedFacts, NilAssumption
    <2>4. q \in Seq(Node) /\ \A i, j \in 1 .. Len(q) : q[i] = q[j] => i = j
      BY <2>2, ListedFacts DEF Injective
    <2> QED BY <2>1, <2>3, <2>4, RemoveFirstIs
  <1>17. Below(w, r) = Below(t, r)
    <2> DEFINE B == Below(t, r)
               D == Below(w, r)
    <2>1. /\ B \subseteq t.live /\ r \in B /\ Closed(t, B)
          /\ \A E \in SUBSET t.live : r \in E /\ Closed(t, E) => B \subseteq E
      BY <1>4, BelowFacts
    <2>2. /\ D \subseteq w.live /\ r \in D /\ Closed(w, D)
          /\ \A x \in D : x # r => w.mParent[x] \in D
          /\ \A E \in SUBSET w.live : r \in E /\ Closed(w, E) => D \subseteq E
      BY <1>12, BelowFacts
    <2>3. g \notin B
      BY <1>2, <1>3, <1>4, ParentNotBelow DEF KeptTree, GoodTree
    <2> HIDE DEF B, D
    <2>4. D \subseteq B
      <3>1. Closed(w, B)
        BY <1>2, <1>12, <2>1, <2>3 DEF Closed
      <3>2. B \in SUBSET w.live
        BY <1>2, <1>12, <2>1
      <3> QED BY <2>1, <2>2, <3>1, <3>2
    <2>5. B \subseteq D
      <3>1. D \in SUBSET t.live
        BY <2>1, <2>4
      <3>2. Closed(t, D)
        BY <1>2, <1>12, <2>2 DEF Closed
      <3> QED BY <2>1, <2>2, <3>1, <3>2
    <2> QED BY <2>4, <2>5 DEF B, D
  <1>18. Kids(z) = [h \in Groups |-> IF h \in Below(t, r) THEN <<>> ELSE Kids(w)[h]]
    BY <1>14, <1>16, <1>17
  <1> QED BY <1>2, <1>12, <1>14, <1>15, <1>17, <1>18

(* A move takes a node out and puts it into a list outside its subtree.    *)
LEMMA MoveKids ==
  ASSUME NEW t, KeptTree(t), NEW s \in t.live, NEW a, NEW x, HasPlace(t, a, x),
         x \notin Below(t, s), NEW u, u = Add(Node_Remove(t, s), a, s, x),
         NEW rest, rest = [g \in Groups |-> Order!RemoveFirst(Kids(t)[g], s)]
  PROVE  /\ s # Root /\ u.live = t.live
         /\ \E g \in (t.live \cap Groups) \ Below(t, s) : \E i \in 1 .. Len(rest[g]) + 1 :
               Kids(u) = [rest EXCEPT ![g] = Order!InsertAt(@, i, s)]
  <1>1. PICK v : v = Node_Remove(t, s)
    OBVIOUS
  <1>2. /\ GoodTree(v) /\ Removed(t, v, s) /\ v.mParent[s] = Nil /\ v.live = t.live
        /\ Kids(v) = rest
    BY <1>1, RemoveGood, RemoveKids DEF KeptTree
  <1>3. s # Root
    BY InTreeIsRooted DEF InTree, KeptTree, GoodTree, HasPlace, IsTarget
  <1>4. x # s /\ Under(t, a, x) \notin Below(t, s) /\ Under(t, a, x) \in t.live
    BY BelowFacts, Types DEF Closed, Under, HasPlace, IsTarget, AddActions, KeptTree, GoodTree,
       WellLinked, ParentIsLive
  <1>5. HasPlace(v, a, x) /\ Under(v, a, x) = Under(t, a, x)
    BY <1>2, <1>4, Types DEF Removed, HasPlace, IsTarget, Under, KeptTree, GoodTree
  <1>6. PICK g : g = Under(v, a, x)
    OBVIOUS
  <1>7. /\ g \in Groups \cap v.live
        /\ \E i \in 1 .. Len(rest[g]) + 1 : Kids(u) = [rest EXCEPT ![g] = Order!InsertAt(@, i, s)]
    BY <1>1, <1>2, <1>3, <1>5, <1>6, AddInserts
  <1>8. u.live = t.live
    BY MoveKept
  <1> QED BY <1>2, <1>3, <1>4, <1>5, <1>6, <1>7, <1>8

LEMMA NewKidsAre ==
  ASSUME NEW t, GoodTree(t), NEW s \in Node \ t.live, NEW a, NEW x, HasPlace(t, a, x),
         NEW u, u = Add(Node_New(t, s), a, s, x)
  PROVE  /\ u.live = t.live \cup {s}
         /\ \E g \in t.live \cap Groups : \E i \in 1 .. Len(Kids(t)[g]) + 1 :
               Kids(u) = [Kids(t) EXCEPT ![g] = Order!InsertAt(@, i, s)]
  <1>1. PICK v : v = Node_New(t, s)
    OBVIOUS
  <1>2. /\ GoodTree(v) /\ v.live = t.live \cup {s} /\ v.mParent = t.mParent
        /\ s # Root /\ v.mParent[s] = Nil /\ Kids(v) = Kids(t)
    BY <1>1, NewGood, NewKids
  <1>3. HasPlace(v, a, x)
    BY <1>2 DEF HasPlace, IsTarget
  <1>4. PICK g : g = Under(v, a, x)
    OBVIOUS
  <1>5. /\ g \in Groups \cap v.live
        /\ \E i \in 1 .. Len(Kids(t)[g]) + 1 : Kids(u) = [Kids(t) EXCEPT ![g] = Order!InsertAt(@, i, s)]
    BY <1>1, <1>2, <1>3, <1>4, AddInserts
  <1>6. g \in t.live
    BY <1>2, <1>4, Types DEF HasPlace, IsTarget, Under, AddActions, GoodTree, WellLinked, ParentIsLive
  <1>7. u.live = v.live
    BY <1>1, <1>2, <1>3, AddPlaced DEF Placed
  <1> QED BY <1>2, <1>5, <1>6, <1>7

-----------------------------------------------------------------------------
(* The ordered tree sees the same nodes below a node.                      *)
LEMMA OrderBelow ==
  ASSUME GoodTree(tree), NEW n \in tree.live
  PROVE  Order!Below(n) = Below(tree, n)
  <1>1. ASSUME NEW g \in Groups, g \in tree.live
        PROVE  Order!ToSet(Kids(tree)[g]) = Members(tree, g)
    <2>1. PICK q : q = Kids(tree)[g]
      OBVIOUS
    <2>2. Listed(tree, g, q)
      BY <1>1, <2>1, KidsListed
    <2>3. DOMAIN q = 1 .. Len(q)
      BY <2>2, LenProperties DEF Listed
    <2>4. Order!ToSet(q) = Elements(q)
      BY <2>3 DEF Order!ToSet, Elements
    <2> QED BY <2>1, <2>2, <2>4 DEF Listed
  <1>2. ASSUME NEW D \in SUBSET tree.live
        PROVE  (\A g \in D \cap Groups : Order!ToSet(Kids(tree)[g]) \subseteq D) <=> Closed(tree, D)
    <2>1. (\A g \in D \cap Groups : Order!ToSet(Kids(tree)[g]) \subseteq D)
            <=> \A g \in D \cap Groups : Members(tree, g) \subseteq D
      BY <1>1
    <2>2. \A x \in tree.live : tree.mParent[x] \in D => tree.mParent[x] \in D \cap Groups
      BY Types DEF GoodTree
    <2>3. (\A g \in D \cap Groups : Members(tree, g) \subseteq D) <=> Closed(tree, D)
      BY <2>2 DEF Members, Closed
    <2> QED BY <2>1, <2>3
  <1>3. Order!Below(n) =
          {x \in tree.live : \A D \in {D \in SUBSET tree.live : n \in D /\
             \A g \in D \cap Groups : Order!ToSet(Kids(tree)[g]) \subseteq D} : x \in D}
    BY DEF Order!Below, Kids
  <1>4. {D \in SUBSET tree.live : n \in D /\
             \A g \in D \cap Groups : Order!ToSet(Kids(tree)[g]) \subseteq D}
          = {D \in SUBSET tree.live : n \in D /\ Closed(tree, D)}
    BY <1>2
  <1> QED BY <1>3, <1>4 DEF Below

(* Moving and deleting are steps of the ordered tree.                      *)
LEMMA MoveIsOrdered ==
  ASSUME KeptTree(tree), NEW s \in tree.live, NEW a, NEW x, HasPlace(tree, a, x),
         x \notin Below(tree, s), tree' = Add(Node_Remove(tree, s), a, s, x)
  PROVE  Order!Next
  <1>1. PICK rest : rest = [g \in Groups |-> Order!RemoveFirst(Kids(tree)[g], s)]
    OBVIOUS
  <1>2. /\ s # Root /\ tree'.live = tree.live
        /\ \E g \in (tree.live \cap Groups) \ Below(tree, s) : \E i \in 1 .. Len(rest[g]) + 1 :
               Kids(tree') = [rest EXCEPT ![g] = Order!InsertAt(@, i, s)]
    BY <1>1, MoveKids
  <1>3. Below(tree, s) = Order!Below(s)
    BY OrderBelow DEF KeptTree
  <1>4. Order!Move(s)
    BY <1>1, <1>2, <1>3 DEF Order!Move, Kids
  <1>5. s \in Order!Node
    BY Types DEF Order!Node, Node, KeptTree, GoodTree
  <1> QED BY <1>4, <1>5 DEF Order!Next

LEMMA DeleteIsOrdered ==
  ASSUME KeptTree(tree), NEW s \in tree.live, tree' = Node_Delete(tree, s)
  PROVE  [Order!Next]_Order!vars
  <1>1. CASE s = Root
    <2>1. tree' = tree
      BY <1>1 DEF Node_Delete
    <2> QED BY <2>1 DEF Order!vars
  <1>2. CASE s # Root
    <2>1. GoodTree(tree) /\ GoodTree(Node_Delete(tree, s))
      BY DeleteKept DEF KeptTree
    <2>2. /\ tree'.live = tree.live \ Below(tree, s)
          /\ Kids(tree') = [g \in Groups |-> IF g \in Below(tree, s) THEN <<>>
                                             ELSE Order!RemoveFirst(Kids(tree)[g], s)]
      BY <1>2, <2>1, DeleteKids
    <2>3. Below(tree, s) = Order!Below(s)
      BY <2>1, OrderBelow
    <2>4. Order!Free(s)
      BY <1>2, <2>2, <2>3 DEF Order!Free, Kids
    <2>5. s \in Order!Node
      BY <2>1, Types DEF Order!Node, Node, GoodTree
    <2> QED BY <2>4, <2>5 DEF Order!Next
  <1> QED BY <1>1, <1>2

LEMMA NextIsOrdered ==
  ASSUME Careful, IInv, [Next]_commandVars
  PROVE  [Order!Next]_Order!vars
  <1> USE PairsIs
  <1>1. /\ KeptTree(tree) /\ GoodTree(tree) /\ tree \in TreeType
        /\ tree.live \subseteq Node /\ Nil \notin Node
    BY Types DEF IInv, KeptTree, GoodTree
  <1>2. ASSUME UNCHANGED tree PROVE [Order!Next]_Order!vars
    BY <1>2 DEF Order!vars
  <1>3. SUFFICES ASSUME Next PROVE [Order!Next]_Order!vars
    BY <1>2 DEF commandVars
  <1>4. ASSUME NEW n \in Node, NEW a \in AddActions, NEW x \in Node, New(n, a, x)
        PROVE  [Order!Next]_Order!vars
    <2>1. HasPlace(tree, a, x) /\ n \in Node \ tree.live
      BY <1>4, SoundPlace DEF New
    <2>2. tree' = Add(Node_New(tree, n), a, n, x)
      BY <1>4 DEF New
    <2>3. /\ tree'.live = tree.live \cup {n}
          /\ \E g \in tree.live \cap Groups : \E i \in 1 .. Len(Kids(tree)[g]) + 1 :
               Kids(tree') = [Kids(tree) EXCEPT ![g] = Order!InsertAt(@, i, n)]
      BY <1>1, <2>1, <2>2, NewKidsAre
    <2>4. Order!Create(n)
      BY <2>1, <2>3 DEF Order!Create, Kids
    <2>5. n \in Order!Node
      BY DEF Order!Node, Node
    <2> QED BY <2>4, <2>5 DEF Order!Next
  <1>5. ASSUME NEW n \in Node, NEW r \in Node, NewReplacing(n, r)
        PROVE  [Order!Next]_Order!vars
    <2>1. n \in Node \ tree.live /\ r \in tree.live /\ tree.mParent[r] # Nil
      BY <1>5 DEF NewReplacing, Sound
    <2>2. tree' = Node_Replace(Node_New(tree, n), n, r)
      BY <1>5 DEF NewReplacing
    <2>3. /\ tree'.live = (tree.live \cup {n}) \ Below(tree, r)
          /\ Kids(tree') = [g \in Groups |-> IF g \in Below(tree, r) THEN <<>>
                                             ELSE Order!ReplaceAll(Kids(tree)[g], r, n)]
      BY <1>1, <2>1, <2>2, ReplaceKids
    <2>4. Below(tree, r) = Order!Below(r) /\ r # Root
      BY <1>1, <2>1, OrderBelow DEF GoodTree
    <2>5. Order!Replace(n, r)
      BY <2>1, <2>3, <2>4 DEF Order!Replace, Kids
    <2>6. n \in Order!Node /\ r \in Order!Node
      BY DEF Order!Node, Node
    <2> QED BY <2>5, <2>6 DEF Order!Next
  <1>6. ASSUME NEW n \in Node, NodeFree(n) PROVE [Order!Next]_Order!vars
    BY <1>1, <1>6, DeleteIsOrdered DEF NodeFree
  <1>7. ASSUME NEW g \in Groups, FreeAll(g) PROVE [Order!Next]_Order!vars
    <2>1. g \in Groups \cap tree.live /\ tree' = Group_DeleteAll(tree, g)
      BY <1>7 DEF FreeAll
    <2>2. /\ tree'.live = (tree.live \ Below(tree, g)) \cup {g}
          /\ Kids(tree') = [h \in Groups |-> IF h \in Below(tree, g) THEN <<>> ELSE Kids(tree)[h]]
      BY <1>1, <2>1, DeleteAllKids
    <2>3. Below(tree, g) = Order!Below(g)
      BY <1>1, <2>1, OrderBelow
    <2>4. Order!FreeAll(g)
      BY <2>1, <2>2, <2>3 DEF Order!FreeAll, Kids
    <2> QED BY <2>4 DEF Order!Next
  <1>8. ASSUME NEW a \in {"head", "tail"}, NEW g \in Groups, NEW n \in Node, MoveToGroup(a, g, n)
        PROVE  [Order!Next]_Order!vars
    <2>1. HasPlace(tree, a, g) /\ n \in tree.live /\ g \notin Below(tree, n)
      BY <1>8, SoundPlace DEF MoveToGroup, AddActions
    <2>2. tree' = Add(Node_Remove(tree, n), a, n, g)
      BY <1>8 DEF MoveToGroup
    <2> QED BY <1>1, <2>1, <2>2, MoveIsOrdered
  <1>9. ASSUME NEW cmd \in DOMAIN Pairs, msg.cmd = cmd, tree' = MoveWaiting(cmd)
        PROVE  [Order!Next]_Order!vars
    <2>1. /\ msg.node \in tree.live
          /\ HasPlace(tree, Pairs[cmd], msg.target)
          /\ msg.target \notin Below(tree, msg.node)
      BY <1>9 DEF IInv, MsgKept
    <2> QED BY <1>1, <1>9, <2>1, MoveIsOrdered DEF MoveWaiting
  <1>10. ASSUME NEW cmd \in DOMAIN Pairs, NEW n \in Node, NEW x \in Node, ReadPair(cmd, n, x)
         PROVE  [Order!Next]_Order!vars
    <2>1. CASE msg.node \notin {Nil, n}
      <3>1. msg.cmd = cmd /\ tree' = MoveWaiting(cmd)
        BY <1>10, <2>1 DEF ReadPair, AfterPair, Idle
      <3> QED BY <1>9, <3>1
    <2>2. CASE msg.node \in {Nil, n}
      BY <1>2, <1>10, <2>2 DEF ReadPair, AfterPair
    <2> QED BY <2>1, <2>2
  <1>11. ASSUME NEW a \in AddActions, NEW x \in Node, NEW n \in Node, OrderFirst(a, x, n)
         PROVE  [Order!Next]_Order!vars
    <2>1. HasPlace(tree, a, x) /\ n \in tree.live /\ x \notin Below(tree, n)
      BY <1>11, SoundPlace DEF OrderFirst
    <2>2. tree' = Add(Node_Remove(tree, n), a, n, x)
      BY <1>11 DEF OrderFirst
    <2> QED BY <1>1, <2>1, <2>2, MoveIsOrdered
  <1>12. ASSUME Continue PROVE [Order!Next]_Order!vars
    <2>1. ASSUME NEW s \in Synths, DeepFreeGraph(s) PROVE [Order!Next]_Order!vars
      <3>1. s \in tree.live /\ tree' = Node_Delete(tree, s)
        BY <2>1 DEF DeepFreeGraph, SynthsBelow, Below
      <3> QED BY <1>1, <3>1, DeleteIsOrdered
    <2>2. ASSUME NEW cmd \in DOMAIN Pairs, EndPairs(cmd) PROVE [Order!Next]_Order!vars
      BY <1>2, <1>9, <2>2 DEF EndPairs
    <2>3. ASSUME NEW n \in Node, OrderNext(n) PROVE [Order!Next]_Order!vars
      <3>1. msg.node \in tree.live /\ n \in tree.live /\ Sound(tree, "after", n, msg.node)
        BY <2>3 DEF OrderNext, IInv, MsgKept
      <3>2. HasPlace(tree, "after", msg.node) /\ msg.node \notin Below(tree, n)
        BY <3>1, SoundPlace DEF IsTarget, AddActions
      <3>3. tree' = Add(Node_Remove(tree, n), "after", n, msg.node)
        BY <2>3 DEF OrderNext, Add
      <3> QED BY <1>1, <3>1, <3>2, <3>3, MoveIsOrdered
    <2> QED BY <1>2, <1>12, <2>1, <2>2, <2>3 DEF Continue, DeepFreeEnd, OrderEnd
  <1> QED BY <1>2, <1>3, <1>4, <1>5, <1>6, <1>7, <1>8, <1>10, <1>11, <1>12 DEF Next, DeepFree

LEMMA InitIsOrdered == Init => Order!Init
  <1> SUFFICES ASSUME Init PROVE Order!Init
    OBVIOUS
  <1>1. tree = InitTree /\ GoodTree(tree) /\ tree.live = {Root}
    BY InitTreeKept DEF Init, KeptTree, InitTree
  <1>2. PICK c : c = [g \in Groups |-> <<>>]
    OBVIOUS
  <1>3. \A g \in Groups : Members(tree, g) = {} /\ c[g] = <<>>
    BY <1>1, <1>2, NilAssumption, RootAssumption DEF Members, InitTree, Node
  <1>4. Kids(tree) = c
    BY <1>1, <1>2, <1>3, ListEmpty, KidsAre
  <1> QED BY <1>1, <1>2, <1>4 DEF Order!Init, Kids

(* Whatever the commands do to the links, it is one of the few things they *)
(* promise to do to the ordered tree: one node is created, one is moved,   *)
(* one is replaced, or whole subtrees are freed, and the children of every *)
(* group otherwise keep their order of execution (SC_Group.cpp,            *)
(* SC_Node.cpp, SC_MiscCmds.cpp).                                          *)
THEOREM OrderIsImplemented == Careful => (Spec => ImplementsOrder)
  <1> SUFFICES ASSUME Careful PROVE Spec => Order!Spec
    BY DEF ImplementsOrder
  <1>1. IInv /\ [Next]_commandVars => [Order!Next]_Order!vars
    BY NextIsOrdered
  <1> QED BY <1>1, InitIsOrdered, Invariance, PTL DEF Spec, Order!Spec

-----------------------------------------------------------------------------
(* What the calculation of a block deletes.  A node that is cut out takes  *)
(* what is below it along, and its siblings close up.                      *)
Cut(t, u, c, D) ==
    /\ u.live = t.live \ D
    /\ \A x \in t.live \ D :
          /\ u.mParent[x] = t.mParent[x]
          /\ u.mPrev[x] = IF x = t.mNext[c] THEN t.mPrev[c] ELSE t.mPrev[x]
          /\ u.mNext[x] = IF x = t.mPrev[c] THEN t.mNext[c] ELSE t.mNext[x]

LEMMA DeleteCuts ==
  ASSUME NEW t, KeptTree(t), NEW c \in t.live, c # Root
  PROVE  Cut(t, Node_Delete(t, c), c, Below(t, c))
  <1>1. PICK v : v = Node_Remove(t, c)
    OBVIOUS
  <1>2. Removed(t, v, c) /\ v \in TreeType
    BY <1>1, RemoveGood DEF KeptTree, GoodTree
  <1>3. PICK D : D = Below(t, c)
    OBVIOUS
  <1>4. c \in D /\ D \subseteq t.live /\ t \in TreeType
    BY <1>3, BelowFacts DEF KeptTree, GoodTree
  <1>5. PICK u : u = Forget(v, D)
    OBVIOUS
  <1>6. Forgotten(v, u, D, Nil)
    BY <1>2, <1>5, ForgetFields
  <1>7. u = Node_Delete(t, c)
    BY <1>1, <1>3, <1>5 DEF Node_Delete
  <1>8. Cut(t, u, c, D)
    BY <1>2, <1>4, <1>6, Types DEF Cut, Removed, Forgotten
  <1> QED BY <1>3, <1>7, <1>8

(* u is t without some nodes whose parents are in D; the lists of all      *)
(* other groups are as they were.                                          *)
Spared(t, u, D) ==
    /\ u.live \subseteq t.live
    /\ \A x \in u.live : u.mParent[x] = t.mParent[x]
    /\ \A x \in t.live : t.mParent[x] \notin D =>
          /\ x \in u.live
          /\ u.mPrev[x] = t.mPrev[x] /\ u.mNext[x] = t.mNext[x]

LEMMA DeleteAllSpares ==
  ASSUME NEW t, KeptTree(t), NEW g \in Groups \cap t.live
  PROVE  Spared(t, Group_DeleteAll(t, g), Below(t, g))
  <1>1. PICK D : D = Below(t, g)
    OBVIOUS
  <1>2. PICK u : u = Group_DeleteAll(t, g)
    OBVIOUS
  <1>3. Forgotten(t, u, D \ {g}, g) /\ t \in TreeType
    BY <1>1, <1>2, DeleteAllFields DEF KeptTree, GoodTree
  <1>4. \A x \in D : x # g => t.mParent[x] \in D
    BY <1>1, <1>3, BelowFacts
  <1>5. Spared(t, u, D)
    BY <1>3, <1>4, Types DEF Forgotten, Spared
  <1> QED BY <1>1, <1>2, <1>5

(* A synth has nothing below it.                                           *)
LEMMA SynthBelow ==
  ASSUME NEW t \in TreeType, NEW s \in Synths \cap t.live
  PROVE  Below(t, s) = {s}
  <1>1. Closed(t, {s})
    BY KindAssumption, Types DEF Closed, TreeType, Node
  <1> QED BY <1>1, BelowFacts

LEMMA SynthSpared ==
  ASSUME NEW t, KeptTree(t), NEW D \in SUBSET t.live, Closed(t, D),
         NEW u, KeptTree(u), Spared(t, u, D),
         NEW s \in Synths \cap u.live, t.mParent[s] \in D
  PROVE  /\ KeptTree(Node_Delete(u, s))
         /\ Spared(t, Node_Delete(u, s), D)
         /\ Node_Delete(u, s).live = u.live \ {s}
  <1>1. PICK w : w = Node_Delete(u, s)
    OBVIOUS
  <1>2. s # Root /\ t \in TreeType /\ u \in TreeType
    BY KindAssumption, RootAssumption DEF KeptTree, GoodTree
  <1>3. Cut(u, w, s, {s})
    BY <1>1, <1>2, DeleteCuts, SynthBelow
  <1>4. \A x \in t.live : t.mParent[x] \notin D =>
           x # s /\ x \in u.live /\ u.mNext[s] # x /\ u.mPrev[s] # x
    <2> SUFFICES ASSUME NEW x \in t.live, t.mParent[x] \notin D
                 PROVE  x # s /\ x \in u.live /\ u.mNext[s] # x /\ u.mPrev[s] # x
      OBVIOUS
    <2>1. x \in u.live /\ u.mParent[x] = t.mParent[x] /\ u.mParent[s] = t.mParent[s]
      BY DEF Spared
    <2>2. u.mParent[x] # u.mParent[s]
      BY <2>1
    <2> QED BY <1>2, <2>1, <2>2, Types DEF KeptTree, GoodTree, WellLinked, NextAgrees, PrevAgrees
  <1>5. Spared(t, w, D)
    BY <1>3, <1>4 DEF Cut, Spared
  <1>6. KeptTree(w) /\ w.live = u.live \ {s}
    BY <1>1, <1>3, DeleteKept DEF Cut
  <1> QED BY <1>1, <1>5, <1>6

(* FreeGraphs folds Node_Delete over a finite set of synths; the fold is a *)
(* recursive function on the subsets of it, which exists.                  *)
Some(E) == CHOOSE x \in E : TRUE
FoldStep(t, f, E) == IF E = {} THEN t ELSE Node_Delete(f[E \ {Some(E)}], Some(E))
UpTo(S, n) == {E \in SUBSET S : Cardinality(E) <= n}
IsFold(t, f, S, n) == f = [E \in UpTo(S, n) |-> FoldStep(t, f, E)]

LEMMA FoldExists ==
  ASSUME NEW t, NEW S, IsFiniteSet(S), NEW N \in Nat
  PROVE  \E f : IsFold(t, f, S, N)
  <1> DEFINE T == {n \in Nat : ~ \E f : IsFold(t, f, S, n)}
  <1>1. SUFFICES ASSUME T # {} PROVE FALSE
    OBVIOUS
  <1>2. PICK m \in T : \A k \in T : m <= k
    BY <1>1, LeastNat
  <1>3. \A E \in SUBSET S : IsFiniteSet(E) /\ Cardinality(E) \in Nat
    BY FS_Subset, FS_CardinalityType
  <1>4. m # 0
    <2>1. UpTo(S, 0) = {{}}
      BY <1>3, FS_EmptySet DEF UpTo
    <2>2. PICK f : f = [E \in UpTo(S, 0) |-> t]
      OBVIOUS
    <2>3. IsFold(t, f, S, 0)
      BY <2>1, <2>2 DEF IsFold, FoldStep
    <2> QED BY <1>2, <2>3
  <1>5. m - 1 \in Nat /\ m - 1 \notin T
    BY <1>2, <1>4
  <1>6. PICK f : IsFold(t, f, S, m - 1)
    BY <1>5
  <1>7. PICK h : h = [E \in UpTo(S, m) |-> FoldStep(t, f, E)]
    OBVIOUS
  <1>8. \A E \in UpTo(S, m) : h[E] = FoldStep(t, h, E)
    <2> TAKE E \in UpTo(S, m)
    <2>1. CASE E = {}
      BY <1>7, <2>1 DEF FoldStep
    <2>2. CASE E # {}
      <3>1. PICK F : F = E \ {Some(E)}
        OBVIOUS
      <3>2. Some(E) \in E
        BY <2>2 DEF Some
      <3>3. Cardinality(F) = Cardinality(E) - 1
        BY <1>3, <3>1, <3>2, FS_RemoveElement DEF UpTo
      <3>4. F \in UpTo(S, m - 1) /\ F \in UpTo(S, m)
        BY <1>2, <1>3, <3>1, <3>3 DEF UpTo
      <3>5. h[F] = FoldStep(t, f, F) /\ f[F] = FoldStep(t, f, F)
        BY <1>6, <1>7, <3>4 DEF IsFold
      <3> QED BY <1>7, <2>2, <3>1, <3>5 DEF FoldStep
    <2> QED BY <2>1, <2>2
  <1>9. h = [E \in UpTo(S, m) |-> FoldStep(t, h, E)]
    BY <1>7, <1>8
  <1> QED BY <1>2, <1>9 DEF IsFold

LEMMA FreeGraphsFolds ==
  ASSUME NEW t, NEW g, IsFiniteSet(SynthsBelow(t, g))
  PROVE  \E f : /\ FreeGraphs(t, g) = f[SynthsBelow(t, g)]
                /\ \A E \in SUBSET SynthsBelow(t, g) : f[E] = FoldStep(t, f, E)
  <1> DEFINE S == SynthsBelow(t, g)
             F == CHOOSE f : f = [E \in SUBSET S |-> FoldStep(t, f, E)]
  <1>1. UpTo(S, Cardinality(S)) = SUBSET S
    BY FS_Subset DEF UpTo
  <1>2. Cardinality(S) \in Nat
    BY FS_CardinalityType
  <1>3. \E f : f = [E \in SUBSET S |-> FoldStep(t, f, E)]
    <2>1. PICK f : IsFold(t, f, S, Cardinality(S))
      BY <1>2, FoldExists
    <2>2. f = [E \in SUBSET S |-> FoldStep(t, f, E)]
      BY <1>1, <2>1 DEF IsFold
    <2> QED BY <2>2
  <1>4. F = [E \in SUBSET S |-> FoldStep(t, F, E)]
    BY <1>3
  <1>5. FreeGraphs(t, g) = F[S]
    BY DEF FreeGraphs, FoldSet, MapThenFoldSet, FoldStep, Some
  <1> HIDE DEF F
  <1>6. \A E \in SUBSET S : F[E] = FoldStep(t, F, E)
    BY <1>4
  <1> QED BY <1>5, <1>6

LEMMA FreeGraphsSpares ==
  ASSUME NEW t, KeptTree(t), NEW g \in Groups \cap t.live
  PROVE  /\ KeptTree(FreeGraphs(t, g))
         /\ Spared(t, FreeGraphs(t, g), Below(t, g))
  <1> DEFINE S == SynthsBelow(t, g)
             D == Below(t, g)
  <1>1. /\ t \in TreeType /\ IsFiniteSet(t.live) /\ D \in SUBSET t.live /\ Closed(t, D)
        /\ \A x \in D : x # g => t.mParent[x] \in D
    BY BelowFacts DEF KeptTree, GoodTree
  <1>2. S \subseteq t.live /\ S \subseteq Synths /\ \A s \in S : t.mParent[s] \in D
    BY <1>1, KindAssumption DEF SynthsBelow
  <1>3. IsFiniteSet(S)
    BY <1>1, <1>2, FS_Subset
  <1>4. PICK f : /\ FreeGraphs(t, g) = f[S]
                 /\ \A E \in SUBSET S : f[E] = FoldStep(t, f, E)
    BY <1>3, FreeGraphsFolds
  <1> HIDE DEF S, D
  <1> DEFINE Good(E) == KeptTree(f[E]) /\ Spared(t, f[E], D) /\ f[E].live = t.live \ E
             C == {E \in SUBSET S : ~ Good(E)}
  <1>5. C = {}
    <2>1. SUFFICES ASSUME C # {} PROVE FALSE
      OBVIOUS
    <2>2. PICK E : MinimalIn(E, C)
      BY <1>3, <2>1, MinSubset
    <2>3. E \in SUBSET S /\ ~ Good(E) /\ \A F \in SUBSET S : F \subseteq E /\ F # E => Good(F)
      BY <2>2 DEF MinimalIn
    <2>4. E # {}
      <3>1. Spared(t, t, D)
        BY DEF Spared
      <3>2. f[{}] = t
        BY <1>4 DEF FoldStep
      <3> QED BY <2>3, <3>1, <3>2
    <2>5. PICK s : s = Some(E)
      OBVIOUS
    <2>6. s \in E
      BY <2>4, <2>5 DEF Some
    <2>7. PICK u : u = f[E \ {s}]
      OBVIOUS
    <2>8. KeptTree(u) /\ Spared(t, u, D) /\ u.live = t.live \ (E \ {s})
      <3>1. Good(E \ {s})
        BY <2>3, <2>6
      <3> QED BY <2>7, <3>1
    <2>9. f[E] = Node_Delete(u, s)
      BY <1>4, <2>3, <2>4, <2>5, <2>7 DEF FoldStep
    <2>10. s \in Synths \cap u.live /\ t.mParent[s] \in D
      BY <1>2, <2>3, <2>6, <2>8
    <2>11. /\ KeptTree(f[E]) /\ Spared(t, f[E], D)
           /\ f[E].live = u.live \ {s}
      BY <1>1, <2>8, <2>9, <2>10, SynthSpared
    <2>12. u.live \ {s} = t.live \ E
      BY <2>6, <2>8
    <2> QED BY <2>3, <2>11, <2>12
  <1>6. Good(S)
    BY <1>5
  <1> QED BY <1>4, <1>6 DEF D

-----------------------------------------------------------------------------
(* The frames of a traversal.  In the list of a group that is being walked *)
(* the nodes before the next child have been called and the others not,    *)
(* said link by link: what follows a node that has not been called, or the *)
(* next child, has not been called, and nothing else begins a run.         *)
Running == {"Graph_Calc", "Graph_CalcTrace"}
FrameType == [node : Node, calc : GroupFuncs \cup SynthFuncs, child : Node \cup {Nil}]

Progress(t, V, g, c) ==
    /\ c # Nil => c \notin V
    /\ \A m \in Members(t, g) :
          /\ (m = c \/ m \in V) /\ t.mPrev[m] # Nil => t.mPrev[m] \in V
          /\ m # c /\ m \notin V => t.mPrev[m] # Nil /\ t.mPrev[m] \notin V

FrameOK(t, V, fr) ==
    /\ fr \in FrameType
    /\ fr.node \in t.live \cap V
    /\ fr.child # Nil => t.mParent[fr.child] = fr.node
    /\ fr.calc \in GroupFuncs => fr.node \in Groups /\ Progress(t, V, fr.node, fr.child)
    /\ fr.calc \in SynthFuncs => fr.node \in Synths /\ fr.child = Nil

(* Each frame is inside the one before it.                                 *)
Chained(t, st) ==
    /\ st \in Seq(FrameType)
    /\ st # <<>> => st[1].node = Root
    /\ \A i \in 1 .. Len(st) : i > 1 => t.mParent[st[i].node] = st[i - 1].node

FramesOK(t, V, st) == Chained(t, st) /\ \A i \in 1 .. Len(st) : FrameOK(t, V, st[i])

(* A node that has been called was called by its parent.                   *)
Seen(t, V) == \A x \in t.live \cap V : x # Root => t.mParent[x] \in V

StackInv ==
    /\ FramesOK(tree, visited, stack) /\ Seen(tree, visited)
    /\ visited \subseteq Node
    /\ stack = <<>> => visited = {}

-----------------------------------------------------------------------------
(* One frame.                                                              *)
LEMMA FrameFacts ==
  ASSUME NEW t, NEW V, NEW fr, FrameOK(t, V, fr)
  PROVE  /\ fr.node \in Node /\ fr.child \in Node \cup {Nil}
         /\ fr.calc \in GroupFuncs \cup SynthFuncs
  BY DEF FrameOK, FrameType

LEMMA MembersFacts ==
  ASSUME NEW t, GoodTree(t), NEW g, NEW m \in Members(t, g), g # Nil
  PROVE  /\ m \in t.live /\ m \in Node /\ t.mParent[m] = g /\ m # Nil
         /\ t.mPrev[m] # Nil => t.mPrev[m] \in Members(t, g) /\ t.mNext[t.mPrev[m]] = m
         /\ t.mNext[m] # Nil => t.mNext[m] \in Members(t, g) /\ t.mPrev[t.mNext[m]] = m
         /\ t.mPrev[m] # m /\ t.mNext[m] # m
  <1>1. /\ t \in TreeType /\ m \in t.live /\ t.mParent[m] = g /\ m \in Node /\ m # Nil
    BY Types DEF Members, GoodTree
  <1>2. /\ t.mPrev[m] # Nil => t.mPrev[m] \in Members(t, g) /\ t.mNext[t.mPrev[m]] = m
        /\ t.mNext[m] # Nil => t.mNext[m] \in Members(t, g) /\ t.mPrev[t.mNext[m]] = m
    BY <1>1, Types DEF Members, GoodTree, WellLinked, NextAgrees, PrevAgrees
  <1>3. t.mPrev[m] # m
    <2>1. {m} \in SUBSET t.live /\ {m} # {}
      BY <1>1
    <2> QED BY <2>1 DEF GoodTree, NoRing
  <1> QED BY <1>1, <1>2, <1>3

(* A call of a node of another group.                                      *)
LEMMA FrameVisited ==
  ASSUME NEW t, GoodTree(t), NEW V, NEW fr, FrameOK(t, V, fr),
         NEW c \in Node, t.mParent[c] # fr.node
  PROVE  FrameOK(t, V \cup {c}, fr)
  <1>1. fr.node # Nil /\ fr.node \in Node
    BY FrameFacts, Types DEF GoodTree
  <1>2. \A m \in Members(t, fr.node) :
           /\ m # c
           /\ t.mPrev[m] # Nil => t.mPrev[m] # c
    BY <1>1, MembersFacts DEF Members
  <1>3. Progress(t, V, fr.node, fr.child) => Progress(t, V \cup {c}, fr.node, fr.child)
    BY <1>2 DEF Progress, FrameOK
  <1> QED BY <1>3 DEF FrameOK

(* A call of the next child.                                               *)
LEMMA FrameNext ==
  ASSUME NEW t, GoodTree(t), NEW V, NEW fr, FrameOK(t, V, fr), fr.calc \in GroupFuncs,
         fr.child # Nil
  PROVE  FrameOK(t, V \cup {fr.child}, [fr EXCEPT !.child = t.mNext[fr.child]])
  <1>1. PICK g, c, n : g = fr.node /\ c = fr.child /\ n = t.mNext[c]
    OBVIOUS
  <1>2. /\ g \in Node /\ c \in Node /\ g # Nil /\ t.mParent[c] = g /\ t \in TreeType
        /\ n \in Node \cup {Nil}
    BY ZenonT(60), <1>1, FrameFacts, Types DEF GoodTree, FrameOK
  <1>3. c \in Members(t, g)
    BY <1>2, Types DEF Members, GoodTree, WellLinked, FreedIsUnlinked
  <1>4. Progress(t, V, g, c)
    BY <1>1 DEF FrameOK
  <1>5. n # Nil => n \in Members(t, g) /\ t.mPrev[n] = c /\ n # c
    BY <1>1, <1>2, <1>3, MembersFacts
  <1>6. Progress(t, V \cup {c}, g, n)
    <2>1. n # Nil => n \notin V \cup {c}
      BY <1>2, <1>3, <1>4, <1>5, MembersFacts DEF Progress
    <2>2. ASSUME NEW m \in Members(t, g)
          PROVE  /\ (m = n \/ m \in V \cup {c}) /\ t.mPrev[m] # Nil => t.mPrev[m] \in V \cup {c}
                 /\ m # n /\ m \notin V \cup {c} => t.mPrev[m] # Nil /\ t.mPrev[m] \notin V \cup {c}
      <3>1. t.mPrev[m] = c => m = n
        BY <1>1, <1>2, <1>3, MembersFacts
      <3>2. m = n => t.mPrev[m] = c
        BY <1>2, <1>5, <2>2, MembersFacts
      <3> QED BY <1>4, <3>1, <3>2 DEF Progress
    <2> QED BY <2>1, <2>2 DEF Progress
  <1>7. PICK fr2 : fr2 = [fr EXCEPT !.child = n]
    OBVIOUS
  <1>8. /\ fr2 \in FrameType /\ fr2.node = g /\ fr2.child = n /\ fr2.calc = fr.calc
    BY <1>1, <1>2, <1>7 DEF FrameOK, FrameType
  <1>9. n # Nil => t.mParent[n] = g
    BY <1>5 DEF Members
  <1>10. fr2.calc \notin SynthFuncs
    BY <1>8 DEF GroupFuncs, SynthFuncs, CtorFuncs
  <1>11. fr.node \in t.live /\ fr.node \in V /\ fr.node \in Groups
    BY DEF FrameOK
  <1>12. FrameOK(t, V \cup {c}, fr2)
    BY <1>1, <1>6, <1>8, <1>9, <1>10, <1>11 DEF FrameOK
  <1> QED BY <1>1, <1>7, <1>12

(* A node is cut out that is not in the list of the frame, or has been     *)
(* gone past.                                                              *)
LEMMA FrameCut ==
  ASSUME NEW t, KeptTree(t), NEW V, NEW fr, FrameOK(t, V, fr),
         NEW c \in t.live, NEW u, KeptTree(u), Cut(t, u, c, Below(t, c)),
         fr.node \notin Below(t, c),
         t.mParent[c] # fr.node \/ (c \in V /\ fr.child = t.mNext[c] /\ fr.calc \in GroupFuncs)
  PROVE  FrameOK(u, V, fr)
  <1>1. PICK g, k, D : g = fr.node /\ k = fr.child /\ D = Below(t, c)
    OBVIOUS
  <1>2. /\ g \in Node /\ g # Nil /\ g \in t.live /\ g \notin D /\ g \in V
        /\ k # Nil => t.mParent[k] = g /\ k \in Members(t, g)
        /\ t \in TreeType /\ GoodTree(t) /\ u \in TreeType
    <2>1. t \in TreeType /\ GoodTree(t) /\ u \in TreeType
      BY DEF KeptTree, GoodTree
    <2>2. g \in Node /\ k \in Node \cup {Nil} /\ g \in t.live /\ g \in V /\ g \notin D
      BY <1>1, FrameFacts DEF FrameOK
    <2>3. Nil \notin Node
      BY <2>1, Types
    <2>4. ASSUME k # Nil PROVE t.mParent[k] = g /\ k \in Members(t, g)
      <3>1. t.mParent[k] = g /\ k \in Node
        BY <1>1, <2>2, <2>4 DEF FrameOK
      <3>2. k \in t.live
        BY <2>1, <2>2, <2>3, <3>1 DEF GoodTree, WellLinked, FreedIsUnlinked
      <3> QED BY <3>1, <3>2 DEF Members
    <2> QED BY <2>1, <2>2, <2>3, <2>4
  <1>3. /\ D \subseteq t.live /\ c \in D
        /\ \A x \in D : x # c => t.mParent[x] \in D
    BY <1>1, <1>2, BelowFacts
  <1>4. /\ u.live = t.live \ D
        /\ \A x \in t.live \ D :
              /\ u.mParent[x] = t.mParent[x]
              /\ u.mPrev[x] = IF x = t.mNext[c] THEN t.mPrev[c] ELSE t.mPrev[x]
    BY <1>1 DEF Cut
  <1>5. Members(u, g) = Members(t, g) \ {c}
    BY <1>2, <1>3, <1>4 DEF Members
  <1>6. k # Nil => k # c
    BY <1>1, <1>2, <1>3, MembersFacts
  <1>7. k # Nil => u.mParent[k] = g
    BY <1>2, <1>4, <1>5, <1>6 DEF Members
  <1>8. \A m \in Members(u, g) :
           /\ m \in Members(t, g)
           /\ t.mParent[c] # g => u.mPrev[m] = t.mPrev[m]
           /\ u.mPrev[m] = IF m = t.mNext[c] THEN t.mPrev[c] ELSE t.mPrev[m]
    <2> TAKE m \in Members(u, g)
    <2>1. m \in Members(t, g) /\ m \in t.live \ D /\ t.mParent[m] = g
      BY <1>4, <1>5 DEF Members
    <2>2. m = t.mNext[c] => t.mParent[c] = g
      BY <1>2, <2>1, Types DEF GoodTree, WellLinked, NextAgrees
    <2> QED BY <1>4, <2>1, <2>2
  <1>9. Progress(t, V, g, k) => Progress(u, V, g, k)
    <2>1. CASE t.mParent[c] # g
      BY <1>5, <1>8, <2>1 DEF Progress
    <2>2. CASE t.mParent[c] = g
      <3>1. c \in V /\ k = t.mNext[c] /\ c \in Members(t, g)
        BY <1>1, <2>2 DEF Members
      <3>2. Progress(t, V, g, k) => (t.mPrev[c] # Nil => t.mPrev[c] \in V)
        BY <3>1 DEF Progress
      <3> QED BY <1>8, <3>1, <3>2 DEF Progress
    <2> QED BY <2>1, <2>2
  <1> QED BY <1>1, <1>2, <1>4, <1>7, <1>9 DEF FrameOK

(* Nodes below other groups are freed.                                     *)
LEMMA FrameSpared ==
  ASSUME NEW t, KeptTree(t), NEW V, NEW fr, FrameOK(t, V, fr),
         NEW u, KeptTree(u), NEW D, Spared(t, u, D),
         fr.node \notin D, t.mParent[fr.node] \notin D
  PROVE  FrameOK(u, V, fr)
  <1>1. PICK g, k : g = fr.node /\ k = fr.child
    OBVIOUS
  <1>2. /\ g \in Node /\ g # Nil /\ g \in t.live /\ g \in V
        /\ k # Nil => t.mParent[k] = g /\ k \in t.live
    BY ZenonT(60), <1>1, FrameFacts, Types DEF GoodTree, FrameOK, KeptTree, WellLinked, FreedIsUnlinked
  <1>3. g \in u.live
    BY <1>1, <1>2 DEF Spared
  <1>4. k # Nil => u.mParent[k] = g
    BY <1>1, <1>2 DEF Spared
  <1>5. Members(u, g) = Members(t, g)
    BY <1>1 DEF Members, Spared
  <1>6. \A m \in Members(t, g) : u.mPrev[m] = t.mPrev[m]
    BY <1>1 DEF Members, Spared
  <1>7. Progress(t, V, g, k) => Progress(u, V, g, k)
    BY <1>5, <1>6 DEF Progress
  <1> QED BY <1>1, <1>2, <1>3, <1>4, <1>7 DEF FrameOK

(* The frame of a group that is entered.                                   *)
LEMMA FrameEntered ==
  ASSUME NEW t, GoodTree(t), NEW V, NEW c \in Groups \cap t.live, c \in V,
         \A m \in Members(t, c) : m \notin V, NEW f \in GroupFuncs
  PROVE  FrameOK(t, V, Frame(c, f, t.mHead[c]))
  <1>1. PICK h : h = t.mHead[c]
    OBVIOUS
  <1>2. t \in TreeType /\ c \in Node /\ c # Nil /\ h \in Node \cup {Nil}
    BY <1>1, Types DEF GoodTree
  <1>3. h # Nil => h \in Members(t, c) /\ t.mPrev[h] = Nil /\ t.mParent[h] = c
    BY <1>1, Types DEF GoodTree, WellLinked, HeadIsFirst, Members
  <1>4. \A m \in Members(t, c) : t.mPrev[m] = Nil => m = h
    BY <1>1, <1>2, MembersFacts DEF GoodTree, WellLinked, FirstIsHead
  <1>5. \A m \in Members(t, c) : t.mPrev[m] # Nil => t.mPrev[m] \in Members(t, c)
    BY <1>2, MembersFacts
  <1>6. Progress(t, V, c, h)
    <2>1. ASSUME NEW m \in Members(t, c)
          PROVE  /\ m = h => t.mPrev[m] = Nil
                 /\ m # h => t.mPrev[m] # Nil /\ t.mPrev[m] \notin V
                 /\ m \notin V
      BY <1>2, <1>3, <1>4, <1>5, MembersFacts
    <2>2. h # Nil => h \notin V
      BY <1>3
    <2> QED BY <2>1, <2>2 DEF Progress
  <1>7. f \notin SynthFuncs
    BY DEF GroupFuncs, SynthFuncs, CtorFuncs
  <1> QED BY <1>1, <1>2, <1>3, <1>6, <1>7 DEF FrameOK, FrameType, Frame

LEMMA FrameOfSynth ==
  ASSUME NEW t, GoodTree(t), NEW V, NEW s \in Synths \cap t.live, s \in V, NEW f \in SynthFuncs
  PROVE  FrameOK(t, V, Frame(s, f, Nil))
  <1>1. s \in Node /\ f \notin GroupFuncs
    BY DEF Node, GroupFuncs, SynthFuncs, CtorFuncs
  <1> QED BY <1>1 DEF FrameOK, FrameType, Frame

-----------------------------------------------------------------------------
(* The stack of frames.                                                    *)
Outer(st) == SubSeq(st, 1, Len(st) - 1)
Inmost(st) == st[Len(st)]

LEMMA OuterFacts ==
  ASSUME NEW S, NEW st \in Seq(S), st # <<>>
  PROVE  /\ Outer(st) \in Seq(S) /\ Len(Outer(st)) = Len(st) - 1
         /\ \A i \in 1 .. Len(st) - 1 : Outer(st)[i] = st[i]
         /\ Len(st) \in 1 .. Len(st) /\ Len(st) \in Nat
         /\ Inmost(st) \in S
  <1>1. Len(st) \in Nat /\ Len(st) # 0
    OBVIOUS
  <1>2. Len(st) \in 1 .. Len(st)
    BY <1>1
  <1>3. Outer(st) = [i \in 1 .. Len(st) - 1 |-> st[i]]
    BY <1>1 DEF Outer
  <1>4. \A i \in 1 .. Len(st) - 1 : i \in 1 .. Len(st) /\ st[i] \in S
    BY <1>1
  <1>5. Len(Outer(st)) = Len(st) - 1 /\ \A i \in 1 .. Len(st) - 1 : Outer(st)[i] = st[i]
    BY <1>1, <1>3
  <1>6. Outer(st) \in Seq(S)
    BY <1>1, <1>3, <1>4
  <1> QED BY <1>1, <1>2, <1>5, <1>6 DEF Inmost

LEMMA AppendFacts ==
  ASSUME NEW S, NEW st \in Seq(S), NEW x \in S
  PROVE  /\ Append(st, x) \in Seq(S) /\ Len(Append(st, x)) = Len(st) + 1
         /\ \A i \in 1 .. Len(st) : Append(st, x)[i] = st[i]
         /\ Append(st, x)[Len(st) + 1] = x
         /\ Append(st, x) # <<>>
  OBVIOUS

LEMMA Pushed ==
  ASSUME NEW t, NEW V, NEW st, FramesOK(t, V, st), NEW fr, FrameOK(t, V, fr),
         st = <<>> => fr.node = Root,
         st # <<>> => t.mParent[fr.node] = Inmost(st).node
  PROVE  FramesOK(t, V, Append(st, fr))
  <1>1. PICK w : w = Append(st, fr)
    OBVIOUS
  <1>2. st \in Seq(FrameType) /\ fr \in FrameType
    BY DEF FramesOK, Chained, FrameOK
  <1>3. /\ w \in Seq(FrameType) /\ Len(w) = Len(st) + 1
        /\ \A i \in 1 .. Len(st) : w[i] = st[i]
        /\ w[Len(st) + 1] = fr
    BY <1>1, <1>2, AppendFacts
  <1>4. Len(st) \in Nat /\ (Len(st) = 0 <=> st = <<>>)
    BY <1>2
  <1>5. \A i \in 1 .. Len(w) : i \in 1 .. Len(st) \/ i = Len(st) + 1
    BY <1>3, <1>4
  <1>6. \A i \in 1 .. Len(w) : FrameOK(t, V, w[i])
    BY <1>3, <1>5 DEF FramesOK
  <1>7. w[1].node = Root
    <2>1. CASE st = <<>>
      BY <1>3, <1>4, <2>1
    <2>2. CASE st # <<>>
      <3>1. 1 \in 1 .. Len(st)
        BY <1>4, <2>2
      <3> QED BY <1>3, <2>2, <3>1 DEF FramesOK, Chained
    <2> QED BY <2>1, <2>2
  <1>8. ASSUME NEW i \in 1 .. Len(w), i > 1 PROVE t.mParent[w[i].node] = w[i - 1].node
    <2>1. CASE i \in 1 .. Len(st)
      <3>1. i - 1 \in 1 .. Len(st)
        BY <1>4, <1>8, <2>1
      <3> QED BY <1>3, <1>8, <2>1, <3>1 DEF FramesOK, Chained
    <2>2. CASE i = Len(st) + 1
      <3>1. i - 1 = Len(st) /\ i - 1 \in 1 .. Len(st) /\ st # <<>>
        BY <1>4, <1>8, <2>2
      <3> QED BY <1>3, <2>2, <3>1 DEF Inmost
    <2> QED BY <1>5, <2>1, <2>2
  <1> QED BY <1>1, <1>3, <1>6, <1>7, <1>8 DEF FramesOK, Chained

LEMMA Popped ==
  ASSUME NEW t, NEW V, NEW st, FramesOK(t, V, st), st # <<>>
  PROVE  /\ FramesOK(t, V, Outer(st))
         /\ Outer(st) # <<>> => t.mParent[Inmost(st).node] = Inmost(Outer(st)).node
         /\ Outer(st) = <<>> => Inmost(st).node = Root
         /\ FrameOK(t, V, Inmost(st))
  <1>1. PICK w : w = Outer(st)
    OBVIOUS
  <1>2. st \in Seq(FrameType)
    BY DEF FramesOK, Chained
  <1>3. /\ w \in Seq(FrameType) /\ Len(w) = Len(st) - 1
        /\ \A i \in 1 .. Len(w) : w[i] = st[i]
        /\ Len(st) \in 1 .. Len(st) /\ Len(st) \in Nat
    BY <1>1, <1>2, OuterFacts
  <1>4. \A i \in 1 .. Len(w) : i \in 1 .. Len(st) /\ (i > 1 => i - 1 \in 1 .. Len(w))
    BY <1>3
  <1>5. \A i \in 1 .. Len(w) : FrameOK(t, V, w[i])
    BY <1>3, <1>4 DEF FramesOK
  <1>6. w # <<>> => 1 \in 1 .. Len(w)
    BY <1>3
  <1>7. w # <<>> => w[1].node = Root
    BY <1>3, <1>6 DEF FramesOK, Chained
  <1>8. \A i \in 1 .. Len(w) : i > 1 => t.mParent[w[i].node] = w[i - 1].node
    BY <1>3, <1>4 DEF FramesOK, Chained
  <1>9. FrameOK(t, V, Inmost(st))
    BY <1>3 DEF FramesOK, Inmost
  <1>10. w # <<>> => Len(w) \in 1 .. Len(w) /\ Len(st) > 1
    BY <1>3
  <1>11. w # <<>> => t.mParent[Inmost(st).node] = Inmost(w).node
    <2> SUFFICES ASSUME w # <<>> PROVE t.mParent[Inmost(st).node] = Inmost(w).node
      OBVIOUS
    <2>1. t.mParent[st[Len(st)].node] = st[Len(st) - 1].node
      BY <1>3, <1>10 DEF FramesOK, Chained
    <2>2. w[Len(w)] = st[Len(st) - 1]
      BY <1>3, <1>10
    <2> QED BY <2>1, <2>2 DEF Inmost
  <1>12. w = <<>> => Inmost(st).node = Root
    <2>1. w = <<>> => Len(st) = 1
      BY <1>3
    <2> QED BY <2>1 DEF FramesOK, Chained, Inmost
  <1> QED BY <1>1, <1>3, <1>5, <1>7, <1>8, <1>9, <1>11, <1>12 DEF FramesOK, Chained

(* Nothing that is below a node whose parent is the innermost group, or    *)
(* below a sibling of the innermost node, is being calculated.             *)
LEMMA Descend ==
  ASSUME NEW t, NEW V, NEW st, FramesOK(t, V, st), NEW D, Closed(t, D),
         NEW i \in 1 .. Len(st), st[i].node \in D
  PROVE  \A j \in i .. Len(st) : st[j].node \in D
  <1> DEFINE T == {j \in i .. Len(st) : st[j].node \notin D}
  <1>1. SUFFICES ASSUME T # {} PROVE FALSE
    OBVIOUS
  <1>2. st \in Seq(FrameType)
    BY DEF FramesOK, Chained
  <1>3. T \subseteq Nat
    BY <1>2
  <1>4. PICK m \in T : \A j \in T : m <= j
    <2> HIDE DEF T
    <2> QED BY <1>1, <1>3, LeastNat
  <1>5. m # i /\ m \in i .. Len(st) /\ m \in 1 .. Len(st) /\ m > 1 /\ st[m].node \notin D
    BY <1>2, <1>4
  <1>6. m - 1 \in i .. Len(st) /\ m - 1 \notin T
    BY <1>2, <1>4, <1>5
  <1>7. st[m - 1].node \in D
    BY <1>6
  <1>8. t.mParent[st[m].node] = st[m - 1].node /\ st[m].node \in t.live
    BY <1>5 DEF FramesOK, Chained, FrameOK
  <1> QED BY <1>5, <1>7, <1>8 DEF Closed

LEMMA NoneBelow ==
  ASSUME NEW t, KeptTree(t), NEW V, NEW st, FramesOK(t, V, st), st # <<>>,
         NEW x \in t.live, x # Root,
         \/ t.mParent[x] = Inmost(st).node
         \/ t.mParent[x] = t.mParent[Inmost(st).node] /\ x # Inmost(st).node
  PROVE  \A i \in 1 .. Len(st) : st[i].node \notin Below(t, x)
  <1> SUFFICES ASSUME NEW i \in 1 .. Len(st), st[i].node \in Below(t, x)
               PROVE  FALSE
    OBVIOUS
  <1>1. t \in TreeType /\ st \in Seq(FrameType)
    BY DEF KeptTree, GoodTree, FramesOK, Chained
  <1>2. /\ Closed(t, Below(t, x))
        /\ \A y \in Below(t, x) : y # x => t.mParent[y] \in Below(t, x)
    BY <1>1, BelowFacts
  <1>3. Len(st) \in i .. Len(st)
    BY <1>1
  <1>4. Inmost(st).node \in Below(t, x)
    BY <1>2, <1>3, Descend DEF Inmost
  <1>5. t.mParent[x] \in Below(t, x)
    BY <1>2, <1>4
  <1> QED BY <1>5, ParentNotBelow DEF KeptTree, GoodTree

LEMMA Apart ==
  ASSUME NEW t, KeptTree(t), NEW V, NEW st, FramesOK(t, V, st), st # <<>>,
         NEW i \in 1 .. Len(st) - 1
  PROVE  st[i].node # Inmost(st).node
  <1>1. SUFFICES ASSUME st[i].node = Inmost(st).node PROVE FALSE
    OBVIOUS
  <1>2. t \in TreeType /\ st \in Seq(FrameType)
    BY DEF KeptTree, GoodTree, FramesOK, Chained
  <1>3. PICK x : x = st[i + 1].node
    OBVIOUS
  <1>4. i + 1 \in 1 .. Len(st) /\ i + 1 > 1 /\ (i + 1) - 1 = i /\ Len(st) \in (i + 1) .. Len(st)
        /\ i \in 1 .. Len(st)
    BY <1>2
  <1>5. x \in t.live /\ t.mParent[x] = st[i].node /\ st[i].node # Nil
    <2>1. FrameOK(t, V, st[i])
      BY <1>4 DEF FramesOK
    <2> QED BY <1>2, <1>3, <1>4, <2>1, FrameFacts, Types DEF FramesOK, Chained, FrameOK
  <1>6. x # Root
    BY <1>5 DEF KeptTree, GoodTree
  <1>7. Closed(t, Below(t, x)) /\ x \in Below(t, x)
    BY <1>2, <1>5, BelowFacts
  <1>8. Inmost(st).node \in Below(t, x)
    BY <1>3, <1>4, <1>7, Descend DEF Inmost
  <1> QED BY <1>1, <1>5, <1>6, <1>8, ParentNotBelow DEF KeptTree, GoodTree

-----------------------------------------------------------------------------
(* All frames, when nodes below a group that is no frame's are freed, and  *)
(* when a node is cut out.                                                 *)
LEMMA SameChain ==
  ASSUME NEW t, NEW st, Chained(t, st), NEW u,
         \A i \in 1 .. Len(st) : u.mParent[st[i].node] = t.mParent[st[i].node]
  PROVE  Chained(u, st)
  BY DEF Chained

LEMMA FramesSpared ==
  ASSUME NEW t, KeptTree(t), NEW V, NEW st, FramesOK(t, V, st),
         NEW u, KeptTree(u), NEW D \in SUBSET t.live, Spared(t, u, D),
         \A i \in 1 .. Len(st) : st[i].node \notin D
  PROVE  FramesOK(u, V, st)
  <1>1. st \in Seq(FrameType) /\ Nil \notin D /\ t.mParent[Root] = Nil
    BY Types DEF FramesOK, Chained, KeptTree, GoodTree
  <1>2. ASSUME NEW i \in 1 .. Len(st) PROVE t.mParent[st[i].node] \notin D
    <2>1. CASE i = 1
      <3>1. st # <<>>
        BY <1>1, <1>2
      <3> QED BY <1>1, <2>1, <3>1 DEF FramesOK, Chained
    <2>2. CASE i # 1
      <3>1. i > 1 /\ i - 1 \in 1 .. Len(st)
        BY <1>1, <2>2
      <3> QED BY <3>1 DEF FramesOK, Chained
    <2> QED BY <2>1, <2>2
  <1>3. \A i \in 1 .. Len(st) : FrameOK(u, V, st[i])
    BY <1>2, FrameSpared DEF FramesOK
  <1>4. \A i \in 1 .. Len(st) : u.mParent[st[i].node] = t.mParent[st[i].node]
    BY <1>3 DEF FrameOK, Spared
  <1> QED BY <1>3, <1>4, SameChain DEF FramesOK

LEMMA FramesCut ==
  ASSUME NEW t, KeptTree(t), NEW V, NEW st, FramesOK(t, V, st),
         NEW c \in t.live, NEW u, KeptTree(u), Cut(t, u, c, Below(t, c)),
         \A i \in 1 .. Len(st) :
            /\ st[i].node \notin Below(t, c)
            /\ \/ t.mParent[c] # st[i].node
               \/ c \in V /\ st[i].child = t.mNext[c] /\ st[i].calc \in GroupFuncs
  PROVE  FramesOK(u, V, st)
  <1>1. \A i \in 1 .. Len(st) : FrameOK(u, V, st[i])
    BY FrameCut DEF FramesOK
  <1>2. \A i \in 1 .. Len(st) : u.mParent[st[i].node] = t.mParent[st[i].node]
    BY DEF FramesOK, FrameOK, Cut
  <1> QED BY <1>1, <1>2, SameChain DEF FramesOK

-----------------------------------------------------------------------------
(* The call of a node, and what it leaves of the stack.                    *)
Ending == {"Node_NullCalc", "Node_Delete"}
FuncOf(n, L) ==
    IF n \notin L THEN {Nil} ELSE (IF n \in Groups THEN GroupFuncs ELSE SynthFuncs) \cup Ending

LEMMA FuncKinds ==
  /\ GroupFuncs \cap SynthFuncs = {} /\ Ending \cap (GroupFuncs \cup SynthFuncs) = {}
  /\ CtorFuncs \cap Running = {} /\ SynthFuncs = CtorFuncs \cup Running
  /\ CalcFuncs = GroupFuncs \cup SynthFuncs \cup Ending
  BY DEF GroupFuncs, SynthFuncs, CtorFuncs, Running, Ending, CalcFuncs

LEMMA SeenAfter ==
  ASSUME NEW t, NEW V, Seen(t, V), NEW c, c = Root \/ t.mParent[c] \in V
  PROVE  Seen(t, V \cup {c})
  BY DEF Seen

LEMMA SeenStays ==
  ASSUME NEW t, NEW V, Seen(t, V), NEW u, u.live \subseteq t.live,
         \A x \in u.live : u.mParent[x] = t.mParent[x]
  PROVE  Seen(u, V)
  BY DEF Seen

(* What a call does to the tree it is made in.                             *)
Carried(t, V, u, st) ==
    /\ KeptTree(u) /\ u.live \subseteq t.live
    /\ \A x \in u.live : u.mParent[x] = t.mParent[x]
    /\ FramesOK(u, V, st)

(* The frames when the innermost group has taken its next child; none of   *)
(* them is below the node c that it calls, and none is in a list with c.   *)
GoneOn(t, st) == Append(Outer(st), [Inmost(st) EXCEPT !.child = t.mNext[Inmost(st).child]])
Beside(t, c, b) ==
    \A i \in 1 .. Len(b) :
        /\ b[i].node \notin Below(t, c)
        /\ \/ t.mParent[c] # b[i].node
           \/ b[i].child = t.mNext[c] /\ b[i].calc \in GroupFuncs
SameCalls(b, st) ==
    /\ Len(b) = Len(st)
    /\ \A i \in 1 .. Len(st) : b[i].node = st[i].node /\ b[i].calc = st[i].calc

LEMMA VisitFrames ==
  ASSUME NEW t, KeptTree(t), NEW V, NEW st, FramesOK(t, V, st), st # <<>>,
         Inmost(st).calc \in GroupFuncs, Inmost(st).child # Nil,
         NEW c, c = Inmost(st).child,
         NEW b, b = GoneOn(t, st)
  PROVE  /\ c \in t.live /\ c # Root /\ c \notin V /\ t.mParent[c] \in V
         /\ b # <<>> /\ t.mParent[c] = Inmost(b).node
         /\ FramesOK(t, V \cup {c}, b) /\ Beside(t, c, b) /\ SameCalls(b, st)
  <1>1. PICK fr, o, n : fr = Inmost(st) /\ o = Outer(st) /\ n = t.mNext[c]
    OBVIOUS
  <1>2. PICK fr2 : fr2 = [fr EXCEPT !.child = n]
    OBVIOUS
  <1>3. /\ FramesOK(t, V, o) /\ FrameOK(t, V, fr)
        /\ o # <<>> => t.mParent[fr.node] = Inmost(o).node
        /\ o = <<>> => fr.node = Root
    BY <1>1, Popped
  <1>4. /\ GoodTree(t) /\ t \in TreeType /\ st \in Seq(FrameType)
        /\ c \in Node /\ fr.node \in Node /\ fr.node # Nil /\ t.mParent[c] = fr.node
        /\ fr \in FrameType /\ t.mParent[Root] = Nil
    BY <1>1, <1>3, FrameFacts, Types DEF KeptTree, GoodTree, FramesOK, Chained, FrameOK
  <1>5. /\ c \in t.live /\ c # Root /\ c \notin V /\ t.mParent[c] \in V
    BY <1>1, <1>3, <1>4 DEF GoodTree, WellLinked, FreedIsUnlinked, FrameOK, Progress
  <1>6. FrameOK(t, V \cup {c}, fr2)
    BY <1>1, <1>2, <1>3, <1>4, FrameNext
  <1>7. fr2.node = fr.node /\ fr2.calc = fr.calc /\ fr2.child = n
    BY <1>2, <1>4 DEF FrameType
  <1>8. /\ o \in Seq(FrameType) /\ Len(o) = Len(st) - 1 /\ Len(st) \in Nat
        /\ \A i \in 1 .. Len(o) : o[i] = st[i]
    BY <1>1, <1>4, OuterFacts
  <1>9. /\ b # <<>> /\ Len(b) = Len(st) /\ b[Len(st)] = fr2
        /\ \A i \in 1 .. Len(b) : i \in 1 .. Len(o) \/ i = Len(st)
        /\ \A i \in 1 .. Len(o) : b[i] = o[i] /\ i \in 1 .. Len(st) /\ i \in 1 .. Len(st) - 1
    <2>1. fr2 \in FrameType
      BY <1>6 DEF FrameOK
    <2>2. b = Append(o, fr2)
      BY <1>1, <1>2 DEF GoneOn
    <2>3. /\ b # <<>> /\ Len(b) = Len(o) + 1 /\ b[Len(o) + 1] = fr2
          /\ \A i \in 1 .. Len(o) : b[i] = o[i]
      <3>1. /\ Append(o, fr2) # <<>> /\ Len(Append(o, fr2)) = Len(o) + 1
            /\ Append(o, fr2)[Len(o) + 1] = fr2
            /\ \A i \in 1 .. Len(o) : Append(o, fr2)[i] = o[i]
        BY <1>8, <2>1, AppendFacts
      <3> QED BY <2>2, <3>1
    <2> QED BY <1>8, <2>3
  <1>10. FramesOK(t, V \cup {c}, o)
    <2>1. ASSUME NEW i \in 1 .. Len(o) PROVE FrameOK(t, V \cup {c}, o[i])
      <3>1. st[i].node # fr.node
        BY <1>1, <1>9, Apart
      <3> QED BY <1>3, <1>4, <1>8, <3>1, FrameVisited DEF FramesOK
    <2> QED BY <1>3, <2>1 DEF FramesOK
  <1>11. FramesOK(t, V \cup {c}, b)
    <2>1. b = Append(o, fr2)
      BY <1>1, <1>2 DEF GoneOn
    <2> QED BY <1>3, <1>6, <1>7, <1>10, <2>1, Pushed
  <1>12. ASSUME NEW i \in 1 .. Len(b)
         PROVE  /\ b[i].node \notin Below(t, c)
                /\ t.mParent[c] # b[i].node \/ (b[i].child = n /\ b[i].calc \in GroupFuncs)
                /\ b[i].node = st[i].node /\ b[i].calc = st[i].calc
                /\ i \in 1 .. Len(st)
    <2>1. st[i].node \notin Below(t, c) /\ i \in 1 .. Len(st)
      BY <1>1, <1>4, <1>5, <1>9, NoneBelow
    <2>2. CASE i \in 1 .. Len(o)
      <3>1. b[i] = st[i] /\ st[i].node # fr.node
        BY <1>1, <1>8, <1>9, <2>2, Apart
      <3> QED BY <1>4, <2>1, <3>1
    <2>3. CASE i = Len(st)
      <3>1. b[i] = fr2 /\ st[i] = fr
        BY <1>1, <1>9, <2>3 DEF Inmost
      <3>2. fr2.node = st[i].node /\ fr2.calc = st[i].calc /\ fr2.child = n
        BY <1>7, <3>1
      <3>3. fr2.calc \in GroupFuncs
        BY <1>1, <1>7
      <3> QED BY <2>1, <3>1, <3>2, <3>3
    <2> QED BY <1>9, <2>2, <2>3
  <1>13. t.mParent[c] = Inmost(b).node
    BY <1>4, <1>7, <1>9 DEF Inmost
  <1>14. Beside(t, c, b) /\ SameCalls(b, st)
    BY <1>1, <1>9, <1>12 DEF Beside, SameCalls
  <1> QED BY <1>5, <1>9, <1>11, <1>13, <1>14

LEMMA CallKept ==
  ASSUME KeptTree(tree), Seen(tree, visited), visited \subseteq Node,
         NEW c \in tree.live, NEW f \in FuncOf(c, tree.live), c \notin visited,
         c = Root \/ tree.mParent[c] \in visited,
         NEW b, FramesOK(tree, visited \cup {c}, b),
         b = <<>> => c = Root,
         b # <<>> => c # Root /\ tree.mParent[c] = Inmost(b).node,
         Beside(tree, c, b),
         NEW calc, Call(c, f, b, calc)
  PROVE  /\ KeptTree(tree') /\ tree'.live \subseteq tree.live /\ StackInv'
         /\ stack' # b => stack' = Append(b, Frame(c, f, IF c \in Groups THEN tree.mHead[c] ELSE Nil))
  <1> DEFINE W == visited \cup {c}
             top == Frame(c, f, IF c \in Groups THEN tree.mHead[c] ELSE Nil)
  <1>1. /\ GoodTree(tree) /\ tree \in TreeType /\ c \in Node /\ c # Nil
        /\ Groups \cap Synths = {} /\ Node = Groups \cup Synths
    BY KindAssumption, Types DEF KeptTree, GoodTree, Node
  <1>2. \A m \in Members(tree, c) : m \notin W
    <2> TAKE m \in Members(tree, c)
    <2>1. m \in tree.live /\ tree.mParent[m] = c /\ tree.mParent[Root] = Nil
      BY <1>1 DEF Members, GoodTree
    <2>2. m # Root
      BY <1>1, <2>1
    <2>3. m # c
      BY <1>1, <2>1, <2>2, ParentNotBelow, BelowFacts DEF KeptTree, GoodTree
    <2> QED BY <2>1, <2>2, <2>3 DEF Seen
  <1>3. Seen(tree, W)
    BY SeenAfter
  <1>4. ASSUME f = "Node_NullCalc"
        PROVE  /\ Carried(tree, W, tree', stack')
               /\ stack' # b => stack' = Append(b, top)
    <2>1. tree' = tree /\ stack' = b
      BY <1>4, FuncKinds DEF Call, Ending
    <2>2. Carried(tree, W, tree, b)
      BY DEF Carried
    <2> QED BY <2>1, <2>2
  <1>5. ASSUME f = "Node_Delete"
        PROVE  /\ Carried(tree, W, tree', stack')
               /\ stack' # b => stack' = Append(b, top)
    <2>1. tree' = Node_Delete(tree, c) /\ stack' = b
      BY <1>5, FuncKinds DEF Call, Ending
    <2>2. CASE b = <<>>
      <3>1. tree' = tree
        BY <2>1, <2>2 DEF Node_Delete
      <3>2. Carried(tree, W, tree, b)
        BY DEF Carried
      <3> QED BY <2>1, <3>1, <3>2
    <2>3. CASE b # <<>>
      <3>1. PICK u : u = tree'
        OBVIOUS
      <3>2. KeptTree(u) /\ Cut(tree, u, c, Below(tree, c))
        BY <2>1, <2>3, <3>1, DeleteKept, DeleteCuts
      <3>3. FramesOK(u, W, b)
        BY <3>2, FramesCut DEF Beside
      <3>4. Carried(tree, W, u, b)
        BY <3>2, <3>3 DEF Cut, Carried
      <3> QED BY <2>1, <3>1, <3>4
    <2> QED BY <2>2, <2>3
  <1>6. ASSUME f \in SynthFuncs
        PROVE  /\ Carried(tree, W, tree', stack')
               /\ stack' # b => stack' = Append(b, top)
    <2>1. c \in Synths /\ c \notin Groups
      BY <1>1, <1>6, FuncKinds DEF FuncOf
    <2>2. f # "Node_NullCalc" /\ f # "Node_Delete"
      BY <1>6, FuncKinds DEF Ending
    <2>3. tree' = tree /\ stack' = Append(b, Frame(c, f, Nil))
      BY <1>6, <2>2, FuncKinds DEF Call
    <2>4. FrameOK(tree, W, Frame(c, f, Nil)) /\ Frame(c, f, Nil).node = c
      BY <1>1, <1>6, <2>1, FrameOfSynth DEF Frame
    <2>5. FramesOK(tree, W, Append(b, Frame(c, f, Nil)))
      BY <2>4, Pushed
    <2>6. Carried(tree, W, tree, Append(b, Frame(c, f, Nil)))
      BY <2>5 DEF Carried
    <2> QED BY <2>1, <2>3, <2>6
  <1>7. ASSUME f \in GroupFuncs
        PROVE  /\ Carried(tree, W, tree', stack')
               /\ stack' # b => stack' = Append(b, top)
    <2>1. c \in Groups
      BY <1>1, <1>7, FuncKinds DEF FuncOf
    <2>2. f # "Node_NullCalc" /\ f # "Node_Delete" /\ f \notin SynthFuncs
      BY <1>7, FuncKinds DEF Ending
    <2>3. tree' = tree /\ stack' = Append(b, Frame(c, f, tree.mHead[c]))
      BY <1>7, <2>2, FuncKinds DEF Call
    <2>4. FrameOK(tree, W, Frame(c, f, tree.mHead[c])) /\ Frame(c, f, tree.mHead[c]).node = c
      BY <1>1, <1>2, <1>7, <2>1, FrameEntered DEF Frame
    <2>5. FramesOK(tree, W, Append(b, Frame(c, f, tree.mHead[c])))
      BY <2>4, Pushed
    <2>6. Carried(tree, W, tree, Append(b, Frame(c, f, tree.mHead[c])))
      BY <2>5 DEF Carried
    <2> QED BY <2>1, <2>3, <2>6
  <1>8. f = "Node_NullCalc" \/ f = "Node_Delete" \/ f \in SynthFuncs \/ f \in GroupFuncs
    BY DEF FuncOf, Ending
  <1>9. /\ Carried(tree, W, tree', stack')
        /\ stack' # b => stack' = Append(b, top)
    BY <1>4, <1>5, <1>6, <1>7, <1>8
  <1>10. Seen(tree', W)
    BY <1>3, <1>9, SeenStays DEF Carried
  <1>11. visited' = IF stack' = <<>> THEN {} ELSE W
    BY DEF Call
  <1>12. StackInv'
    <2>1. CASE stack' = <<>>
      <3>1. FramesOK(tree', {}, <<>>)
        BY DEF FramesOK, Chained
      <3>2. Seen(tree', {})
        BY DEF Seen
      <3> QED BY <1>11, <2>1, <3>1, <3>2 DEF StackInv
    <2>2. CASE stack' # <<>>
      BY <1>1, <1>9, <1>10, <1>11, <2>2 DEF StackInv, Carried
    <2> QED BY <2>1, <2>2
  <1> QED BY <1>9, <1>12 DEF Carried

-----------------------------------------------------------------------------
(* The calc functions: of the kind of their node; the constructors are not *)
(* entered again once they ran, and the units run before only when clients *)
(* pause synths.                                                           *)
FuncsOK(calc, L, B, p) ==
    /\ \A n \in L : /\ calc[n] \in FuncOf(n, L)
                    /\ n \in Synths /\ calc[n] \in Running => n \in B \/ p
    /\ \A s \in B : calc[s] \notin CtorFuncs
    /\ B \subseteq Synths \cap L
OffIsNil(calc, L) == calc \in [Node -> CalcFuncs \cup {Nil}] /\ \A n \in Node \ L : calc[n] = Nil
StackBuilt(st, B, p) == \A i \in 1 .. Len(st) : st[i].calc \in Running => st[i].node \in B \/ p

FuncInv ==
    /\ FuncsOK(mCalcFunc, tree.live, built, session.pausing)
    /\ OffIsNil(mCalcFunc, tree.live)
    /\ StackBuilt(stack, built, session.pausing)

CInv == msg = Idle /\ KeptTree(tree) /\ StackInv /\ FuncInv

LEMMA CarryKept ==
  ASSUME tree.live \subseteq Node, tree'.live \subseteq Node,
         NEW calc, NEW p, FuncsOK(calc, tree.live, built, p), CarryOver(calc)
  PROVE  FuncsOK(mCalcFunc', tree'.live, built', p) /\ OffIsNil(mCalcFunc', tree'.live)
  <1>1. PICK L, M, B, f, b : /\ L = tree.live /\ M = tree'.live /\ B = built /\ f = mCalcFunc'
                             /\ b = built'
    OBVIOUS
  <1>2. /\ L \subseteq Node /\ M \subseteq Node /\ b = B \cap M
        /\ FuncsOK(calc, L, B, p)
        /\ f = [n \in Node |-> IF n \notin M THEN Nil ELSE IF n \notin L THEN FirstFunc(n)
                               ELSE calc[n]]
    BY <1>1 DEF CarryOver
  <1>3. ASSUME NEW n \in Node
        PROVE  FirstFunc(n) \in (IF n \in Groups THEN GroupFuncs ELSE SynthFuncs) /\
               FirstFunc(n) \notin Running
    BY DEF FirstFunc, GroupFuncs, SynthFuncs, CtorFuncs, Running
  <1>4. \A n \in M : /\ f[n] \in FuncOf(n, M)
                     /\ n \in Synths /\ f[n] \in Running => n \in b \/ p
    BY <1>2, <1>3 DEF FuncsOK, FuncOf
  <1>5. \A s \in b : f[s] \notin CtorFuncs
    BY <1>2 DEF FuncsOK
  <1>6. b \subseteq Synths \cap M
    BY <1>2 DEF FuncsOK
  <1>7. ASSUME NEW n \in Node PROVE f[n] \in CalcFuncs \cup {Nil}
    <2>1. n \in M => f[n] \in GroupFuncs \cup SynthFuncs \cup Ending
      BY <1>4 DEF FuncOf
    <2> QED BY <1>2, <2>1, FuncKinds
  <1>8. OffIsNil(f, M)
    BY <1>2, <1>7 DEF OffIsNil
  <1> QED BY <1>1, <1>4, <1>5, <1>6, <1>8 DEF FuncsOK

LEMMA FuncSet ==
  ASSUME NEW calc, NEW L \in SUBSET Node, NEW B, NEW p, FuncsOK(calc, L, B, p), OffIsNil(calc, L),
         NEW n \in L, NEW v \in FuncOf(n, L), NEW C, B \subseteq C, C \subseteq B \cup {n},
         C \subseteq Synths,
         n \in C => v \notin CtorFuncs,
         n \in Synths /\ v \in Running => n \in C \/ p
  PROVE  FuncsOK([calc EXCEPT ![n] = v], L, C, p) /\ OffIsNil([calc EXCEPT ![n] = v], L)
  <1>1. PICK f : f = [calc EXCEPT ![n] = v]
    OBVIOUS
  <1>2. calc \in [Node -> CalcFuncs \cup {Nil}] /\ v \in CalcFuncs
    BY FuncKinds DEF OffIsNil, FuncOf
  <1>3. \A m \in Node : f[m] = IF m = n THEN v ELSE calc[m]
    BY <1>1, <1>2
  <1>4. OffIsNil(f, L)
    BY <1>1, <1>2, <1>3 DEF OffIsNil
  <1>5. FuncsOK(f, L, C, p)
    BY <1>3 DEF FuncsOK
  <1> QED BY <1>1, <1>4, <1>5

LEMMA FuncRunning ==
  ASSUME NEW calc, NEW L, NEW B, NEW p, FuncsOK(calc, L, B, p), NEW n \in L, calc[n] \in Running
  PROVE  n \in B \/ p \/ n \notin Synths
  BY DEF FuncsOK

(* What is built stays built while its frame is there.                     *)
LEMMA StackBuiltStays ==
  ASSUME StackInv', built' = built \cap tree'.live, NEW p, StackBuilt(stack', built, p)
  PROVE  StackBuilt(stack', built', p)
  BY DEF StackInv, FramesOK, FrameOK, StackBuilt

LEMMA StackBuiltCall ==
  ASSUME NEW S, NEW b \in Seq(S), NEW B, NEW p, StackBuilt(b, B, p), NEW fr \in S,
         fr.calc \in Running => fr.node \in B \/ p
  PROVE  StackBuilt(Append(b, fr), B, p)
  <1>1. PICK w : w = Append(b, fr)
    OBVIOUS
  <1>2. Len(w) = Len(b) + 1 /\ w[Len(b) + 1] = fr /\ \A i \in 1 .. Len(b) : w[i] = b[i]
    BY <1>1, AppendFacts
  <1>3. \A i \in 1 .. Len(w) : i \in 1 .. Len(b) \/ i = Len(b) + 1
    BY <1>2
  <1>4. StackBuilt(w, B, p)
    BY <1>2, <1>3 DEF StackBuilt
  <1> QED BY <1>1, <1>4

-----------------------------------------------------------------------------
(* The steps of a traversal.                                               *)
LEMMA CalledKept ==
  ASSUME CInv, NEW c \in tree.live, NEW f \in FuncOf(c, tree.live), c \notin visited,
         c = Root \/ tree.mParent[c] \in visited,
         mCalcFunc[c] \in Running \/ f \notin Running,
         NEW b, FramesOK(tree, visited \cup {c}, b), StackBuilt(b, built, session.pausing),
         b = <<>> => c = Root,
         b # <<>> => c # Root /\ tree.mParent[c] = Inmost(b).node,
         Beside(tree, c, b),
         NEW calc, FuncsOK(calc, tree.live, built, session.pausing),
         Call(c, f, b, calc), UNCHANGED session
  PROVE  CInv'
  <1> DEFINE top == Frame(c, f, IF c \in Groups THEN tree.mHead[c] ELSE Nil)
  <1>1. /\ Seen(tree, visited) /\ visited \subseteq Node /\ KeptTree(tree) /\ msg = Idle
        /\ tree.live \subseteq Node
        /\ FuncsOK(mCalcFunc, tree.live, built, session.pausing)
    BY Types DEF CInv, StackInv, KeptTree, GoodTree, FuncInv
  <1>2. /\ KeptTree(tree') /\ tree'.live \subseteq tree.live /\ StackInv'
        /\ stack' # b => stack' = Append(b, top)
    BY <1>1, CallKept
  <1>3. CarryOver(calc) /\ msg' = msg
    BY DEF Call
  <1>4. FuncsOK(mCalcFunc', tree'.live, built', session.pausing) /\ OffIsNil(mCalcFunc', tree'.live)
    BY <1>1, <1>2, <1>3, CarryKept
  <1>5. StackBuilt(stack', built, session.pausing)
    <2>1. CASE stack' = b
      BY <2>1
    <2>2. CASE stack' # b
      <3>1. top.calc = f /\ top.node = c /\ stack' = Append(b, top)
        BY <1>2, <2>2 DEF Frame
      <3>2. f \in Running => c \in built \/ session.pausing
        <4>1. f \in Running => c \in Synths
          BY <1>1, FuncKinds DEF FuncOf, Node
        <4> QED BY <1>1, <4>1 DEF FuncsOK
      <3>3. b \in Seq(FrameType \cup {top})
        <4>1. b \in Seq(FrameType)
          BY DEF FramesOK, Chained
        <4> QED BY <4>1
      <3> HIDE DEF top
      <3>4. StackBuilt(Append(b, top), built, session.pausing)
        BY <3>1, <3>2, <3>3, StackBuiltCall
      <3> QED BY <3>1, <3>4
    <2> QED BY <2>1, <2>2
  <1>6. StackBuilt(stack', built', session.pausing)
    BY <1>2, <1>3, <1>5, StackBuiltStays DEF CarryOver
  <1> QED BY <1>1, <1>2, <1>3, <1>4, <1>6 DEF CInv, FuncInv

LEMMA WorldRunKept ==
  ASSUME CInv, WorldRun, UNCHANGED session
  PROVE  CInv'
  <1>1. /\ Root \in tree.live /\ visited = {}
        /\ FuncsOK(mCalcFunc, tree.live, built, session.pausing)
        /\ Call(Root, mCalcFunc[Root], <<>>, mCalcFunc)
    BY DEF CInv, KeptTree, GoodTree, FuncInv, StackInv, WorldRun
  <1>2. mCalcFunc[Root] \in FuncOf(Root, tree.live)
    BY <1>1 DEF FuncsOK
  <1>3. mCalcFunc[Root] \notin Running
    BY <1>1, <1>2, RootAssumption, FuncKinds DEF FuncOf
  <1>4. /\ FramesOK(tree, visited \cup {Root}, <<>>) /\ StackBuilt(<<>>, built, session.pausing)
        /\ Beside(tree, Root, <<>>)
    BY DEF FramesOK, Chained, StackBuilt, Beside
  <1> QED BY <1>1, <1>2, <1>3, <1>4, CalledKept

LEMMA VisitChildKept ==
  ASSUME CInv, VisitChild, UNCHANGED session
  PROVE  CInv'
  <1>1. PICK c : c = Inmost(stack).child
    OBVIOUS
  <1>2. PICK b : b = GoneOn(tree, stack)
    OBVIOUS
  <1>3. PICK f : f = IF Top.calc = "Group_CalcDumpTree" /\ mCalcFunc[c] = "Group_Calc"
                     THEN "Group_CalcDumpTree" ELSE mCalcFunc[c]
    OBVIOUS
  <1>4. PICK calc : calc = [mCalcFunc EXCEPT ![c] = f]
    OBVIOUS
  <1>5. /\ stack # <<>> /\ Inmost(stack).calc \in GroupFuncs /\ Inmost(stack).child # Nil
        /\ Call(c, f, b, calc)
    BY <1>1, <1>2, <1>3, <1>4 DEF VisitChild, Top, Caller, Outer, Inmost, GoneOn
  <1>6. /\ KeptTree(tree) /\ FramesOK(tree, visited, stack) /\ tree.live \in SUBSET Node
        /\ FuncsOK(mCalcFunc, tree.live, built, session.pausing)
        /\ OffIsNil(mCalcFunc, tree.live)
        /\ StackBuilt(stack, built, session.pausing)
    BY Types DEF CInv, StackInv, FuncInv, KeptTree, GoodTree
  <1>7. /\ c \in tree.live /\ c # Root /\ c \notin visited /\ tree.mParent[c] \in visited
        /\ b # <<>> /\ tree.mParent[c] = Inmost(b).node
        /\ FramesOK(tree, visited \cup {c}, b) /\ Beside(tree, c, b) /\ SameCalls(b, stack)
    BY SMTT(40), <1>1, <1>2, <1>5, <1>6, VisitFrames
  <1>8. StackBuilt(b, built, session.pausing)
    BY <1>6, <1>7 DEF StackBuilt, SameCalls
  <1>9. /\ mCalcFunc[c] \in FuncOf(c, tree.live)
        /\ c \in built => mCalcFunc[c] \notin CtorFuncs
        /\ c \in Synths /\ mCalcFunc[c] \in Running => c \in built \/ session.pausing
        /\ built \subseteq Synths
    BY <1>6, <1>7 DEF FuncsOK
  <1>10. /\ f \in FuncOf(c, tree.live)
         /\ f # mCalcFunc[c] => f \in GroupFuncs
    BY <1>3, <1>7, <1>9, FuncKinds DEF FuncOf, GroupFuncs, SynthFuncs, CtorFuncs, Ending
  <1>11. mCalcFunc[c] \in Running \/ f \notin Running
    BY <1>10, FuncKinds
  <1>12. FuncsOK(calc, tree.live, built, session.pausing)
    <2>1. c \in built => f \notin CtorFuncs
      BY <1>9, <1>10, FuncKinds
    <2>2. c \in Synths /\ f \in Running => c \in built \/ session.pausing
      BY <1>9, <1>11
    <2> QED BY <1>4, <1>6, <1>7, <1>9, <1>10, <2>1, <2>2, FuncSet
  <1> QED BY <1>5, <1>7, <1>8, <1>10, <1>11, <1>12, CalledKept

LEMMA TopFacts ==
  ASSUME CInv, stack # <<>>, NEW fr, fr = Inmost(stack)
  PROVE  /\ KeptTree(tree) /\ tree.live \subseteq Node /\ msg = Idle
         /\ FramesOK(tree, visited, stack) /\ Seen(tree, visited) /\ visited \subseteq Node
         /\ FuncsOK(mCalcFunc, tree.live, built, session.pausing)
         /\ OffIsNil(mCalcFunc, tree.live)
         /\ StackBuilt(stack, built, session.pausing)
         /\ built \subseteq Synths
         /\ fr \in FrameType /\ fr.node \in tree.live
         /\ fr.calc \in GroupFuncs => fr.node \in Groups
         /\ fr.calc \in SynthFuncs => fr.node \in Synths /\ fr.node # Root
         /\ fr.calc \in Running => fr.node \in built \/ session.pausing
  <1>1. /\ KeptTree(tree) /\ tree.live \subseteq Node /\ msg = Idle
        /\ FramesOK(tree, visited, stack) /\ Seen(tree, visited) /\ visited \subseteq Node
        /\ FuncsOK(mCalcFunc, tree.live, built, session.pausing)
        /\ OffIsNil(mCalcFunc, tree.live)
        /\ StackBuilt(stack, built, session.pausing)
    BY Types DEF CInv, StackInv, FuncInv, KeptTree, GoodTree
  <1>2. FrameOK(tree, visited, fr)
    BY <1>1, Popped
  <1>3. /\ fr \in FrameType /\ fr.node \in tree.live
        /\ fr.calc \in GroupFuncs => fr.node \in Groups
        /\ fr.calc \in SynthFuncs => fr.node \in Synths
    BY <1>2 DEF FrameOK
  <1>4. stack \in Seq(FrameType)
    BY <1>1 DEF FramesOK, Chained
  <1>5. Len(stack) \in 1 .. Len(stack)
    BY <1>4, OuterFacts
  <1>6. fr.calc \in Running => fr.node \in built \/ session.pausing
    BY <1>1, <1>5 DEF StackBuilt, Inmost
  <1>7. built \subseteq Synths
    BY <1>1 DEF FuncsOK
  <1>8. Root \notin Synths
    BY RootAssumption, KindAssumption
  <1> QED BY <1>1, <1>3, <1>6, <1>7, <1>8

LEMMA ReturnKept ==
  ASSUME CInv, stack # <<>>, UNCHANGED <<tree, msg, session>>, stack' = Outer(stack),
         visited' = (IF Outer(stack) = <<>> THEN {} ELSE visited),
         built \subseteq built',
         FuncsOK(mCalcFunc', tree.live, built', session.pausing),
         OffIsNil(mCalcFunc', tree.live)
  PROVE  CInv'
  <1>1. /\ KeptTree(tree) /\ msg = Idle
        /\ FramesOK(tree, visited, stack) /\ Seen(tree, visited) /\ visited \subseteq Node
        /\ StackBuilt(stack, built, session.pausing)
    BY TopFacts
  <1>2. FramesOK(tree, visited, Outer(stack)) /\ stack \in Seq(FrameType)
    <2>1. FramesOK(tree, visited, Outer(stack))
      BY <1>1, Popped
    <2> QED BY <1>1, <2>1 DEF FramesOK, Chained
  <1>3. /\ Len(Outer(stack)) = Len(stack) - 1 /\ Len(stack) \in Nat
        /\ \A i \in 1 .. Len(stack) - 1 : Outer(stack)[i] = stack[i]
    BY <1>2, OuterFacts
  <1>4. \A i \in 1 .. Len(Outer(stack)) : i \in 1 .. Len(stack) /\ Outer(stack)[i] = stack[i]
    BY <1>3
  <1>5. StackBuilt(Outer(stack), built', session.pausing)
    BY <1>1, <1>4 DEF StackBuilt
  <1>6. FramesOK(tree, {}, <<>>) /\ Seen(tree, {})
    BY DEF FramesOK, Chained, Seen
  <1>7. StackInv'
    <2>1. CASE Outer(stack) = <<>>
      BY <1>6, <2>1 DEF StackInv
    <2>2. CASE Outer(stack) # <<>>
      BY <1>1, <1>2, <2>2 DEF StackInv
    <2> QED BY <2>1, <2>2
  <1> QED BY <1>1, <1>5, <1>7 DEF CInv, FuncInv

LEMMA GroupReturnKept ==
  ASSUME CInv, GroupReturn, UNCHANGED session
  PROVE  CInv'
  <1>1. PICK fr : fr = Inmost(stack)
    OBVIOUS
  <1>2. /\ stack # <<>> /\ fr.calc \in GroupFuncs
        /\ mCalcFunc' = IF fr.calc = "Group_Calc" THEN mCalcFunc
                        ELSE [mCalcFunc EXCEPT ![fr.node] = "Group_Calc"]
        /\ stack' = Outer(stack)
        /\ visited' = IF Outer(stack) = <<>> THEN {} ELSE visited
        /\ UNCHANGED <<tree, msg, built>>
    BY <1>1 DEF GroupReturn, Top, Caller, Inmost, Outer
  <1>3. /\ tree.live \in SUBSET Node /\ fr.node \in tree.live /\ fr.node \in Groups
        /\ fr.node \notin Synths
        /\ FuncsOK(mCalcFunc, tree.live, built, session.pausing)
        /\ OffIsNil(mCalcFunc, tree.live) /\ built \subseteq Synths
    BY <1>1, <1>2, TopFacts, KindAssumption
  <1>4. "Group_Calc" \in FuncOf(fr.node, tree.live)
    BY <1>3 DEF FuncOf, GroupFuncs
  <1>5. /\ FuncsOK(mCalcFunc', tree.live, built', session.pausing)
        /\ OffIsNil(mCalcFunc', tree.live)
    <2>1. CASE fr.calc = "Group_Calc"
      BY <1>2, <1>3, <2>1
    <2>2. CASE fr.calc # "Group_Calc"
      BY <1>2, <1>3, <1>4, <2>2, FuncSet
    <2> QED BY <2>1, <2>2
  <1> QED BY <1>2, <1>5, ReturnKept

(* A synth is called by a group, so its frame is never the only one.       *)
LEMMA SynthIsCalled ==
  ASSUME CInv, stack # <<>>, Inmost(stack).calc \in SynthFuncs
  PROVE  Outer(stack) # <<>>
  <1>1. PICK fr : fr = Inmost(stack)
    OBVIOUS
  <1>2. FramesOK(tree, visited, stack) /\ fr.node # Root
    BY <1>1, TopFacts
  <1>3. Outer(stack) = <<>> => fr.node = Root
    BY <1>1, <1>2, Popped
  <1> QED BY <1>2, <1>3

LEMMA GraphReturnKept ==
  ASSUME CInv, GraphReturn, UNCHANGED session
  PROVE  CInv'
  <1>1. PICK fr : fr = Inmost(stack)
    OBVIOUS
  <1>2. /\ stack # <<>> /\ fr.calc \in Running
        /\ mCalcFunc' = IF fr.calc = "Graph_Calc" THEN mCalcFunc
                        ELSE [mCalcFunc EXCEPT ![fr.node] = "Graph_Calc"]
        /\ stack' = Outer(stack)
        /\ UNCHANGED <<tree, msg, built, visited>>
    BY <1>1 DEF GraphReturn, Top, Caller, Inmost, Outer, Running
  <1>3. fr.calc \in SynthFuncs
    BY <1>2, FuncKinds
  <1>4. /\ tree.live \in SUBSET Node /\ fr.node \in tree.live /\ fr.node \in Synths
        /\ fr.node \notin Groups
        /\ fr.node \in built \/ session.pausing
        /\ FuncsOK(mCalcFunc, tree.live, built, session.pausing)
        /\ OffIsNil(mCalcFunc, tree.live) /\ built \subseteq Synths
    BY <1>1, <1>2, <1>3, TopFacts, KindAssumption
  <1>5. /\ "Graph_Calc" \in FuncOf(fr.node, tree.live)
        /\ "Graph_Calc" \notin CtorFuncs
    BY <1>4 DEF FuncOf, SynthFuncs, CtorFuncs
  <1>6. /\ FuncsOK(mCalcFunc', tree.live, built', session.pausing)
        /\ OffIsNil(mCalcFunc', tree.live)
    <2>1. CASE fr.calc = "Graph_Calc"
      BY <1>2, <1>4, <2>1
    <2>2. CASE fr.calc # "Graph_Calc"
      <3>1. built \subseteq built /\ built \subseteq built \cup {fr.node}
        OBVIOUS
      <3>2. /\ FuncsOK([mCalcFunc EXCEPT ![fr.node] = "Graph_Calc"], tree.live, built,
                      session.pausing)
            /\ OffIsNil([mCalcFunc EXCEPT ![fr.node] = "Graph_Calc"], tree.live)
        BY <1>4, <1>5, <3>1, FuncSet
      <3> QED BY <1>2, <2>2, <3>2
    <2> QED BY <2>1, <2>2
  <1> QED BY <1>1, <1>2, <1>3, <1>6, ReturnKept, SynthIsCalled

LEMMA NullFirstCalcKept ==
  ASSUME CInv, NullFirstCalcConstructed, UNCHANGED session
  PROVE  CInv'
  <1>1. PICK fr : fr = Inmost(stack)
    OBVIOUS
  <1>2. /\ stack # <<>> /\ fr.calc = "Graph_NullFirstCalc"
        /\ built' = built \cup {fr.node}
        /\ mCalcFunc' = [mCalcFunc EXCEPT ![fr.node] = "Node_NullCalc"]
        /\ stack' = Outer(stack)
        /\ UNCHANGED <<tree, msg, visited>>
    BY <1>1 DEF NullFirstCalcConstructed, Top, Caller, Inmost, Outer
  <1>3. fr.calc \in SynthFuncs
    BY <1>2 DEF SynthFuncs, CtorFuncs
  <1>4. /\ tree.live \in SUBSET Node /\ fr.node \in tree.live /\ fr.node \in Synths
        /\ FuncsOK(mCalcFunc, tree.live, built, session.pausing)
        /\ OffIsNil(mCalcFunc, tree.live) /\ built \subseteq Synths
    BY <1>1, <1>2, <1>3, TopFacts
  <1>5. /\ "Node_NullCalc" \in FuncOf(fr.node, tree.live)
        /\ "Node_NullCalc" \notin CtorFuncs /\ "Node_NullCalc" \notin Running
    BY <1>4 DEF FuncOf, CtorFuncs, Running, Ending
  <1>6. /\ FuncsOK(mCalcFunc', tree.live, built', session.pausing)
        /\ OffIsNil(mCalcFunc', tree.live)
    BY <1>2, <1>4, <1>5, FuncSet
  <1> QED BY <1>1, <1>2, <1>3, <1>6, ReturnKept, SynthIsCalled

LEMMA FirstCalcKept ==
  ASSUME CInv, FirstCalcConstructed, UNCHANGED session
  PROVE  CInv'
  <1>1. PICK fr, fr2 : fr = Inmost(stack) /\ fr2 = [fr EXCEPT !.calc = "Graph_Calc"]
    OBVIOUS
  <1>2. /\ stack # <<>> /\ fr.calc = "Graph_FirstCalc"
        /\ built' = built \cup {fr.node}
        /\ mCalcFunc' = [mCalcFunc EXCEPT ![fr.node] = "Graph_Calc"]
        /\ stack' = Append(Outer(stack), fr2)
        /\ UNCHANGED <<tree, msg, visited>>
    BY <1>1 DEF FirstCalcConstructed, Top, Caller, Inmost, Outer
  <1>3. fr.calc \in SynthFuncs /\ fr.calc \notin GroupFuncs
    BY <1>2 DEF SynthFuncs, CtorFuncs, GroupFuncs
  <1>4. /\ tree.live \in SUBSET Node /\ fr.node \in tree.live /\ fr.node \in Synths
        /\ FuncsOK(mCalcFunc, tree.live, built, session.pausing)
        /\ OffIsNil(mCalcFunc, tree.live) /\ built \subseteq Synths
        /\ KeptTree(tree) /\ msg = Idle
        /\ FramesOK(tree, visited, stack) /\ Seen(tree, visited) /\ visited \subseteq Node
        /\ StackBuilt(stack, built, session.pausing)
        /\ fr \in FrameType
    BY <1>1, <1>2, <1>3, TopFacts
  <1>5. /\ "Graph_Calc" \in FuncOf(fr.node, tree.live)
        /\ "Graph_Calc" \notin CtorFuncs /\ "Graph_Calc" \in SynthFuncs
        /\ "Graph_Calc" \notin GroupFuncs
    BY <1>4, KindAssumption DEF FuncOf, CtorFuncs, SynthFuncs, GroupFuncs
  <1>6. /\ FuncsOK(mCalcFunc', tree.live, built', session.pausing)
        /\ OffIsNil(mCalcFunc', tree.live)
    <2>1. PICK C : C = built \cup {fr.node}
      OBVIOUS
    <2>2. built \subseteq C /\ C \subseteq built \cup {fr.node} /\ C \subseteq Synths /\ fr.node \in C
      BY <1>4, <2>1
    <2>3. /\ FuncsOK([mCalcFunc EXCEPT ![fr.node] = "Graph_Calc"], tree.live, C, session.pausing)
          /\ OffIsNil([mCalcFunc EXCEPT ![fr.node] = "Graph_Calc"], tree.live)
      BY <1>4, <1>5, <2>2, FuncSet
    <2> QED BY <1>2, <2>1, <2>3
  <1>7. /\ fr2 \in FrameType /\ fr2.node = fr.node /\ fr2.child = fr.child
        /\ fr2.calc = "Graph_Calc"
    BY <1>1, <1>4, <1>5 DEF FrameType
  <1>8. /\ FramesOK(tree, visited, Outer(stack)) /\ FrameOK(tree, visited, fr)
        /\ Outer(stack) # <<>>
        /\ tree.mParent[fr.node] = Inmost(Outer(stack)).node
    BY <1>1, <1>2, <1>3, <1>4, Popped, SynthIsCalled
  <1>9. FrameOK(tree, visited, fr2)
    BY <1>3, <1>5, <1>7, <1>8 DEF FrameOK
  <1>10. FramesOK(tree, visited, stack')
    BY <1>2, <1>7, <1>8, <1>9, Pushed
  <1>11. stack' # <<>> /\ StackBuilt(stack', built', session.pausing)
    <2>1. stack \in Seq(FrameType) /\ Outer(stack) \in Seq(FrameType)
      BY <1>4, <1>8 DEF FramesOK, Chained
    <2>2. /\ Len(Outer(stack)) = Len(stack) - 1 /\ Len(stack) \in Nat
          /\ \A i \in 1 .. Len(stack) - 1 : Outer(stack)[i] = stack[i]
      BY <1>2, <2>1, OuterFacts
    <2>3. \A i \in 1 .. Len(Outer(stack)) : i \in 1 .. Len(stack) /\ Outer(stack)[i] = stack[i]
      BY <2>2
    <2>4. StackBuilt(Outer(stack), built', session.pausing)
      BY <1>2, <1>4, <2>3 DEF StackBuilt
    <2>5. fr2.node \in built'
      BY <1>2, <1>7
    <2>6. StackBuilt(Append(Outer(stack), fr2), built', session.pausing)
      BY <1>7, <2>1, <2>4, <2>5, StackBuiltCall
    <2>7. Append(Outer(stack), fr2) # <<>>
      BY <1>7, <2>1, AppendFacts
    <2> QED BY <1>2, <2>6, <2>7
  <1>12. StackInv'
    BY <1>2, <1>4, <1>10, <1>11 DEF StackInv
  <1> QED BY <1>2, <1>4, <1>6, <1>11, <1>12 DEF CInv, FuncInv

-----------------------------------------------------------------------------
(* A done action, in the middle of a traversal.  What it frees at once is  *)
(* below a sibling of the synth, where no frame is.                        *)
LEMMA DoneTreeKept ==
  ASSUME CInv, stack # <<>>, Inmost(stack).calc \in SynthFuncs,
         NEW s, s = Inmost(stack).node,
         NEW g \in Groups, g = tree.mPrev[s] \/ g = tree.mNext[s],
         NEW u, u = Group_DeleteAll(tree, g) \/ u = FreeGraphs(tree, g)
  PROVE  Carried(tree, visited, u, stack)
  <1>1. /\ KeptTree(tree) /\ FramesOK(tree, visited, stack)
        /\ s \in tree.live /\ s \in Synths
    BY TopFacts
  <1>2. tree \in TreeType /\ g # Nil /\ g \in Node /\ WellLinked(tree) /\ tree.mParent[Root] = Nil
    BY <1>1, Types DEF KeptTree, GoodTree
  <1>3. g \in tree.live /\ tree.mParent[g] = tree.mParent[s] /\ tree.mParent[s] # Nil
    BY <1>1, <1>2 DEF WellLinked, NextAgrees, PrevAgrees, LooseHasNoSibling
  <1>4. g # Root /\ g # s
    BY <1>1, <1>2, <1>3, KindAssumption
  <1>5. \A i \in 1 .. Len(stack) : stack[i].node \notin Below(tree, g)
    BY <1>1, <1>3, <1>4, NoneBelow
  <1>6. KeptTree(u) /\ Spared(tree, u, Below(tree, g))
    <2>1. CASE u = Group_DeleteAll(tree, g)
      BY <1>1, <1>3, <2>1, DeleteAllKept, DeleteAllSpares
    <2>2. CASE u = FreeGraphs(tree, g)
      BY <1>1, <1>3, <2>2, FreeGraphsSpares
    <2> QED BY <2>1, <2>2
  <1>7. Below(tree, g) \in SUBSET tree.live
    BY <1>2, <1>3, BelowFacts
  <1>8. FramesOK(u, visited, stack)
    BY <1>1, <1>5, <1>6, <1>7, FramesSpared
  <1> QED BY <1>6, <1>8 DEF Carried, Spared

LEMMA PausedKinds ==
  ASSUME NEW L, NEW n \in L, NEW f \in FuncOf(n, L)
  PROVE  /\ Paused(f) \in FuncOf(n, L) /\ Paused(f) \notin Running
         /\ f \notin CtorFuncs => Paused(f) \notin CtorFuncs
  BY DEF FuncOf, Paused, Ending, GroupFuncs, SynthFuncs, CtorFuncs, Running

(* Functions that end or pause some nodes.                                 *)
LEMMA FuncsStopped ==
  ASSUME NEW calc, NEW L \in SUBSET Node, NEW B, NEW p, FuncsOK(calc, L, B, p), NEW E, NEW P,
         NEW h, h = [n \in Node |-> IF n \in E THEN "Node_Delete"
                                    ELSE IF n \in P THEN Paused(calc[n]) ELSE calc[n]]
  PROVE  FuncsOK(h, L, B, p)
  <1>1. \A n \in Node : h[n] = IF n \in E THEN "Node_Delete"
                               ELSE IF n \in P THEN Paused(calc[n]) ELSE calc[n]
    OBVIOUS
  <1>2. "Node_Delete" \notin Running /\ "Node_Delete" \notin CtorFuncs
    BY DEF Running, CtorFuncs
  <1>3. \A n \in L : "Node_Delete" \in FuncOf(n, L)
    BY DEF FuncOf, Ending
  <1>4. \A n \in L : /\ h[n] \in FuncOf(n, L)
                     /\ n \in Synths /\ h[n] \in Running => n \in B \/ p
    BY <1>1, <1>2, <1>3, PausedKinds DEF FuncsOK
  <1>5. \A s \in B : s \in L /\ calc[s] \in FuncOf(s, L) /\ calc[s] \notin CtorFuncs
    BY DEF FuncsOK
  <1>6. \A s \in B : h[s] \notin CtorFuncs
    BY <1>1, <1>2, <1>5, PausedKinds
  <1> QED BY <1>4, <1>6 DEF FuncsOK

LEMMA UnitDoneKept ==
  ASSUME CInv, NEW d \in 1 .. 14, UnitDone(d), UNCHANGED session
  PROVE  CInv'
  <1>1. PICK s : s = Inmost(stack).node
    OBVIOUS
  <1>2. PICK g : g = Neighbour(d, s)
    OBVIOUS
  <1>3. PICK h : h = [n \in Node |-> IF n \in Ended(d, s) THEN "Node_Delete"
                                     ELSE IF n \in PausedBy(d, s) THEN Paused(mCalcFunc[n])
                                     ELSE mCalcFunc[n]]
    OBVIOUS
  <1>4. /\ stack # <<>> /\ Inmost(stack).calc \in SynthFuncs
        /\ DoneAction(d, s)
        /\ UNCHANGED <<msg, stack, visited>>
    BY <1>1 DEF UnitDone, Top, Inmost
  <1>5. /\ tree' = tree \/ (g \in Groups /\ (\/ tree' = Group_DeleteAll(tree, g)
                                             \/ tree' = FreeGraphs(tree, g)))
        /\ CarryOver(h)
    BY <1>2, <1>3, <1>4 DEF DoneAction
  <1>6. g = Nil \/ g = tree.mPrev[s] \/ g = tree.mNext[s]
    BY <1>2 DEF Neighbour
  <1>7. /\ KeptTree(tree) /\ tree.live \in SUBSET Node /\ msg = Idle
        /\ FramesOK(tree, visited, stack) /\ Seen(tree, visited) /\ visited \subseteq Node
        /\ FuncsOK(mCalcFunc, tree.live, built, session.pausing)
        /\ StackBuilt(stack, built, session.pausing)
    BY <1>4, TopFacts
  <1>8. Carried(tree, visited, tree', stack)
    <2>1. CASE tree' = tree
      <3>1. Carried(tree, visited, tree, stack)
        BY <1>7 DEF Carried
      <3> QED BY <2>1, <3>1
    <2>2. CASE g \in Groups /\ (tree' = Group_DeleteAll(tree, g) \/ tree' = FreeGraphs(tree, g))
      <3>1. PICK u : u = tree'
        OBVIOUS
      <3>2. g # Nil
        BY <2>2, NilAssumption
      <3>3. Carried(tree, visited, u, stack)
        BY <1>1, <1>4, <1>6, <2>2, <3>1, <3>2, DoneTreeKept
      <3> QED BY <3>1, <3>3
    <2> QED BY <1>5, <2>1, <2>2
  <1>9. Seen(tree', visited)
    BY <1>7, <1>8, SeenStays DEF Carried
  <1>10. KeptTree(tree') /\ tree'.live \subseteq Node /\ StackInv'
    BY <1>4, <1>7, <1>8, <1>9 DEF Carried, StackInv
  <1>11. FuncsOK(h, tree.live, built, session.pausing)
    BY <1>3, <1>7, FuncsStopped
  <1>12. /\ FuncsOK(mCalcFunc', tree'.live, built', session.pausing)
         /\ OffIsNil(mCalcFunc', tree'.live)
    BY <1>5, <1>7, <1>10, <1>11, CarryKept
  <1>13. StackBuilt(stack', built', session.pausing)
    BY <1>4, <1>5, <1>7, <1>10, StackBuiltStays DEF CarryOver
  <1> QED BY <1>4, <1>7, <1>10, <1>12, <1>13 DEF CInv, FuncInv

-----------------------------------------------------------------------------
(* The commands, between two blocks.                                       *)
LEMMA AtRest ==
  ASSUME CInv, stack = <<>>, UNCHANGED <<stack, visited, session>>, KeptTree(tree'), msg' = Idle,
         FuncsOK(mCalcFunc', tree'.live, built', session.pausing),
         OffIsNil(mCalcFunc', tree'.live)
  PROVE  CInv'
  <1>1. FramesOK(tree', {}, <<>>) /\ Seen(tree', {}) /\ visited = {}
    BY DEF FramesOK, Chained, Seen, CInv, StackInv
  <1>2. StackInv'
    BY <1>1 DEF StackInv
  <1>3. StackBuilt(stack', built', session.pausing)
    BY DEF StackBuilt
  <1> QED BY <1>2, <1>3 DEF CInv, FuncInv

LEMMA EditTreeKept ==
  ASSUME Careful, CInv, EditTree, UNCHANGED session
  PROVE  CInv'
  <1>1. IInv
    BY PairsIs DEF CInv, IInv, KeptTree, GoodTree, TypeOK, MsgKept, Idle
  <1>2. Next /\ msg' = msg
    BY DEF EditTree, Structural, Next, New, NewReplacing, NodeFree, FreeAll, MoveToGroup
  <1>3. KeptTree(tree')
    BY <1>1, <1>2, NextIInv DEF IInv
  <1>4. /\ KeptTree(tree) /\ msg = Idle /\ stack = <<>> /\ CarryOver(mCalcFunc)
        /\ UNCHANGED <<stack, visited>>
        /\ FuncsOK(mCalcFunc, tree.live, built, session.pausing)
    BY DEF CInv, FuncInv, EditTree
  <1>5. tree.live \subseteq Node /\ tree'.live \subseteq Node
    BY <1>3, <1>4, Types DEF KeptTree, GoodTree
  <1>6. /\ FuncsOK(mCalcFunc', tree'.live, built', session.pausing)
        /\ OffIsNil(mCalcFunc', tree'.live)
    BY <1>4, <1>5, CarryKept
  <1> QED BY <1>2, <1>3, <1>4, <1>6, AtRest

(* A command that sets the function of one node.                           *)
LEMMA SetKept ==
  ASSUME CInv, stack = <<>>, UNCHANGED <<tree, msg, built, stack, visited, session>>,
         NEW n \in tree.live, NEW v \in FuncOf(n, tree.live),
         mCalcFunc' = [mCalcFunc EXCEPT ![n] = v],
         n \in built => v \notin CtorFuncs,
         n \in Synths /\ v \in Running => n \in built \/ session.pausing
  PROVE  CInv'
  <1>1. /\ KeptTree(tree) /\ msg = Idle
        /\ FuncsOK(mCalcFunc, tree.live, built, session.pausing)
        /\ OffIsNil(mCalcFunc, tree.live)
        /\ tree.live \in SUBSET Node /\ built \subseteq Synths
    BY Types DEF CInv, FuncInv, KeptTree, GoodTree, FuncsOK
  <1>2. built \subseteq built /\ built \subseteq built \cup {n}
    OBVIOUS
  <1>3. /\ FuncsOK([mCalcFunc EXCEPT ![n] = v], tree.live, built, session.pausing)
        /\ OffIsNil([mCalcFunc EXCEPT ![n] = v], tree.live)
    BY <1>1, <1>2, FuncSet
  <1> QED BY <1>1, <1>3, AtRest

LEMMA NodeRunKept ==
  ASSUME CInv, NEW n \in Node, NEW run \in BOOLEAN, NodeRun(n, run), UNCHANGED session
  PROVE  CInv'
  <1>1. PICK v : v = IF run THEN Resumed(n, mCalcFunc[n]) ELSE Paused(mCalcFunc[n])
    OBVIOUS
  <1>2. /\ stack = <<>> /\ session.pausing /\ n \in tree.live
        /\ mCalcFunc' = [mCalcFunc EXCEPT ![n] = v]
        /\ UNCHANGED <<tree, msg, built, stack, visited>>
    <2>1. OffIsNil(mCalcFunc, tree.live)
      BY DEF CInv, FuncInv
    <2> QED BY <1>1, <2>1 DEF NodeRun, OffIsNil
  <1>3. /\ mCalcFunc[n] \in FuncOf(n, tree.live)
        /\ n \in built => mCalcFunc[n] \notin CtorFuncs
    BY <1>2 DEF CInv, FuncInv, FuncsOK
  <1>4. /\ v \in FuncOf(n, tree.live)
        /\ n \in built => v \notin CtorFuncs
    <2>1. CASE run
      BY <1>1, <1>2, <1>3, <2>1 DEF Resumed, FuncOf, GroupFuncs, SynthFuncs, CtorFuncs
    <2>2. CASE ~ run
      BY <1>1, <1>2, <1>3, <2>2, PausedKinds
    <2> QED BY <2>1, <2>2
  <1> QED BY <1>2, <1>4, SetKept

LEMMA TraceKept ==
  ASSUME CInv, NEW n \in Node, NEW f \in CalcFuncs, Trace(n, f), UNCHANGED session
  PROVE  CInv'
  <1>1. /\ stack = <<>> /\ n \in tree.live
        /\ mCalcFunc' = [mCalcFunc EXCEPT ![n] = f]
        /\ UNCHANGED <<tree, msg, built, stack, visited>>
        /\ \/ mCalcFunc[n] = "Group_Calc" /\ f \in GroupFuncs
           \/ mCalcFunc[n] = "Graph_Calc" /\ f = "Graph_CalcTrace"
    BY DEF Trace
  <1>2. /\ mCalcFunc[n] \in FuncOf(n, tree.live)
        /\ n \in Synths /\ mCalcFunc[n] \in Running => n \in built \/ session.pausing
    BY <1>1 DEF CInv, FuncInv, FuncsOK
  <1>3. f \in FuncOf(n, tree.live) /\ f \notin CtorFuncs
    BY <1>1, <1>2 DEF FuncOf, GroupFuncs, SynthFuncs, CtorFuncs, Ending
  <1>4. n \in Synths /\ f \in Running => mCalcFunc[n] \in Running
    BY <1>1 DEF GroupFuncs, Running
  <1> QED BY <1>1, <1>2, <1>3, <1>4, SetKept

-----------------------------------------------------------------------------
LEMMA InitCInv == CalcInit => CInv
  <1> SUFFICES ASSUME CalcInit PROVE CInv
    OBVIOUS
  <1>1. /\ tree = InitTree /\ msg = Idle /\ KeptTree(tree) /\ tree.live = {Root}
        /\ mCalcFunc = [n \in Node |-> IF n = Root THEN "Group_Calc" ELSE Nil]
        /\ built = {} /\ stack = <<>> /\ visited = {}
    BY InitTreeKept DEF CalcInit, Init, InitTree
  <1>2. StackInv
    BY <1>1 DEF StackInv, FramesOK, Chained, Seen
  <1>3. Root \in Node
    BY RootAssumption DEF Node
  <1>4. /\ FuncsOK(mCalcFunc, tree.live, built, session.pausing)
        /\ OffIsNil(mCalcFunc, tree.live)
    BY <1>1, <1>3, RootAssumption, KindAssumption
       DEF FuncsOK, OffIsNil, FuncOf, GroupFuncs, CalcFuncs
  <1>5. StackBuilt(stack, built, session.pausing)
    BY <1>1 DEF StackBuilt
  <1> QED BY <1>1, <1>2, <1>4, <1>5 DEF CInv, FuncInv

LEMMA NextCInv ==
  ASSUME Careful, CInv, [CalcNext]_vars
  PROVE  CInv'
  <1>1. CASE UNCHANGED vars
    BY <1>1 DEF vars, CInv, StackInv, FuncInv
  <1>2. ASSUME CalcNext PROVE CInv'
    <2>1. ASSUME Traverse PROVE CInv'
      BY <2>1, WorldRunKept, VisitChildKept, GroupReturnKept, FirstCalcKept, NullFirstCalcKept,
         GraphReturnKept DEF Traverse
    <2>2. ASSUME Command, UNCHANGED session PROVE CInv'
      BY <2>2, EditTreeKept, NodeRunKept, TraceKept DEF Command
    <2>3. ASSUME NEW d \in 1 .. 14, UnitDone(d), UNCHANGED session PROVE CInv'
      BY <2>3, UnitDoneKept
    <2> QED BY <1>2, <2>1, <2>2, <2>3 DEF CalcNext
  <1> QED BY <1>1, <1>2

(* The whole of it, for the sequences of commands, calls and done actions  *)
(* of any session.                                                         *)
THEOREM CalcInvariance == Careful => (CalcSpec => []CInv)
  <1> SUFFICES ASSUME Careful PROVE CalcSpec => []CInv
    OBVIOUS
  <1>1. CInv /\ [CalcNext]_vars => CInv'
    BY NextCInv
  <1> QED BY <1>1, InitCInv, PTL DEF CalcSpec

LEMMA CInvIInv == CInv => IInv
  BY PairsIs DEF CInv, IInv, KeptTree, GoodTree, TypeOK, MsgKept, Idle

(* Done actions empty groups, free synths and end nodes while the groups   *)
(* around them are being walked, and the tree is one tree again after each *)
(* of them: the lists agree, every node is found from the root, and every  *)
(* node has a calc function of its kind (Unit_DoneAction, Group_Calc,      *)
(* Node_Delete, Node_SetRun).                                              *)
THEOREM TreeStaysOne == Careful => (CalcSpec => []TreeStaysSound)
  <1>1. ASSUME CInv PROVE TreeStaysSound
    <2>1. IInv /\ KeptTree(tree) /\ tree.live \subseteq Node
      BY <1>1, CInvIInv, Types DEF CInv, KeptTree, GoodTree
    <2>2. LinksAgree /\ EveryNodeInTree
      <3>1. TypeOK /\ GoodTree(tree) /\ Rooted(tree)
        BY <2>1 DEF IInv, KeptTree
      <3>2. WellLinked(tree) /\ tree \in TreeType /\ Root \in tree.live
        BY <3>1 DEF GoodTree
      <3>3. InTree(tree) /\ WalkMeetsAllChildren
        BY <3>1, <3>2, InTreeIsRooted, WalkMeetsMembers
      <3> QED BY <3>1, <3>2, <3>3 DEF LinksAgree, EveryNodeInTree
    <2>3. \A n \in Node : mCalcFunc[n] \in FuncOf(n, tree.live)
      BY <1>1 DEF CInv, FuncInv, FuncsOK, OffIsNil, FuncOf
    <2>4. \A n \in Node : mCalcFunc[n] \in
             IF n \notin tree.live THEN {Nil}
             ELSE (IF n \in Groups THEN GroupFuncs ELSE SynthFuncs)
                     \cup {"Node_NullCalc", "Node_Delete"}
      BY <2>3 DEF FuncOf, Ending
    <2>5. /\ mCalcFunc \in [Node -> CalcFuncs \cup {Nil}]
          /\ built \subseteq Synths /\ visited \subseteq Node
      BY <1>1 DEF CInv, FuncInv, FuncsOK, OffIsNil, StackInv
    <2>6. \A i \in 1 .. Len(stack) : stack[i] \in FrameType
      BY <1>1 DEF CInv, StackInv, FramesOK, FrameOK
    <2>7. CalcTypeOK
      BY <2>1, <2>4, <2>5, <2>6 DEF CalcTypeOK, IInv, FrameType
    <2> QED BY <2>2, <2>7 DEF TreeStaysSound
  <1> QED BY <1>1, CalcInvariance, PTL

(* Whatever a unit's done action frees or ends, no C++ frame of the        *)
(* traversal is left with a pointer to a node that is gone: not the group  *)
(* it walks, nor the child that Group_Calc read before the call.           *)
THEOREM NoFrameDangles == Careful => (CalcSpec => []FramesStayValid)
  <1>1. CInv => FramesStayValid
    BY DEF CInv, StackInv, FramesOK, FrameOK, Chained, FramesStayValid
  <1> QED BY <1>1, CalcInvariance, PTL

(* The links of a list that has been walked up to c say that the nodes     *)
(* before c have been called, and no others.                               *)
CalledUpTo(q, k, V, c) ==
    \A m \in 1 .. k : q[m] \in V <=> \A j \in 1 .. m : q[j] # c

LEMMA PrefixVisited ==
  ASSUME NEW t, GoodTree(t), NEW g \in Groups \cap t.live, NEW q, NEW k, IsListOf(t, g, q, k),
         NEW V, NEW c, Progress(t, V, g, c)
  PROVE  CalledUpTo(q, k, V, c)
  <1>1. /\ k \in Nat /\ t \in TreeType /\ Nil \notin Node /\ t.live \subseteq Node
        /\ \A m \in 1 .. k : q[m] \in Members(t, g) /\ q[m] # Nil
    BY Types DEF IsListOf, GoodTree, Members
  <1>2. \A m \in 1 .. k : m # 1 => m - 1 \in 1 .. k /\ t.mPrev[q[m]] = q[m - 1]
    <2> SUFFICES ASSUME NEW m \in 1 .. k, m # 1
                 PROVE  m - 1 \in 1 .. k /\ t.mPrev[q[m]] = q[m - 1]
      OBVIOUS
    <2>1. m - 1 \in 1 .. k /\ m - 1 # k /\ (m - 1) + 1 = m
      BY <1>1
    <2>2. t.mNext[q[m - 1]] = q[m]
      BY <2>1 DEF IsListOf
    <2> QED BY <1>1, <2>1, <2>2 DEF Members, GoodTree, WellLinked, NextAgrees
  <1>3. k # 0 => t.mPrev[q[1]] = Nil
    BY <1>1 DEF IsListOf, GoodTree, WellLinked, HeadIsFirst
  <1>4. ASSUME NEW m \in 1 .. k, \A j \in 1 .. m : q[j] # c, q[m] \notin V PROVE FALSE
    <2> DEFINE T == {j \in 1 .. m : q[j] \notin V}
    <2>1. T # {} /\ T \subseteq Nat
      BY <1>1, <1>4
    <2>2. PICK l \in T : \A j \in T : l <= j
      <3> HIDE DEF T
      <3> QED BY <2>1, LeastNat
    <2>3. l \in 1 .. k /\ l \in 1 .. m /\ q[l] # c /\ q[l] \notin V /\ q[l] \in Members(t, g)
      BY <1>1, <1>4, <2>2
    <2>4. t.mPrev[q[l]] # Nil /\ t.mPrev[q[l]] \notin V
      BY <2>3 DEF Progress
    <2>5. l # 1
      BY <1>1, <1>3, <2>3, <2>4
    <2>6. l - 1 \in T
      BY <1>2, <2>3, <2>4, <2>5
    <2> QED BY <2>2, <2>3, <2>6
  <1>5. ASSUME NEW m \in 1 .. k, q[m] \in V, NEW j \in 1 .. m, q[j] = c PROVE FALSE
    <2> DEFINE T == {i \in j .. m : q[i] \in V}
    <2>1. T # {} /\ T \subseteq Nat
      BY <1>1, <1>5
    <2>2. PICK l \in T : \A i \in T : l <= i
      <3> HIDE DEF T
      <3> QED BY <2>1, LeastNat
    <2>3. c \notin V
      BY <1>1, <1>5 DEF Progress
    <2>4. l \in j .. m /\ l # j /\ l \in 1 .. k /\ l # 1 /\ q[l] \in V /\ q[l] \in Members(t, g)
      BY <1>1, <1>5, <2>2, <2>3
    <2>5. t.mPrev[q[l]] = q[l - 1] /\ q[l - 1] # Nil
      BY <1>1, <1>2, <2>4
    <2>6. q[l - 1] \in V
      BY <2>4, <2>5 DEF Progress
    <2>7. l - 1 \in T
      BY <2>4, <2>6
    <2> QED BY <2>2, <2>4, <2>7
  <1> QED BY <1>4, <1>5 DEF CalledUpTo

(* In one block every child of a group is called, in the order of the      *)
(* list and once: those before the next child have been, those from it on  *)
(* have not, whichever of them done actions have taken out (Group_Calc).   *)
THEOREM CalledInOrder == Careful => (CalcSpec => []VisitedArePrefix)
  <1>1. ASSUME CInv PROVE VisitedArePrefix
    <2> SUFFICES ASSUME NEW i \in 1 .. Len(stack), stack[i].calc \in GroupFuncs
                 PROVE  \A m \in 1 .. Len(Children(tree, stack[i].node)) :
                           (Children(tree, stack[i].node)[m] \in visited)
                             <=> \A j \in 1 .. m :
                                    Children(tree, stack[i].node)[j] # stack[i].child
      BY DEF VisitedArePrefix
    <2>1. PICK g, c, q : g = stack[i].node /\ c = stack[i].child /\ q = Children(tree, g)
      OBVIOUS
    <2>2. GoodTree(tree) /\ g \in Groups \cap tree.live /\ Progress(tree, visited, g, c)
      BY <1>1, <2>1 DEF CInv, KeptTree, StackInv, FramesOK, FrameOK
    <2>3. PICK k : q = [m \in 1 .. k |-> Walk(tree, g)[m]] /\ IsListOf(tree, g, q, k)
      BY <2>1, <2>2, WalkMeets
    <2>4. Len(q) = k
      BY <2>3 DEF IsListOf
    <2>5. CalledUpTo(q, k, visited, c)
      BY <2>2, <2>3, PrefixVisited
    <2> QED BY <2>1, <2>4, <2>5 DEF CalledUpTo
  <1> QED BY <1>1, CalcInvariance, PTL

(* The units of a synth are constructed once, however it is paused, traced *)
(* or ended between its first call and its last, and never run before      *)
(* unless clients pause synths (Graph_FirstCalc, Graph_NullFirstCalc,      *)
(* Node_SetRun).                                                           *)
THEOREM ConstructedOnlyOnce == Careful => (CalcSpec => []ConstructedOnce)
  <1>1. ASSUME CInv PROVE ConstructedOnce
    <2> SUFFICES ASSUME NEW s \in Synths
                 PROVE  /\ ~ (mCalcFunc[s] \in CtorFuncs /\ s \in built)
                        /\ mCalcFunc[s] \in Running => s \in built \/ session.pausing
      BY DEF ConstructedOnce, Running
    <2>1. s \in Node
      BY DEF Node
    <2>2. s \notin tree.live => mCalcFunc[s] = Nil
      BY <1>1, <2>1 DEF CInv, FuncInv, OffIsNil
    <2>3. Nil \notin Running
      BY NoFuncAssumption, FuncKinds
    <2> QED BY <1>1, <2>2, <2>3 DEF CInv, FuncInv, FuncsOK
  <1> QED BY <1>1, CalcInvariance, PTL

=============================================================================
