------------------------------ MODULE NodeTree ------------------------------
(***************************************************************************)
(* The linked structure of the node tree of scsynth: every group keeps the *)
(* head and tail of a doubly linked list of children, every node its       *)
(* parent and its two siblings (SC_Node.cpp, SC_Group.cpp).  A tree is one *)
(* record t; each operator below is one C++ function, from the tree it is  *)
(* called with to the tree it leaves.                                      *)
(*                                                                         *)
(* Node ids are split into Groups and Synths once and for all, which is    *)
(* the field mIsGroup; t.live is the set of ids World_GetNode finds.  The  *)
(* fields of a node that is not live are Nil.                              *)
(***************************************************************************)
EXTENDS Integers, FiniteSets, Sequences

CONSTANTS Groups, Synths,  \* ids that name groups, ids that name synths
          Root,            \* group 0, made by World_New
          Nil              \* the null pointer

ASSUME RootAssumption == Root \in Groups
ASSUME KindAssumption == Groups \cap Synths = {}
ASSUME NilAssumption == Nil \notin Groups \cup Synths

Node == Groups \cup Synths

InitTree == [live    |-> {Root},
             mParent |-> [n \in Node |-> Nil],
             mPrev   |-> [n \in Node |-> Nil],
             mNext   |-> [n \in Node |-> Nil],
             mHead   |-> [g \in Groups |-> Nil],
             mTail   |-> [g \in Groups |-> Nil]]

(* if (k) k->f = v                                                         *)
Set(f, k, v) == IF k = Nil THEN f ELSE [f EXCEPT ![k] = v]

(* The sibling before a position is told its new next, or else the head    *)
(* of the group is; and the same the other way round.                      *)
LinkForward(t, g, p, v) ==
    IF p = Nil THEN [t EXCEPT !.mHead = Set(@, g, v)]
               ELSE [t EXCEPT !.mNext = Set(@, p, v)]
LinkBack(t, g, n, v) ==
    IF n = Nil THEN [t EXCEPT !.mTail = Set(@, g, v)]
               ELSE [t EXCEPT !.mPrev = Set(@, n, v)]

(* s gets a place in group g between p and n.                              *)
Place(t, s, g, p, n) ==
    [LinkBack(LinkForward(t, g, p, s), g, n, s)
        EXCEPT !.mParent[s] = g, !.mPrev[s] = p, !.mNext[s] = n]

-----------------------------------------------------------------------------
(* A new node is known by its id before it has a place in the tree.        *)
Node_New(t, n) == [t EXCEPT !.live = @ \cup {n}]

\* (faulty variant: the tail of the group is forgotten)
Node_RemoveKeepTail(t, s) ==
    LET u == LinkForward(t, t.mParent[s], t.mPrev[s], t.mNext[s])
    IN  [u EXCEPT !.mPrev = [Set(@, t.mNext[s], t.mPrev[s]) EXCEPT ![s] = Nil],
                  !.mParent[s] = Nil, !.mNext[s] = Nil]

Node_Remove(t, s) ==
    LET u == LinkForward(t, t.mParent[s], t.mPrev[s], t.mNext[s])
        v == LinkBack(u, t.mParent[s], t.mNext[s], t.mPrev[s])
    IN  [v EXCEPT !.mParent[s] = Nil, !.mPrev[s] = Nil, !.mNext[s] = Nil]

\* (faulty variant: the sibling is taken for the parent)
Node_AddAfterUnder(t, s, a) ==
    IF t.mParent[a] = Nil \/ s = Root THEN t
    ELSE [Place(t, s, t.mParent[a], a, t.mNext[a]) EXCEPT !.mParent[s] = a]

\* (faulty variant: forgets the sibling that follows)
Node_AddAfterAtEnd(t, s, a) ==
    IF t.mParent[a] = Nil \/ s = Root THEN t
    ELSE Place(t, s, t.mParent[a], a, Nil)

Node_AddAfter(t, s, a) ==
    IF t.mParent[a] = Nil \/ s = Root THEN t
    ELSE Place(t, s, t.mParent[a], a, t.mNext[a])

\* (faulty variant: always to the head of the group)
Node_AddBeforeAtHead(t, s, b) ==
    IF t.mParent[b] = Nil \/ s = Root THEN t
    ELSE Place(t, s, t.mParent[b], Nil, t.mHead[t.mParent[b]])

Node_AddBefore(t, s, b) ==
    IF t.mParent[b] = Nil \/ s = Root THEN t
    ELSE Place(t, s, t.mParent[b], t.mPrev[b], b)

Group_AddHead(t, g, s) ==
    IF s = Root THEN t ELSE Place(t, s, g, Nil, t.mHead[g])

Group_AddTail(t, g, s) ==
    IF s = Root THEN t ELSE Place(t, s, g, t.mTail[g], Nil)

-----------------------------------------------------------------------------
(* The nodes under n, n included: the least set that holds n and every     *)
(* node whose parent it holds.  The recursion of Group_DeleteAll visits    *)
(* these when the lists are well linked.                                   *)
Closed(t, D) == \A x \in t.live : t.mParent[x] \in D => x \in D
Below(t, n) ==
    LET Containing == {D \in SUBSET t.live : n \in D /\ Closed(t, D)}
    IN  {x \in t.live : \A D \in Containing : x \in D}

(* World_Free of every node in D.                                          *)
Forget(t, D) ==
    [live    |-> t.live \ D,
     mParent |-> [n \in Node |-> IF n \in D THEN Nil ELSE t.mParent[n]],
     mPrev   |-> [n \in Node |-> IF n \in D THEN Nil ELSE t.mPrev[n]],
     mNext   |-> [n \in Node |-> IF n \in D THEN Nil ELSE t.mNext[n]],
     mHead   |-> [g \in Groups |-> IF g \in D THEN Nil ELSE t.mHead[g]],
     mTail   |-> [g \in Groups |-> IF g \in D THEN Nil ELSE t.mTail[g]]]

(* Every child is cut loose and deleted with all that is under it.         *)
Group_DeleteAll(t, g) ==
    [Forget(t, Below(t, g) \ {g}) EXCEPT !.mHead[g] = Nil, !.mTail[g] = Nil]

\* (faulty variant: the children of a deleted group are left behind)
Node_DeleteShallow(t, n) ==
    IF n = Root THEN t ELSE Forget(Node_Remove(t, n), {n})

(* Group_Dtor or Graph_Dtor, both through Node_Dtor.                       *)
Node_Delete(t, n) ==
    IF n = Root THEN t ELSE Forget(Node_Remove(t, n), Below(t, n))

(* The new node s takes the links of r, and r is deleted.                  *)
Node_Replace(t, s, r) ==
    IF t.mParent[r] = Nil \/ s = Root THEN t
    ELSE LET u == Place(t, s, t.mParent[r], t.mPrev[r], t.mNext[r])
         IN  Node_Delete([u EXCEPT !.mParent[r] = Nil, !.mPrev[r] = Nil,
                                   !.mNext[r] = Nil], r)

(* The synths Group_DeepFreeGraphs has still to free.                      *)
SynthsBelow(t, g) == Below(t, g) \cap Synths

-----------------------------------------------------------------------------
(* The pointer a traversal of g holds after it went past i - 1 nodes: Nil  *)
(* once the list has ended.  A walk that does not end is cut after as many *)
(* nodes as there are.                                                     *)
Walk(t, g) ==
    LET nth[i \in 1 .. Cardinality(t.live)] ==
            IF i = 1 THEN t.mHead[g]
            ELSE IF nth[i - 1] = Nil THEN Nil ELSE t.mNext[nth[i - 1]]
    IN  nth

(* The children of g from head to tail, as every traversal walks them.     *)
Children(t, g) ==
    LET walk == Walk(t, g)
        met  == {i \in DOMAIN walk : walk[i] # Nil}
    IN  [i \in 1 .. Cardinality(met) |-> walk[i]]

TreeType ==
    [live : SUBSET Node, mParent : [Node -> Groups \cup {Nil}],
     mPrev : [Node -> Node \cup {Nil}], mNext : [Node -> Node \cup {Nil}],
     mHead : [Groups -> Node \cup {Nil}], mTail : [Groups -> Node \cup {Nil}]]

(* What the list operations rely on at every link.                         *)
FreedIsUnlinked(t) ==
    \A n \in Node \ t.live :
        /\ t.mParent[n] = Nil /\ t.mPrev[n] = Nil /\ t.mNext[n] = Nil
        /\ n \in Groups => t.mHead[n] = Nil /\ t.mTail[n] = Nil
ParentIsLive(t) ==
    \A n \in t.live : t.mParent[n] # Nil => t.mParent[n] \in t.live
LooseHasNoSibling(t) ==
    \A n \in t.live : t.mParent[n] = Nil => t.mPrev[n] = Nil /\ t.mNext[n] = Nil
NextAgrees(t) ==
    \A n \in t.live : t.mNext[n] # Nil =>
        /\ t.mNext[n] \in t.live
        /\ t.mPrev[t.mNext[n]] = n
        /\ t.mParent[t.mNext[n]] = t.mParent[n]
PrevAgrees(t) ==
    \A n \in t.live : t.mPrev[n] # Nil =>
        /\ t.mPrev[n] \in t.live
        /\ t.mNext[t.mPrev[n]] = n
        /\ t.mParent[t.mPrev[n]] = t.mParent[n]
FirstIsHead(t) ==
    \A n \in t.live : t.mParent[n] # Nil /\ t.mPrev[n] = Nil
                        => t.mHead[t.mParent[n]] = n
LastIsTail(t) ==
    \A n \in t.live : t.mParent[n] # Nil /\ t.mNext[n] = Nil
                        => t.mTail[t.mParent[n]] = n
HeadIsFirst(t) ==
    \A g \in Groups \cap t.live : t.mHead[g] # Nil =>
        /\ t.mHead[g] \in t.live
        /\ t.mParent[t.mHead[g]] = g /\ t.mPrev[t.mHead[g]] = Nil
TailIsLast(t) ==
    \A g \in Groups \cap t.live : t.mTail[g] # Nil =>
        /\ t.mTail[g] \in t.live
        /\ t.mParent[t.mTail[g]] = g /\ t.mNext[t.mTail[g]] = Nil
BothEndsOrNone(t) ==
    \A g \in Groups \cap t.live : (t.mHead[g] = Nil) <=> (t.mTail[g] = Nil)

WellLinked(t) ==
    /\ FreedIsUnlinked(t) /\ ParentIsLive(t) /\ LooseHasNoSibling(t)
    /\ NextAgrees(t) /\ PrevAgrees(t)
    /\ FirstIsHead(t) /\ LastIsTail(t)
    /\ HeadIsFirst(t) /\ TailIsLast(t) /\ BothEndsOrNone(t)

(* Every live node is found by walking down from the root.                 *)
InTree(t) == Below(t, Root) = t.live
=============================================================================
