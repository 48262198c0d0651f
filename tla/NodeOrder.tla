----------------------------- MODULE NodeOrder ------------------------------
(***************************************************************************)
(* What the commands on the node tree promise: the nodes form one tree     *)
(* below the root, the children of each group are in an order of execution,*)
(* and a command creates one node, moves one node or frees whole subtrees, *)
(* and changes the order of no other node.  This is the tree of            *)
(* HelpSource/Reference/Server-Command-Reference.schelp, without links.    *)
(***************************************************************************)
EXTENDS Integers, Sequences, SequencesExt

CONSTANTS Groups, Synths, Root

Node == Groups \cup Synths

VARIABLES exists,   \* the ids in use
          children  \* the order in which a group runs its nodes

vars == <<exists, children>>

Below(n) ==
    LET closed == {D \in SUBSET exists : n \in D /\
                     \A g \in D \cap Groups : ToSet(children[g]) \subseteq D}
    IN  {x \in exists : \A D \in closed : x \in D}

Init == exists = {Root} /\ children = [g \in Groups |-> <<>>]

(* A new node gets a place in some group.                                  *)
Create(n) ==
    /\ n \notin exists
    /\ exists' = exists \cup {n}
    /\ \E g \in exists \cap Groups : \E i \in 1 .. Len(children[g]) + 1 :
          children' = [children EXCEPT ![g] = InsertAt(@, i, n)]

(* A node gets another place, outside its own subtree, and takes what is   *)
(* below it along.                                                         *)
Move(n) ==
    /\ n # Root /\ n \in exists
    /\ LET rest == [g \in Groups |-> RemoveFirst(children[g], n)]
       IN  \E g \in (exists \cap Groups) \ Below(n) :
           \E i \in 1 .. Len(rest[g]) + 1 :
              children' = [rest EXCEPT ![g] = InsertAt(@, i, n)]
    /\ UNCHANGED exists

(* The subtree of n is gone, and n has left the list it stood in.          *)
Free(n) ==
    /\ n # Root /\ n \in exists
    /\ exists' = exists \ Below(n)
    /\ children' = [g \in Groups |-> IF g \in Below(n) THEN <<>>
                                     ELSE RemoveFirst(children[g], n)]

FreeAll(g) ==
    /\ g \in exists
    /\ exists' = (exists \ Below(g)) \cup {g}
    /\ children' = [h \in Groups |-> IF h \in Below(g) THEN <<>> ELSE children[h]]

(* A new node stands where r stood, and the subtree of r is gone.          *)
Replace(n, r) ==
    /\ n \notin exists /\ r \in exists \ {Root}
    /\ exists' = (exists \cup {n}) \ Below(r)
    /\ children' = [g \in Groups |-> IF g \in Below(r) THEN <<>>
                                     ELSE ReplaceAll(children[g], r, n)]

Next == \/ \E n \in Node : Create(n) \/ Move(n) \/ Free(n)
        \/ \E n, r \in Node : Replace(n, r)
        \/ \E g \in Groups : FreeAll(g)

Spec == Init /\ [][Next]_vars
=============================================================================
