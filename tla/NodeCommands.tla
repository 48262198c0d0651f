---------------------------- MODULE NodeCommands ----------------------------
(***************************************************************************)
(* The OSC commands that create, move and free nodes (SC_MiscCmds.cpp), as *)
(* the audio thread performs them on the node tree.  A command that names  *)
(* several nodes is a loop; one step is one round of it, and msg says      *)
(* which loop is running and what it carries to its next round.            *)
(*                                                                         *)
(* The commands check that the ids they are given exist, and no more.      *)
(* Careful is TRUE when the clients do not ask for the impossible: a place *)
(* next to a node that has none itself (the root, or a node outside the    *)
(* tree), or a place inside the subtree that is being moved.               *)
(***************************************************************************)
EXTENDS NodeTree

CONSTANTS Careful

ASSUME CarefulAssumption == Careful \in BOOLEAN

VARIABLES tree,  \* the record of module NodeTree
          msg    \* cmd: the loop that runs; node, target: its locals

commandVars == <<tree, msg>>

Idle == [cmd |-> "none", node |-> Nil, target |-> Nil]
Loop(cmd, n, x) == [cmd |-> cmd, node |-> n, target |-> x]

AddActions == {"head", "tail", "before", "after"}

(* The four add actions, on a tree where n has no place.                   *)
Add(t, a, n, x) ==
    CASE a = "head"   -> Group_AddHead(t, x, n)
      [] a = "tail"   -> Group_AddTail(t, x, n)
      [] a = "before" -> Node_AddBefore(t, n, x)
      [] a = "after"  -> Node_AddAfter(t, n, x)

(* Msg_GetGroup for the head and tail of a group, Msg_GetNode for a sibling.*)
IsTarget(t, a, x) == x \in t.live /\ (a \in {"head", "tail"} => x \in Groups)

(* The place exists, and is not below n.                                   *)
Sound(t, a, n, x) ==
    Careful => /\ a \in {"before", "after", "replace"} => t.mParent[x] # Nil
               /\ n \in t.live => x \notin Below(t, n)

-----------------------------------------------------------------------------
(* /s_new and /g_new with add actions 0 to 3.  A g_new whose id exists     *)
(* already changes nothing, and an s_new is refused.                       *)
New(n, a, x) ==
    /\ msg = Idle
    /\ n \notin tree.live /\ IsTarget(tree, a, x) /\ Sound(tree, a, n, x)
    /\ tree' = Add(Node_New(tree, n), a, n, x)
    /\ UNCHANGED msg

(* Add action 4.                                                           *)
NewReplacing(n, r) ==
    /\ msg = Idle
    /\ n \notin tree.live /\ r \in tree.live /\ Sound(tree, "replace", n, r)
    /\ tree' = Node_Replace(Node_New(tree, n), n, r)
    /\ UNCHANGED msg

(* One id of /n_free.                                                      *)
NodeFree(n) ==
    /\ msg = Idle
    /\ n \in tree.live
    /\ tree' = Node_Delete(tree, n)
    /\ UNCHANGED msg

(* One id of /g_freeAll.                                                   *)
FreeAll(g) ==
    /\ msg = Idle
    /\ g \in tree.live
    /\ tree' = Group_DeleteAll(tree, g)
    /\ UNCHANGED msg

(* One pair of /g_head or /g_tail.                                         *)
MoveToGroup(a, g, n) ==
    /\ msg = Idle
    /\ n \in tree.live /\ IsTarget(tree, a, g) /\ Sound(tree, a, n, g)
    /\ tree' = Add(Node_Remove(tree, n), a, n, g)
    /\ UNCHANGED msg

-----------------------------------------------------------------------------
(* /g_deepFree g: one synth under g is freed in each round of the          *)
(* recursion; the groups stay.                                             *)
DeepFree(g) ==
    /\ msg = Idle
    /\ g \in tree.live
    /\ msg' = Loop("g_deepFree", Nil, g)
    /\ UNCHANGED tree

DeepFreeGraph(s) ==
    /\ msg.cmd = "g_deepFree"
    /\ s \in SynthsBelow(tree, msg.target)
    /\ tree' = Node_Delete(tree, s)
    /\ UNCHANGED msg

DeepFreeEnd ==
    /\ msg.cmd = "g_deepFree"
    /\ SynthsBelow(tree, msg.target) = {}
    /\ msg' = Idle
    /\ UNCHANGED tree

-----------------------------------------------------------------------------
(* /n_before and /n_after.  A pair that is read waits until the next pair  *)
(* is read or the message ends, and then is moved; of consecutive pairs    *)
(* that move one node only the last counts.                                *)
Pairs == [n_before |-> "before", n_after |-> "after"]

\* (faulty variant: the node is linked in without being taken out)
MoveWaitingLinkedIn(cmd) == Add(tree, Pairs[cmd], msg.node, msg.target)

MoveWaiting(cmd) ==
    Add(Node_Remove(tree, msg.node), Pairs[cmd], msg.node, msg.target)

(* prevNode && prevNode != node                                            *)
AfterPair(cmd, n) ==
    IF msg.node \notin {Nil, n} THEN MoveWaiting(cmd) ELSE tree

ReadPair(cmd, n, x) ==
    /\ msg = Idle \/ msg.cmd = cmd
    /\ n \in tree.live /\ x \in tree.live
    /\ Sound(AfterPair(cmd, n), Pairs[cmd], n, x)
    /\ tree' = AfterPair(cmd, n)
    /\ msg' = Loop(cmd, n, x)

(* After the loop /n_before leaves a node alone that is its own target;    *)
(* /n_after does not ask.                                                  *)
EndPairs(cmd) ==
    /\ msg.cmd = cmd
    /\ tree' = IF cmd = "n_before" /\ msg.node = msg.target THEN tree
               ELSE MoveWaiting(cmd)
    /\ msg' = Idle

-----------------------------------------------------------------------------
(* /n_order: the first node that is found goes to the place asked for.     *)
OrderFirst(a, x, n) ==
    /\ msg = Idle
    /\ n \in tree.live /\ IsTarget(tree, a, x) /\ Sound(tree, a, n, x)
    /\ tree' = Add(Node_Remove(tree, n), a, n, x)
    /\ msg' = Loop("n_order", n, Nil)

(* Each of the others goes after the one before it.                        *)
OrderNext(n) ==
    /\ msg.cmd = "n_order"
    /\ n \in tree.live /\ Sound(tree, "after", n, msg.node)
    /\ tree' = Node_AddAfter(Node_Remove(tree, n), n, msg.node)
    /\ msg' = Loop("n_order", n, Nil)

OrderEnd ==
    /\ msg.cmd = "n_order"
    /\ msg' = Idle
    /\ UNCHANGED tree

-----------------------------------------------------------------------------
Init == tree = InitTree /\ msg = Idle

(* The rounds a message takes once it has begun.                           *)
Continue ==
    \/ \E s \in Synths : DeepFreeGraph(s)
    \/ DeepFreeEnd
    \/ \E cmd \in DOMAIN Pairs : EndPairs(cmd)
    \/ \E n \in Node : OrderNext(n)
    \/ OrderEnd

Next ==
    \/ \E n \in Node, a \in AddActions, x \in Node : New(n, a, x)
    \/ \E n, r \in Node : NewReplacing(n, r)
    \/ \E n \in Node : NodeFree(n)
    \/ \E g \in Groups : FreeAll(g) \/ DeepFree(g)
    \/ \E a \in {"head", "tail"}, g \in Groups, n \in Node :
          MoveToGroup(a, g, n)
    \/ \E cmd \in DOMAIN Pairs, n, x \in Node : ReadPair(cmd, n, x)
    \/ \E a \in AddActions, x, n \in Node : OrderFirst(a, x, n)
    \/ Continue

Spec == Init /\ [][Next]_commandVars

-----------------------------------------------------------------------------
TypeOK ==
    /\ tree \in TreeType
    /\ msg \in [cmd : {"none", "g_deepFree", "n_order"} \cup DOMAIN Pairs,
                node : Node \cup {Nil}, target : Node \cup {Nil}]

(* Whatever is moved, replaced or freed, and in whatever order, the links   *)
(* of neighbours agree, and head and tail are the two ends of the list: a  *)
(* traversal from the head and one from the tail meet the same nodes.      *)
LinksAgree == TypeOK /\ WellLinked(tree)

(* Walking a group from its head meets every node that has the group as    *)
(* its parent, once: the traversal neither skips a child nor loops.        *)
WalkMeetsAllChildren ==
    \A g \in Groups \cap tree.live :
        LET walk == Children(tree, g)
            members == {n \in tree.live : tree.mParent[n] = g}
        IN  /\ Len(walk) = Cardinality(members)
            /\ \A n \in members : \E i \in 1 .. Len(walk) : walk[i] = n

(* No command leaves a live node, or a cycle of groups, where the audio    *)
(* callback never gets to it.                                              *)
EveryNodeInTree == InTree(tree) /\ WalkMeetsAllChildren

(* A pair that waited is moved next to the target it was read with, in the *)
(* target's group, although another pair was read meanwhile; and each node *)
(* of an /n_order follows the one listed before it.                        *)
MovesNow == msg # Idle /\ (msg' = Idle \/ msg'.node # msg.node)
PlacedWhereAsked ==
    [][/\ msg.cmd = "n_after" /\ MovesNow =>
             /\ tree'.mPrev[msg.node] = msg.target
             /\ tree'.mParent[msg.node] = tree.mParent[msg.target]
       /\ msg.cmd = "n_before" /\ MovesNow =>
             /\ tree'.mNext[msg.node] = msg.target
             /\ tree'.mParent[msg.node] = tree.mParent[msg.target]
       /\ msg.cmd = "n_order" /\ tree' # tree =>
             tree'.mPrev[msg'.node] = msg.node]_commandVars

(* The linked lists implement the ordered tree the commands speak of.      *)
Order == INSTANCE NodeOrder WITH
             exists <- tree.live,
             children <- [g \in Groups |->
                            IF g \in tree.live THEN Children(tree, g) ELSE <<>>]
ImplementsOrder == Order!Spec
=============================================================================
