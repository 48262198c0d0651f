------------------------------ MODULE NodeCalc ------------------------------
(***************************************************************************)
(* One block of audio: World_Run calls the calc function of the root       *)
(* group, a group calls its children's, a synth constructs its units on    *)
(* the first call and runs them, and a unit that has finished may perform  *)
(* a done action: free, pause or empty its synth, its neighbours or its    *)
(* group while the traversal is in the middle of them (SC_Group.cpp,       *)
(* SC_Graph.cpp, SC_Node.cpp).  Commands come between blocks, on the same  *)
(* thread.                                                                 *)
(*                                                                         *)
(* stack holds the C++ frames of the traversal, the innermost last: the    *)
(* node, the calc function that was entered and, in a group, the local     *)
(* child, which is read before the call that may delete its predecessor.   *)
(***************************************************************************)
EXTENDS NodeCommands, FiniteSetsExt

(* What may happen while the server runs.                                  *)
CONSTANT Sessions
ASSUME SessionsAssumption ==
    Sessions \subseteq
        [done : SUBSET (1 .. 14), \* done actions of units that calculate ...
         ctor : SUBSET (1 .. 14), \* ... and in their constructors
         pausing : BOOLEAN,       \* clients send /n_run
         tracing : BOOLEAN,       \* clients send /n_trace and /g_dumpTree
         nodes : SUBSET Node]     \* bound: the nodes there may be

VARIABLES mCalcFunc,   \* Node::mCalcFunc, Nil for a node that is not live
          built,       \* synths whose unit constructors have run
          stack,       \* see above
          visited,     \* nodes whose calc function this block has called
          session      \* one of Sessions

vars == <<tree, msg, mCalcFunc, built, stack, visited, session>>

GroupFuncs == {"Group_Calc", "Group_CalcTrace", "Group_CalcDumpTree"}
CtorFuncs == {"Graph_FirstCalc", "Graph_NullFirstCalc"}
SynthFuncs == CtorFuncs \cup {"Graph_Calc", "Graph_CalcTrace"}
CalcFuncs == GroupFuncs \cup SynthFuncs \cup {"Node_NullCalc", "Node_Delete"}
ASSUME NoFuncAssumption == Nil \notin CalcFuncs

Frame(n, f, c) == [node |-> n, calc |-> f, child |-> c]
Top == stack[Len(stack)]
Caller == SubSeq(stack, 1, Len(stack) - 1)

(* What a deletion or a creation does to the fields that live in a node.   *)
FirstFunc(n) == IF n \in Groups THEN "Group_Calc" ELSE "Graph_FirstCalc"
CarryOver(calc) ==
    /\ mCalcFunc' = [n \in Node |->
                       IF n \notin tree'.live THEN Nil
                       ELSE IF n \notin tree.live THEN FirstFunc(n)
                       ELSE calc[n]]
    /\ built' = built \cap tree'.live

-----------------------------------------------------------------------------
(* Node_SetRun                                                             *)
Resumed(n, f) ==
    IF f # "Node_NullCalc" THEN f
    ELSE IF n \in Groups THEN "Group_Calc" ELSE "Graph_Calc"

\* (faulty variant: a synth that is not new is constructed again)
PausedAnew(f) ==
    IF f \in SynthFuncs THEN "Graph_NullFirstCalc" ELSE "Node_NullCalc"

Paused(f) ==
    IF f = "Graph_FirstCalc" THEN "Graph_NullFirstCalc" ELSE "Node_NullCalc"

(* The commands of module NodeCommands, between two blocks.                *)
Structural ==
    \/ \E n \in Node, a \in AddActions, x \in Node : New(n, a, x)
    \/ \E n, r \in Node : NewReplacing(n, r)
    \/ \E n \in Node : NodeFree(n)
    \/ \E g \in Groups : FreeAll(g)
    \/ \E a \in {"head", "tail"}, g \in Groups, n \in Node : MoveToGroup(a, g, n)

EditTree ==
    /\ stack = <<>>
    /\ Structural /\ tree'.live \subseteq session.nodes
    /\ CarryOver(mCalcFunc)
    /\ UNCHANGED <<stack, visited>>

(* /n_run                                                                  *)
NodeRun(n, run) ==
    /\ stack = <<>> /\ session.pausing /\ n \in tree.live
    /\ mCalcFunc' = [mCalcFunc EXCEPT
                       ![n] = IF run THEN Resumed(n, @) ELSE Paused(@)]
    /\ UNCHANGED <<tree, msg, built, stack, visited>>

(* /n_trace, and /g_dumpTree for a group.                                  *)
Trace(n, f) ==
    /\ stack = <<>> /\ session.tracing /\ n \in tree.live
    /\ \/ mCalcFunc[n] = "Group_Calc" /\ f \in GroupFuncs \ {"Group_Calc"}
       \/ mCalcFunc[n] = "Graph_Calc" /\ f = "Graph_CalcTrace"
    /\ mCalcFunc' = [mCalcFunc EXCEPT ![n] = f]
    /\ UNCHANGED <<tree, msg, built, stack, visited>>

-----------------------------------------------------------------------------
\* (faulty variant: an ended node is passed over)
CallPassesOver(n, f, below, calc) ==
    /\ \/ /\ f \in {"Node_NullCalc", "Node_Delete"}
          /\ tree' = tree /\ stack' = below
       \/ /\ f \in SynthFuncs
          /\ tree' = tree /\ stack' = Append(below, Frame(n, f, Nil))
       \/ /\ f \in GroupFuncs
          /\ tree' = tree /\ stack' = Append(below, Frame(n, f, tree.mHead[n]))
    /\ visited' = IF stack' = <<>> THEN {} ELSE visited \cup {n}
    /\ CarryOver(calc)
    /\ UNCHANGED msg

(* The call of node->mCalcFunc, from the frames in below.                  *)
Call(n, f, below, calc) ==
    /\ \/ /\ f = "Node_NullCalc"
          /\ tree' = tree /\ stack' = below
       \/ /\ f = "Node_Delete"
          /\ tree' = Node_Delete(tree, n) /\ stack' = below
       \/ /\ f \in SynthFuncs
          /\ tree' = tree /\ stack' = Append(below, Frame(n, f, Nil))
       \/ /\ f \in GroupFuncs
          /\ tree' = tree /\ stack' = Append(below, Frame(n, f, tree.mHead[n]))
    /\ visited' = IF stack' = <<>> THEN {} ELSE visited \cup {n}
    /\ CarryOver(calc)
    /\ UNCHANGED msg

(* World_Run.  A root whose function is Node_Delete does nothing at all.   *)
WorldRun ==
    /\ stack = <<>>
    /\ Call(Root, mCalcFunc[Root], <<>>, mCalcFunc)

\* (faulty variant: the next child is read after the call)
VisitChildReadLate ==
    /\ stack # <<>> /\ Top.calc \in GroupFuncs /\ Top.child # Nil
    /\ LET c == Top.child
           after == IF mCalcFunc[c] = "Node_Delete" THEN Nil ELSE tree.mNext[c]
       IN  Call(c, mCalcFunc[c], Append(Caller, [Top EXCEPT !.child = after]),
                mCalcFunc)

(* One round of the loop in Group_Calc, Group_CalcTrace or                 *)
(* Group_DumpNodeTree, which first has the groups in it dump themselves.   *)
VisitChild ==
    /\ stack # <<>> /\ Top.calc \in GroupFuncs /\ Top.child # Nil
    /\ LET c == Top.child
           f == IF Top.calc = "Group_CalcDumpTree" /\ mCalcFunc[c] = "Group_Calc"
                THEN "Group_CalcDumpTree" ELSE mCalcFunc[c]
       IN  Call(c, f, Append(Caller, [Top EXCEPT !.child = tree.mNext[c]]),
                [mCalcFunc EXCEPT ![c] = f])

(* After the loop; tracing and dumping last for one block.                 *)
GroupReturn ==
    /\ stack # <<>> /\ Top.calc \in GroupFuncs /\ Top.child = Nil
    /\ mCalcFunc' = IF Top.calc = "Group_Calc" THEN mCalcFunc
                    ELSE [mCalcFunc EXCEPT ![Top.node] = "Group_Calc"]
    /\ stack' = Caller
    /\ visited' = IF Caller = <<>> THEN {} ELSE visited
    /\ UNCHANGED <<tree, msg, built>>

-----------------------------------------------------------------------------
(* Graph_FirstCalc after the constructors: the synth is run at once.       *)
FirstCalcConstructed ==
    /\ stack # <<>> /\ Top.calc = "Graph_FirstCalc"
    /\ built' = built \cup {Top.node}
    /\ mCalcFunc' = [mCalcFunc EXCEPT ![Top.node] = "Graph_Calc"]
    /\ stack' = Append(Caller, [Top EXCEPT !.calc = "Graph_Calc"])
    /\ UNCHANGED <<tree, msg, visited>>

NullFirstCalcConstructed ==
    /\ stack # <<>> /\ Top.calc = "Graph_NullFirstCalc"
    /\ built' = built \cup {Top.node}
    /\ mCalcFunc' = [mCalcFunc EXCEPT ![Top.node] = "Node_NullCalc"]
    /\ stack' = Caller
    /\ UNCHANGED <<tree, msg, visited>>

(* Graph_Calc and Graph_CalcTrace after the last unit.                     *)
GraphReturn ==
    /\ stack # <<>> /\ Top.calc \in {"Graph_Calc", "Graph_CalcTrace"}
    /\ mCalcFunc' = IF Top.calc = "Graph_Calc" THEN mCalcFunc
                    ELSE [mCalcFunc EXCEPT ![Top.node] = "Graph_Calc"]
    /\ stack' = Caller
    /\ UNCHANGED <<tree, msg, built, visited>>

-----------------------------------------------------------------------------
(* Unit_DoneAction(d, unit of s): which nodes are told to end with the     *)
(* next call of their calc function, which are paused, which groups are    *)
(* emptied of all nodes and which of synths.                               *)
PrevOf(s) == {tree.mPrev[s]} \ {Nil}
NextOf(s) == {tree.mNext[s]} \ {Nil}
SiblingsUpTo(s) ==
    LET walk == Children(tree, tree.mParent[s])
    IN  {walk[i] : i \in {j \in 1 .. Len(walk) :
                            \A k \in 1 .. j - 1 : walk[k] # s}}
Siblings(s) == {n \in tree.live : tree.mParent[n] = tree.mParent[s]}

Ended(d, s) ==
    CASE d = 1 -> {}
      [] d \in {2, 9, 10} -> {s}
      [] d = 3 -> {s} \cup PrevOf(s)
      [] d = 4 -> {s} \cup NextOf(s)
      [] d \in {5, 11} -> {s} \cup (PrevOf(s) \cap Synths)
      [] d \in {6, 12} -> {s} \cup (NextOf(s) \cap Synths)
      [] d = 7 -> SiblingsUpTo(s)
      [] d = 8 -> (Siblings(s) \ SiblingsUpTo(s)) \cup {s}
      [] d = 13 -> Siblings(s)
      [] d = 14 -> {tree.mParent[s]}

PausedBy(d, s) == CASE d = 1 -> {s} [] d = 9 -> PrevOf(s) [] d = 10 -> NextOf(s)
                    [] OTHER -> {}

(* The neighbour that is emptied, of all nodes or of synths, if it is a    *)
(* group.                                                                  *)
Neighbour(d, s) == CASE d \in {5, 11} -> tree.mPrev[s]
                     [] d \in {6, 12} -> tree.mNext[s] [] OTHER -> Nil

(* Group_DeepFreeGraphs, all its rounds.                                   *)
FreeGraphs(t, g) == FoldSet(LAMBDA s, u : Node_Delete(u, s), t, SynthsBelow(t, g))

\* (faulty variant: ended nodes are deleted there and then)
DoneActionAtOnce(d, s) ==
    /\ tree' = FoldSet(LAMBDA n, u : Node_Delete(u, n), tree, Ended(d, s) \ {s})
    /\ CarryOver([mCalcFunc EXCEPT ![s] = "Node_Delete"])

DoneAction(d, s) ==
    /\ LET g == Neighbour(d, s)
       IN  tree' = IF g \notin Groups THEN tree
                   ELSE IF d \in {5, 6} THEN Group_DeleteAll(tree, g)
                   ELSE FreeGraphs(tree, g)
    /\ CarryOver([n \in Node |->
            IF n \in Ended(d, s) THEN "Node_Delete"
            ELSE IF n \in PausedBy(d, s) THEN Paused(mCalcFunc[n])
            ELSE mCalcFunc[n]])

(* A unit of the synth that is being constructed or calculated.            *)
UnitDone(d) ==
    /\ stack # <<>> /\ Top.calc \in SynthFuncs
    /\ d \in IF Top.calc \in CtorFuncs THEN session.ctor ELSE session.done
    /\ DoneAction(d, Top.node)
    /\ UNCHANGED <<msg, stack, visited>>

-----------------------------------------------------------------------------
CalcInit ==
    /\ Init
    /\ mCalcFunc = [n \in Node |-> IF n = Root THEN "Group_Calc" ELSE Nil]
    /\ built = {} /\ stack = <<>> /\ visited = {}
    /\ session \in Sessions

(* The steps the audio callback takes by itself.                           *)
Traverse ==
    /\ \/ WorldRun \/ VisitChild \/ GroupReturn
       \/ FirstCalcConstructed \/ NullFirstCalcConstructed \/ GraphReturn
    /\ UNCHANGED session

Command == \/ EditTree
           \/ \E n \in Node, run \in BOOLEAN : NodeRun(n, run)
           \/ \E n \in Node, f \in CalcFuncs : Trace(n, f)

CalcNext == \/ Traverse
            \/ /\ Command \/ \E d \in 1 .. 14 : UnitDone(d)
               /\ UNCHANGED session

CalcSpec == CalcInit /\ [][CalcNext]_vars

(* The host calls the audio callback for ever, and a synth has finitely    *)
(* many units.                                                             *)
CalcFairSpec == CalcSpec /\ WF_vars(Traverse)

-----------------------------------------------------------------------------
CalcTypeOK ==
    /\ TypeOK
    /\ mCalcFunc \in [Node -> CalcFuncs \cup {Nil}]
    /\ \A n \in Node : mCalcFunc[n] \in
          IF n \notin tree.live THEN {Nil}
          ELSE (IF n \in Groups THEN GroupFuncs ELSE SynthFuncs)
                  \cup {"Node_NullCalc", "Node_Delete"}
    /\ built \subseteq Synths /\ visited \subseteq Node
    /\ \A i \in 1 .. Len(stack) :
          stack[i] \in [node : Node, calc : GroupFuncs \cup SynthFuncs,
                        child : Node \cup {Nil}]

(* The lists stay one tree whatever done actions do to them in the middle  *)
(* of a block.                                                             *)
TreeStaysSound == CalcTypeOK /\ LinksAgree /\ EveryNodeInTree

(* Whatever a done action frees, no frame of the traversal is left with a  *)
(* node that is gone: the groups being walked exist, each inside the one   *)
(* before it, and so does the child each of them goes on with.             *)
FramesStayValid ==
    \A i \in 1 .. Len(stack) :
        /\ stack[i].node \in tree.live
        /\ i > 1 => tree.mParent[stack[i].node] = stack[i - 1].node
        /\ stack[i].child # Nil => tree.mParent[stack[i].child] = stack[i].node

(* A block calls the children of a group in the order of the list, each    *)
(* once and leaving none out, although done actions take nodes out of the  *)
(* lists meanwhile.                                                        *)
VisitedArePrefix ==
    \A i \in 1 .. Len(stack) : stack[i].calc \in GroupFuncs =>
        LET walk == Children(tree, stack[i].node)
        IN  \A k \in 1 .. Len(walk) :
               (walk[k] \in visited)
                  <=> (\A j \in 1 .. k : walk[j] # stack[i].child)

(* The constructors of a synth's units run at most once, and, unless       *)
(* clients pause synths, before the units are run.                         *)
ConstructedOnce ==
    \A s \in Synths :
        /\ mCalcFunc[s] \in CtorFuncs /\ s \in built => stack # <<>> /\ Top.node = s
        /\ mCalcFunc[s] \in {"Graph_Calc", "Graph_CalcTrace"} =>
              s \in built \/ session.pausing

(* SC_Graph.cpp: dtors are not called if ctors have not been called.  The  *)
(* destructor decides by mCalcFunc.                                        *)
DtorsOnlyAfterCtors ==
    [][\A s \in Synths \cap (tree.live \ tree'.live) :
          mCalcFunc[s] # "Graph_FirstCalc" => s \in built]_vars

(* What keeps an ended node from being freed is left out: pausing,         *)
(* tracing, done actions in constructors, and one that ends the root.      *)
Undisturbed ==
    ~session.pausing /\ ~session.tracing /\ session.ctor = {} /\ 14 \notin session.done

(* A node that a done action has ended is freed, though a later call of    *)
(* its own calc function has to do it, and nothing puts another function   *)
(* in its place before.                                                    *)
EndedNodesFreed ==
    \A n \in Node \ {Root} :
        Undisturbed /\ mCalcFunc[n] = "Node_Delete" ~> n \notin tree.live

(* The same in every session.                                              *)
EndedNodesAlwaysFreed ==
    \A n \in Node \ {Root} : mCalcFunc[n] = "Node_Delete" ~> n \notin tree.live
=============================================================================
