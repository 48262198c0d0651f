----------------------------- MODULE NodeGraph -----------------------------
(***************************************************************************)
(* The node graph of the parallel server: the commands that change the     *)
(* tree, the counters kept beside the child lists, the flag that has the   *)
(* dsp queue generated anew, and the done actions, which name nodes while  *)
(* a tick runs and are carried out after it.  One tick of the audio        *)
(* callback is: rebuild the queue if the flag is set, perform the          *)
(* commands, run the queue, carry out the done actions.                    *)
(* A node object goes away with its last reference; its tree position is   *)
(* one, the dsp queue and the list of synths to prepare hold the others.   *)
(***************************************************************************)
EXTENDS DependencyGraph

CONSTANTS
    Nil,
    DoneActions,  \* the done actions synths use
    MaxCount,     \* bound: synth_count_, which may run ahead of the synths
    MaxDone,      \* bound: done actions in one tick
    CrossMoves,   \* are nodes moved next to nodes of other groups?
    CyclicMoves,  \* are groups moved into or below themselves?
    Garbage       \* what an uninitialised counter may hold

ASSUME NilAssumption == Nil \notin Nodes
ASSUME GarbageAssumption == Garbage \subseteq Int
ASSUME MovesAssumption == {CrossMoves, CyclicMoves} \subseteq BOOLEAN

VARIABLES
    tree,         \* [kids, parent, nsyn, groups]
    synth_count,  \* node_graph::synth_count_
    queued,       \* the synths of the dsp queue, which refers to them
    fresh,        \* the synths to prepare at the start of the next tick
    dirty,        \* dsp_queue_dirty
    orphans,      \* synths that were replaced, but keep their node id
    phase,        \* where the audio callback is in its tick
    done,         \* done_nodes: the nodes to free after the tick
    freeAll,      \* freeAll_nodes
    emptied       \* history: this tick's done actions have freed or emptied
                  \* a group

graphVars == <<tree, synth_count, queued, fresh, dirty, orphans, phase, done,
               freeAll, emptied>>
tickVars == <<phase, done, freeAll, emptied>>

InTree(n) == n = Root \/ tree.parent[n] # Nil
Alive(n)  == InTree(n) \/ n \in queued \cup fresh
Found(n)  == InTree(n) \/ n \in orphans  \* find_node

\* A null pointer or a freed node is used, and nothing more can be said.
Undefined ==
    /\ phase' = "undefined"
    /\ UNCHANGED <<tree, synth_count, queued, fresh, dirty, orphans, done, freeAll,
                   emptied>>

----------------------------------------------------------------------------
\* Lists and counters

Counted(t, g, n, delta) ==
    IF n \in Synths THEN [t EXCEPT !.nsyn[g] = @ + delta]
    ELSE IF delta > 0 THEN [t EXCEPT !.groups[g] = @ \cup {n}]
    ELSE [t EXCEPT !.groups[g] = @ \ {n}]

\* (faulty variant: the child is not counted)
LinkedUncounted(t, n, g, position) ==
    [t EXCEPT !.kids[g] = InsertAt(@, position, n), !.parent[n] = g]

\* insert into a list and set_parent
Linked(t, n, g, position) ==
    Counted([t EXCEPT !.kids[g] = InsertAt(@, position, n), !.parent[n] = g], g, n, 1)

\* parent_hook::unlink takes the node out of the list it is in
Unlisted(t, n) == [t EXCEPT !.kids = [g \in Groups |-> RemoveFirst(t.kids[g], n)]]

\* remove_child: unlink and clear_parent; a group that nobody refers to any
\* more is deleted, and its destructor removes its children
Removed(t, n) ==
    LET gone == Below(t, n) \cup {n}
        u    == Counted(Unlisted(t, n), t.parent[n], n, -1)
    IN [kids   |-> [g \in Groups |-> IF g \in gone THEN <<>> ELSE u.kids[g]],
        parent |-> [m \in Nodes |-> IF m \in gone THEN Nil ELSE u.parent[m]],
        nsyn   |-> [g \in Groups |-> IF g \in gone THEN 0 ELSE u.nsyn[g]],
        groups |-> [g \in Groups |-> IF g \in gone THEN {} ELSE u.groups[g]]]

RemovedAll(t, S) == FoldSet(LAMBDA n, u : Removed(u, n), t, S)

\* Where add_child and its overloads put a new child of g.
Place(t, g, target, where) ==
    IF g \in ParGroups \/ where \in {"head", "insert"} THEN 1
    ELSE IF where = "tail" THEN Len(t.kids[g]) + 1
    ELSE IF where = "before" THEN SelectInSeq(t.kids[g], LAMBDA n : n = target)
    ELSE SelectInSeq(t.kids[g], LAMBDA n : n = target) + 1

Into   == {"head", "tail", "insert"}
Beside == {"before", "after", "replace"}

----------------------------------------------------------------------------
GraphInit ==
    /\ tree = [kids   |-> [g \in Groups |-> <<>>],
               parent |-> [n \in Nodes |-> Nil],
               nsyn   |-> [g \in Groups |-> 0],
               groups |-> [g \in Groups |-> {}]]
    /\ synth_count = 0
    /\ queued = {}
    /\ fresh = {}
    /\ dirty = FALSE
    /\ phase = "commands"
    /\ done = <<>>
    /\ freeAll = <<>>
    /\ orphans = {}
    /\ emptied = FALSE

\* node_graph::add_node.  Replacing puts the node before the one it replaces
\* and removes that one, but leaves its id in the table of nodes, where the
\* object is found as long as anybody refers to it; of what a replaced group
\* contained, synth_count_ is not told.
AddNode(n, target, where) ==
    LET g == IF where \in Into THEN target ELSE tree.parent[target]
        lost == IF where = "replace" /\ target \in Synths THEN 1 ELSE 0
        t == Linked(tree, n, g, IF where = "replace"
                                THEN SelectInSeq(tree.kids[g], LAMBDA m : m = target)
                                ELSE Place(tree, g, target, where))
    IN /\ phase = "commands"
       /\ ~Alive(n) /\ Found(target) /\ synth_count < MaxCount
       /\ where \in Into => target \in Groups
       /\ where \in Beside => tree.parent[target] # Nil
       /\ tree' = IF where = "replace" THEN Removed(t, target) ELSE t
       /\ orphans' = orphans \cup
              IF where = "replace"
              THEN (Below(tree, target) \cup {target}) \cap (queued \cup fresh) ELSE {}
       /\ synth_count' = synth_count - lost + (IF n \in Synths THEN 1 ELSE 0)

\* Next to the root, or to a synth that was replaced: the parent of both is null.
AddBesideNone(n, target, where) ==
    /\ phase = "commands"
    /\ ~Alive(n) /\ Found(target) /\ where \in Beside /\ tree.parent[target] = Nil
    /\ Undefined

\* (faulty variant: no new queue is asked for)
AddSynthUnseen(s, target, where) ==
    /\ AddNode(s, target, where)
    /\ fresh' = fresh \cup {s}
    /\ UNCHANGED <<queued, dirty, tickVars>>

\* add_synth; the synth is also put on the list of synths to prepare
AddSynth(s, target, where) ==
    /\ AddNode(s, target, where)
    /\ fresh' = fresh \cup {s}
    /\ dirty' = TRUE
    /\ UNCHANGED <<queued, tickVars>>

\* add_group, add_parallel_group: "no need to update the dsp queue"
AddGroup(g, target, where) ==
    /\ AddNode(g, target, where)
    /\ UNCHANGED <<queued, fresh, dirty, tickVars>>

\* free_children
Emptied(t, n) == IF n \in Synths THEN t ELSE RemovedAll(t, ToSet(t.kids[n]))

\* remove_node: a group is emptied first
Freed(t, n) == Removed(Emptied(t, n), n)
SynthsFrom(n) == Cardinality((Below(tree, n) \cup {n}) \cap Synths)

\* free_node, which leaves alone what has no parent
FreeNode(n) ==
    /\ phase = "commands" /\ tree.parent[n] # Nil
    /\ tree' = Freed(tree, n)
    /\ synth_count' = synth_count - SynthsFrom(n)
    /\ dirty' = TRUE
    /\ UNCHANGED <<queued, fresh, orphans, tickVars>>

\* /g_freeAll
GroupFreeAll(g) ==
    /\ phase = "commands" /\ InTree(g)
    /\ tree' = Emptied(tree, g)
    /\ synth_count' = synth_count - Cardinality(Below(tree, g) \cap Synths)
    /\ dirty' = TRUE
    /\ UNCHANGED <<queued, fresh, orphans, tickVars>>

\* /g_deepFree: the counter of the synths it frees starts uninitialised
GroupFreeDeep(g) ==
    LET synths == Below(tree, g) \cap Synths IN
    /\ phase = "commands" /\ InTree(g)
    /\ tree' = RemovedAll(tree, synths)
    /\ \E garbage \in Garbage :
           synth_count' = synth_count - (garbage + Cardinality(synths))
    /\ dirty' = TRUE
    /\ UNCHANGED <<queued, fresh, orphans, tickVars>>

\* A node that has become the child of another group.
Rehomed(t, n, g) ==
    IF t.parent[n] = g THEN t
    ELSE [Counted(Counted(t, t.parent[n], n, -1), g, n, 1) EXCEPT !.parent[n] = g]

Movable(n) == phase = "commands" /\ tree.parent[n] # Nil

\* move_to_head_or_tail (/g_head, /g_tail).  Nothing keeps a group from being
\* moved into itself or into a group below it, out of the reach of the root.
MoveInto(n, g, where) ==
    LET t == Unlisted(Rehomed(tree, n, g), n)
        p == IF where = "head" THEN 1 ELSE Len(t.kids[g]) + 1
    IN /\ Movable(n) /\ InTree(g)
       /\ CyclicMoves \/ g \notin Below(tree, n) \cup {n}
       /\ where \in {"head", "tail"}
       /\ tree' = [t EXCEPT !.kids[g] = InsertAt(@, p, n)]
       /\ UNCHANGED <<synth_count, queued, fresh, dirty, orphans, tickVars>>

\* move_before_or_after (/n_before, /n_after).  The parent it calls the
\* target's is the node's own, so in another group the node joins the list but
\* neither parent nor counters change.  (A node next to itself stays there.)
ListOf(t, n) == CHOOSE g \in Groups : n \in ToSet(t.kids[g])
MoveBeside(n, target, where) ==
    LET own  == tree.parent[n]
        g    == ListOf(tree, target)
        last == Last(tree.kids[g]) = target
        t    == Unlisted(tree, n)
        home == IF where = "after" /\ last THEN own ELSE g
        p    == IF where = "after" /\ last THEN Len(t.kids[home]) + 1
                ELSE SelectInSeq(t.kids[g], LAMBDA m : m = target)
                         + (IF where = "after" THEN 1 ELSE 0)
    IN /\ Movable(n) /\ tree.parent[target] # Nil /\ target # n
       /\ CyclicMoves \/ target \notin Below(tree, n)
       /\ CrossMoves \/ tree.parent[target] = own
       /\ where \in {"before", "after"}
       /\ tree' = [t EXCEPT !.kids[home] = InsertAt(@, p, n)]
       /\ UNCHANGED <<synth_count, queued, fresh, dirty, orphans, tickVars>>

\* Moves of the root or of a synth that was replaced, or next to one of them: the
\* node is in no list, and its parent is null.
MoveNone(n, target, where) ==
    /\ phase = "commands" /\ Found(n) /\ Found(target)
    /\ \/ where \in {"head", "tail"} /\ target \in Groups /\ tree.parent[n] = Nil
       \/ where \in {"before", "after"} /\ Nil \in {tree.parent[n], tree.parent[target]}
    /\ Undefined

\* /n_order, for one node: out of its group and into the target's.  In between
\* the node is in no group, and only the queue or the list of synths to prepare
\* keeps it.  The place next to itself is nowhere, but a parallel group does
\* not look at the place.
Order(n, target, where) ==
    LET g == IF where \in Beside THEN tree.parent[target] ELSE target
        t == Removed(tree, n)
    IN /\ Movable(n) /\ InTree(target) /\ n \in queued \cup fresh
       /\ where \in {"before", "after"} => tree.parent[target] # Nil
       /\ where \in {"head", "tail"} => target \in Groups
       /\ where \in {"head", "tail", "before", "after"}
       /\ n = target => g \in ParGroups
       /\ tree' = Linked(t, n, g, Place(t, g, target, where))
       /\ dirty' = TRUE
       /\ UNCHANGED <<synth_count, queued, fresh, orphans, tickVars>>

\* A group, which goes away with its place in the tree; the root or a synth that
\* was replaced, or a place next to one of them; a place next to itself.
OrderNone(n, target, where) ==
    /\ phase = "commands" /\ Found(n) /\ Found(target)
    /\ where \in {"head", "tail", "before", "after"}
    /\ where \in {"head", "tail"} => target \in Groups
    /\ \/ tree.parent[n] = Nil \/ n \notin queued \cup fresh
       \/ /\ where \in {"before", "after"}
          /\ \/ tree.parent[target] = Nil
             \/ n = target /\ tree.parent[target] \notin ParGroups
    /\ Undefined

----------------------------------------------------------------------------
\* threads.run(): the queue built at the start of the tick is performed, also
\* the synths that commands have freed since.
Run ==
    /\ phase = "commands"
    /\ phase' = "running"
    /\ UNCHANGED <<tree, synth_count, queued, fresh, dirty, orphans, done, freeAll,
                   emptied>>

\* A unit of synth s ends with a done action: 2 frees the synth, 3 also the
\* node before it, 13 what its group contains, 14 its group.
DoneAction(s, action) ==
    LET g == tree.parent[s]
        at == SelectInSeq(tree.kids[g], LAMBDA m : m = s)
    IN /\ phase = "running" /\ s \in queued
       /\ Len(done) + Len(freeAll) < MaxDone
       /\ g = Nil => action = 2
       /\ done' = done \o
              (IF action = 2 THEN <<s>>
               ELSE IF action = 3
               THEN IF g \in SeqGroups /\ at > 1 THEN <<s, tree.kids[g][at - 1]>> ELSE <<s>>
               ELSE IF action = 14 THEN <<g>> ELSE <<>>)
       /\ freeAll' = IF action = 13 THEN Append(freeAll, g) ELSE freeAll
       /\ UNCHANGED <<tree, synth_count, queued, fresh, dirty, orphans, phase, emptied>>

\* The other done actions of a synth that was freed since the queue was built:
\* its parent is null, which is used at once (3) or at the end of the tick.
DoneNone(s, action) ==
    /\ phase = "running" /\ s \in queued /\ tree.parent[s] = Nil /\ action # 2
    /\ Undefined

\* update_nodegraph, one node of done_nodes: nova_server::free_node does
\* nothing for a node that "has already been freed by a different event"
Updating == phase \in {"running", "updating"}
FreeDone ==
    LET n == Head(done) IN
    /\ Updating /\ done # <<>> /\ Alive(n)
    /\ phase' = "updating"
    /\ done' = Tail(done)
    /\ IF tree.parent[n] = Nil
       THEN UNCHANGED <<tree, synth_count, dirty, emptied>>
       ELSE /\ tree' = Freed(tree, n)
            /\ synth_count' = synth_count - SynthsFrom(n)
            /\ dirty' = TRUE
            /\ emptied' = (emptied \/ n \in Groups)
    /\ UNCHANGED <<queued, fresh, orphans, freeAll>>

\* ... then one group of freeAll_nodes
FreeAllDone ==
    LET g == Head(freeAll) IN
    /\ Updating /\ done = <<>> /\ freeAll # <<>> /\ InTree(g)
    /\ phase' = "updating"
    /\ freeAll' = Tail(freeAll)
    /\ tree' = Emptied(tree, g)
    /\ synth_count' = synth_count - Cardinality(Below(tree, g) \cap Synths)
    /\ dirty' = TRUE
    /\ emptied' = TRUE
    /\ UNCHANGED <<queued, fresh, orphans, done>>

\* Either of them with a node that is gone.
CarryOutNone ==
    /\ Updating
    /\ \/ done # <<>> /\ ~Alive(Head(done))
       \/ done = <<>> /\ freeAll # <<>> /\ ~InTree(Head(freeAll))
    /\ Undefined

\* (faulty variant: the queue is replaced before the done actions are carried out)
StartTickEarly ==
    /\ Updating /\ (phase = "running" \/ done \o freeAll = <<>>)
    /\ phase' = IF done \o freeAll = <<>> THEN "commands" ELSE "updating"
    /\ dirty' = FALSE
    /\ fresh' = {}
    /\ queued' = IF dirty
                 THEN LET q == Generate(tree) IN UNION {ToSet(q.job[i]) : i \in q.items}
                 ELSE queued
    /\ orphans' = orphans \cap queued'
    /\ emptied' = FALSE
    /\ UNCHANGED <<tree, synth_count, done, freeAll>>

\* The next tick begins: a new queue is generated and replaces the old one,
\* and the new synths are prepared.  Only now do freed synths go away.
StartTick ==
    /\ Updating /\ done = <<>> /\ freeAll = <<>>
    /\ phase' = "commands"
    /\ dirty' = FALSE
    /\ fresh' = {}
    /\ queued' = IF dirty
                 THEN LET q == Generate(tree) IN UNION {ToSet(q.job[i]) : i \in q.items}
                 ELSE queued
    /\ orphans' = orphans \cap queued'
    /\ emptied' = FALSE
    /\ UNCHANGED <<tree, synth_count, done, freeAll>>

Commands ==
    \/ \E s \in Synths, n \in Nodes, w \in Into \cup Beside : AddSynth(s, n, w)
    \/ \E g \in Groups, n \in Nodes, w \in Into \cup Beside : AddGroup(g, n, w)
    \/ \E n, m \in Nodes, w \in Into \cup Beside : AddBesideNone(n, m, w)
    \/ \E n \in Nodes : FreeNode(n)
    \/ \E g \in Groups : GroupFreeAll(g)
    \/ \E g \in Groups : GroupFreeDeep(g)
    \/ \E n \in Nodes, g \in Groups, w \in Into : MoveInto(n, g, w)
    \/ \E n, m \in Nodes, w \in Beside : MoveBeside(n, m, w)
    \/ \E n, m \in Nodes, w \in Into \cup Beside : MoveNone(n, m, w)
    \/ \E n, m \in Nodes, w \in Into \cup Beside : Order(n, m, w)
    \/ \E n, m \in Nodes, w \in Into \cup Beside : OrderNone(n, m, w)

Over == phase = "undefined" /\ UNCHANGED graphVars

GraphNext ==
    \/ Commands
    \/ Run
    \/ \E s \in Synths, a \in DoneActions : DoneAction(s, a)
    \/ \E s \in Synths, a \in DoneActions : DoneNone(s, a)
    \/ FreeDone
    \/ FreeAllDone
    \/ CarryOutNone
    \/ StartTick
    \/ Over

GraphSpec == GraphInit /\ [][GraphNext]_graphVars
----------------------------------------------------------------------------
GraphTypeOK ==
    /\ tree.parent \in [Nodes -> Groups \cup {Nil}]
    /\ synth_count \in Int
    /\ queued \subseteq Synths /\ fresh \subseteq Synths
    /\ orphans \subseteq queued \cup fresh
    /\ dirty \in BOOLEAN /\ emptied \in BOOLEAN
    /\ phase \in {"commands", "running", "updating", "undefined"}
    /\ \A n \in ToSet(done) : n \in Nodes
    /\ \A g \in ToSet(freeAll) : g \in Groups

\* Parent pointers, child lists, and the counters and group lists kept beside
\* them agree after every sequence of commands and done actions in which no group
\* is moved into or below itself and /n_before and /n_after stay within a group: a
\* node with a parent is in that group's list once and in no other, and
\* everything hangs below the root.
ListsAgree ==
    /\ GraphTypeOK
    /\ \A g \in Groups :
           /\ \A n \in Nodes : n \in ToSet(tree.kids[g]) <=> tree.parent[n] = g
           /\ IsInjective(tree.kids[g])
           /\ tree.nsyn[g] = Cardinality(ToSet(tree.kids[g]) \cap Synths)
           /\ tree.groups[g] = ToSet(tree.kids[g]) \cap Groups
    /\ {n \in Nodes : tree.parent[n] # Nil} = Below(tree, Root)

\* Whatever tree the commands have built, the queue generated from it runs all
\* its synths in the order of the tree, with activation limits that count the
\* predecessors, and its items fit the array that is allocated for
\* synth_count_ of them.  Trees with a hollow tail are left out: for them
\* tail_nodes is wrong.
GeneratedQueueRight ==
    phase = "commands" =>
    LET q == Generate(tree) IN
    /\ Cardinality(q.items) <= synth_count
    /\ HollowTail(tree) \/ Realises(q, tree)

\* The steps that change the order without asking for a new queue: moves, and a
\* group that replaces a node.
Forgetful ==
    \/ \E n \in Nodes, g \in Groups, w \in Into : MoveInto(n, g, w)
    \/ \E n, m \in Nodes, w \in Beside : MoveBeside(n, m, w)
    \/ \E g \in Groups, n \in Nodes : AddGroup(g, n, "replace")

\* The same for every tree: what dec_activation_count's assertion current > 0 and
\* run's assertion activation_count == 0 rely on.
LimitsCountPredecessors == IsQueue(Generate(tree))

\* What a tick should run, and in which order.
Wanted == LET synths == Under(tree, Root) IN
    [synths |-> synths, order |-> {p \in synths \X synths : Earlier(tree, p[1], p[2])}]

\* Every other step that changes what a tick should run leaves
\* dsp_queue_dirty set, so that the next tick runs the tree as it is then.
ChangesAreSeen ==
    [][\/ dirty'
       \/ UNCHANGED tree
       \/ Wanted' = Wanted
       \/ Forgetful]_graphVars

\* "Places node A in the same group as node B, to execute immediately before node
\* B" (/n_before in the server command reference): moves are seen too.
MovesAreSeen == [][dirty' \/ Wanted' = Wanted]_graphVars

\* What plain pointers name exists, over all commands and done actions of a
\* tick: the queue or the list of synths to prepare holds each synth of the tree,
\* so /n_order may give up the tree's reference before it links the synth again;
\* the synths in done_nodes exist until update_nodegraph comes to them, though
\* they may be freed before; and the groups named there are in the tree, until it
\* has freed or emptied a group.
NamedNodesHeld ==
    /\ \A s \in Synths : InTree(s) => s \in queued \cup fresh
    /\ \A n \in ToSet(done) \cap Synths : Alive(n)
    /\ emptied \/ \A g \in (ToSet(done) \cap Groups) \cup ToSet(freeAll) : InTree(g)

\* The same for groups until the last done action is carried out.
HeldThroughout == \A g \in (ToSet(done) \cap Groups) \cup ToSet(freeAll) : InTree(g)

\* No step uses a null pointer or a freed node: what the handlers take for
\* granted of the nodes they find (sc_osc_handler.cpp:1451, add_node's
\* node->parent_), and update_nodegraph of those it is given.
NothingUndefined == phase # "undefined"
=============================================================================
