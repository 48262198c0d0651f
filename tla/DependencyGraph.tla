-------------------------- MODULE DependencyGraph --------------------------
(***************************************************************************)
(* dependency_graph_generator: how the parallel server turns its tree of   *)
(* synths, groups and parallel groups into a dsp queue, and what the       *)
(* queue should be.  A tree t has                                          *)
(*   t.kids[g]   the children of group g, first to last (child_nodes)      *)
(*   t.parent[n] the group that node n is in                               *)
(*   t.nsyn[g]   child_synth_count, the counter the code consults          *)
(*   t.groups[g] child_groups                                              *)
(* Consecutive synths of a sequential group become one item, a synth of a  *)
(* parallel group is one; an item is named after its first synth.          *)
(***************************************************************************)
EXTENDS DspQueue, SequencesExt

CONSTANTS Synths, SeqGroups, ParGroups, Root

Groups == SeqGroups \cup ParGroups
Nodes  == Synths \cup Groups

ASSUME NodesAssumption ==
    /\ Synths \cap Groups = {} /\ SeqGroups \cap ParGroups = {}
    /\ Root \in SeqGroups
    /\ IsFiniteSet(Nodes)

\* The groups from g on down, if down[h] are the groups below h.
Reached(down, g) ==
    {h \in Groups : \A S \in SUBSET Groups :
        g \in S /\ (\A i \in S : down[i] \subseteq S) => h \in S}

\* has_synth_children
HasSynths(t, g) == \E h \in Reached(t.groups, g) : t.nsyn[h] # 0
Plays(t, n) == n \in Synths \/ HasSynths(t, n)

\* has_parallel_group_children
HasParallel(t, g) == Reached(t.groups, g) \cap ParGroups # {}

\* The child that ends a sequential group (a set with one node or none): the
\* last one that is a synth or a group with any child at all.
LastNode(t, g) ==
    LET last == SelectLastInSeq(t.kids[g], LAMBDA n : n \in Synths \/ t.kids[n] # <<>>)
    IN IF last = 0 THEN {} ELSE {t.kids[g][last]}

\* tail_nodes: how many items end a group.  A sequential group has the tail of
\* its last node; a parallel group adds up its synths and groups.
EndsIn(t) ==
    [g \in Groups |-> IF g \in ParGroups THEN t.groups[g] ELSE LastNode(t, g) \cap Groups]
OwnTails(t, g) ==
    IF g \in ParGroups THEN t.nsyn[g] ELSE Cardinality(LastNode(t, g) \cap Synths)
TailNodes(t, g) ==
    Cardinality(UNION {{h} \X (1 .. OwnTails(t, h)) : h \in Reached(EndsIn(t), g)})

\* (faulty variant: only the child just before is looked at)
PreviousCountNearest(t, g, k, previous) ==
    IF k = 1 THEN previous
    ELSE LET n == t.kids[g][k - 1] IN IF n \in Synths THEN 1 ELSE TailNodes(t, n)

\* get_previous_activation_count: of the children before the k-th, the last
\* one that has any tail; if there is none, what the group itself waits for.
PreviousCount(t, g, k, previous) ==
    LET tails(n) == IF n \in Synths THEN 1 ELSE TailNodes(t, n)
        before   == SelectLastInSeq(SubSeq(t.kids[g], 1, k - 1),
                                    LAMBDA n : tails(n) # 0)
    IN IF before = 0 THEN previous ELSE tails(t.kids[g][before])

\* The first of the consecutive synths of group g that end at position k.
RunStart(t, g, k) ==
    SelectLastInSeq(SubSeq(t.kids[g], 1, k), LAMBDA n : n \in Groups) + 1

Item(job, successors, limit) ==
    [id |-> job[1], job |-> job, succ |-> successors, limit |-> limit]

\* What fill_queue_recursive returns: the items that whatever comes before has
\* as its successors.  They are named after the synths they begin with.
FirstNode(t, g) ==
    LET first == SelectInSeq(t.kids[g], LAMBDA n : Plays(t, n))
    IN IF first = 0 THEN {} ELSE {t.kids[g][first]}
Filled(t) == [g \in Groups |-> {h \in ToSet(t.kids[g]) \cap Groups : HasSynths(t, h)}]
BeginsIn(t) ==
    [g \in Groups |-> IF g \in ParGroups THEN Filled(t)[g] ELSE FirstNode(t, g) \cap Groups]
Heads(t, n) ==
    IF n \in Synths THEN {n}
    ELSE UNION {(IF h \in ParGroups THEN ToSet(t.kids[h]) ELSE FirstNode(t, h)) \cap Synths :
                   h \in Reached(BeginsIn(t), n)}

\* The loop over a sequential group goes from the last child to the first: of
\* the children after the k-th, the first that has synths is what follows it;
\* if there is none, what follows the group itself.
Successors(t, g, k, successors) ==
    LET after == SelectInSeq(SubSeq(t.kids[g], k + 1, Len(t.kids[g])),
                             LAMBDA n : Plays(t, n))
    IN IF after = 0 THEN successors ELSE Heads(t, t.kids[g][k + after])

\* What fill_queue_recursive is called with for each group that has synths.
Arguments(t) ==
    LET args[g \in Reached(Filled(t), Root)] ==
            LET p == t.parent[g]
                k == SelectInSeq(t.kids[p], LAMBDA n : n = g)
            IN IF g = Root THEN [successors |-> {}, previous |-> 0]
               ELSE IF p \in ParGroups THEN args[p]
               ELSE [successors |-> Successors(t, p, k, args[p].successors),
                     previous   |-> PreviousCount(t, p, k, args[p].previous)]
    IN args

\* fill_queue_recursive: the items it allocates for the synths of group g.
RunEnds(t, g) ==
    {k \in DOMAIN t.kids[g] : /\ t.kids[g][k] \in Synths
                              /\ k = Len(t.kids[g]) \/ t.kids[g][k + 1] \in Groups}
ItemsOf(t, g) ==
    LET args == Arguments(t)[g]
    IN IF g \in ParGroups
       THEN {Item(<<n>>, args.successors, args.previous) : n \in ToSet(t.kids[g]) \cap Synths}
       ELSE {Item(SubSeq(t.kids[g], RunStart(t, g, k), k),
                  Successors(t, g, k, args.successors),
                  PreviousCount(t, g, RunStart(t, g, k), args.previous)) : k \in RunEnds(t, g)}

\* operator() and fill_queue
QueueOf(items, parallel) ==
    LET ids == {i.id : i \in items}
        the == [id \in ids |-> CHOOSE i \in items : i.id = id]
    IN [items    |-> ids,
        job      |-> [id \in ids |-> the[id].job],
        succ     |-> [id \in ids |-> the[id].succ],
        limit    |-> [id \in ids |-> the[id].limit],
        initial  |-> {id \in ids : the[id].limit = 0},
        parallel |-> parallel]
Generate(t) ==
    QueueOf(IF HasSynths(t, Root)
            THEN UNION {ItemsOf(t, g) : g \in Reached(Filled(t), Root)} ELSE {},
            HasParallel(t, Root))

----------------------------------------------------------------------------
\* What the queue should be, from the children alone.

\* The nodes below n, n excluded, and the synths of n.
Subgroups(t) == [g \in Groups |-> ToSet(t.kids[g]) \cap Groups]
Below(t, n) ==
    IF n \in Synths THEN {} ELSE UNION {ToSet(t.kids[g]) : g \in Reached(Subgroups(t), n)}
Under(t, n) == IF n \in Synths THEN {n} ELSE Below(t, n) \cap Synths

\* Synth a has to run before synth b: they part in a sequential group, and a is
\* on the earlier side.
Earlier(t, a, b) ==
    \E g \in SeqGroups : \E j \in DOMAIN t.kids[g] : \E i \in 1 .. j - 1 :
        a \in Under(t, t.kids[g][i]) /\ b \in Under(t, t.kids[g][j])

\* Item i is before item j in queue q.
Leads(q, i, j) ==
    \A S \in SUBSET q.items :
        q.succ[i] \subseteq S /\ (\A k \in S : q.succ[k] \subseteq S) => j \in S

\* The item synth s is part of, and synth a runs before synth b.
ItemOf(q, s) == CHOOSE i \in q.items : s \in ToSet(q.job[i])
RunsBefore(q, a, b) ==
    LET i == ItemOf(q, a)
        index(s) == SelectInSeq(q.job[i], LAMBDA n : n = s)
    IN IF b \in ToSet(q.job[i]) THEN index(a) < index(b) ELSE Leads(q, i, ItemOf(q, b))

\* Queue q runs every synth of the tree once, in the order of the tree and, as
\* far as that leaves them free, at the same time.
Realises(q, t) ==
    LET synths == Under(t, Root) IN
    /\ IsQueue(q) /\ Acyclic(q)
    /\ UNION {ToSet(q.job[i]) : i \in q.items} = synths
    /\ \A i, j \in q.items : /\ IsInjective(q.job[i])
                             /\ i # j => ToSet(q.job[i]) \cap ToSet(q.job[j]) = {}
    /\ \A a, b \in synths : a # b => (RunsBefore(q, a, b) <=> Earlier(t, a, b))

\* tail_nodes says of some group with synths that it has no tail: its last
\* child that is not empty is a group without synths.
HollowTail(t) == \E g \in Groups : HasSynths(t, g) /\ TailNodes(t, g) = 0
=============================================================================
