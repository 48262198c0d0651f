---------------------------- MODULE MCDspThreads ----------------------------
EXTENDS DspThreads, Sequences

\* Queues are what the generator makes of some trees of four synths.
MCSynths == {"a", "b", "c", "d"}

Graph == INSTANCE DependencyGraph WITH
    Synths <- MCSynths, SeqGroups <- {"root"}, ParGroups <- {"p", "q"}, Root <- "root"

QueueOf(root, p, q) ==
    Graph!Generate(
        [kids   |-> [root |-> root, p |-> p, q |-> q],
         parent |-> [n \in MCSynths \cup {"p", "q"} |->
                        IF \E i \in DOMAIN p : p[i] = n THEN "p"
                        ELSE IF \E i \in DOMAIN q : q[i] = n THEN "q" ELSE "root"],
         nsyn   |-> [root |-> Cardinality({n \in 1 .. Len(root) : root[n] \in MCSynths}),
                     p |-> Len(p), q |-> Len(q)],
         groups |-> [root |-> {"p", "q"} \cap {root[n] : n \in 1 .. Len(root)},
                     p |-> {}, q |-> {}]])

\* Synths after one another; between two synths a parallel group; a parallel
\* group after a parallel group.
MCQueues ==
    {QueueOf(<<"a", "b", "c", "d">>, <<>>, <<>>),
     QueueOf(<<"a", "p", "d">>, <<"b", "c">>, <<>>),
     QueueOf(<<"p", "q">>, <<"a", "b">>, <<"c", "d">>)}

ASSUME MCAcyclic == \A q \in MCQueues : Acyclic(q)
=============================================================================
