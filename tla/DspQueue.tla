------------------------------ MODULE DspQueue ------------------------------
(***************************************************************************)
(* The dsp queue of the parallel server (supernova): the items that one    *)
(* audio tick runs, each with the items that wait for it and the number of *)
(* items it waits for.  The order of a successor list is left out: nothing *)
(* but the choice of the item a thread continues with depends on it.       *)
(***************************************************************************)
EXTENDS Integers, FiniteSets

\* The items that must have run before item i (queue_item::successors read
\* backwards).
Preds(q, i) == {p \in q.items : i \in q.succ[p]}

\* What the interpreter relies on and never checks: an activation limit is the
\* number of predecessors, and the initially runnable items are exactly the
\* ones without a predecessor.
IsQueue(q) ==
    /\ IsFiniteSet(q.items)
    /\ q.succ \in [q.items -> SUBSET q.items]
    /\ q.limit = [i \in q.items |-> Cardinality(Preds(q, i))]
    /\ q.initial = {i \in q.items : q.limit[i] = 0}
    /\ q.parallel \in BOOLEAN

\* No set of items waits for itself.
Acyclic(q) ==
    \A S \in SUBSET q.items : S # {} => \E i \in S : Preds(q, i) \cap S = {}

NoItems == {}
EmptyQueue == [items |-> NoItems, succ |-> [i \in NoItems |-> {}],
               limit |-> [i \in NoItems |-> 0], initial |-> {}, parallel |-> FALSE]
=============================================================================
