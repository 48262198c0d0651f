----------------------------- MODULE DspThreads -----------------------------
(***************************************************************************)
(* The threads of the parallel server that run a dsp queue once per audio  *)
(* tick: dsp_threads, dsp_thread and dsp_queue_interpreter.  Thread 0 is   *)
(* the audio callback, 1 .. ThreadCount - 1 are the helper threads, each   *)
(* woken by a semaphore of its own.  Which item is runnable is decided by  *)
(* atomic counters, one per item; the end of the tick by one more counter. *)
(* A helper may oversleep a tick and wake up, or go on polling, in a later *)
(* one.  The time-out that aborts after 50000 fruitless polls is left out. *)
(***************************************************************************)
EXTENDS DspQueue

CONSTANTS ThreadCount,   \* threads of the interpreter, the callback included
          Queues,        \* the queues the node graph may generate
          NoItem,        \* a null pointer
          MaxPosts       \* bound: wake-ups a helper may be behind

ASSUME ThreadCountAssumption == ThreadCount \in Nat \ {0}
ASSUME QueuesAssumption == \A q \in Queues : IsQueue(q)
ASSUME NoItemAssumption == \A q \in Queues : NoItem \notin q.items
ASSUME MaxPostsAssumption == MaxPosts \in Nat

Thread == 0 .. ThreadCount - 1
Helper == 1 .. ThreadCount - 1

VARIABLES
    queue,       \* dsp_queue_interpreter::queue
    node_count,  \* items not yet accounted for in this tick
    runnable,    \* runnable_set, a lock-free stack; its order is left out
    activation,  \* activation_count of every item
    toPush,      \* initially runnable items init_tick has yet to push
    sem,         \* cycle_sem of every helper
    stop,        \* dsp_thread::stop, set for all helpers
    pc,          \* where every thread is
    item,        \* the item it holds
    todo,        \* successors whose counter it has yet to decrement
    next,        \* the successor it will run itself, or NoItem
    chain,       \* the items it has run since it popped one (consumed)
    counted      \* history: items of this tick already taken off node_count

queueVars == <<queue, activation, toPush>>
wakeVars  == <<sem, stop>>
workVars  == <<item, todo, next, chain, counted>>
vars == <<node_count, runnable, pc, queueVars, wakeVars, workVars>>

\* A helper is in the kernel, between items, inside an item, or has returned.
Outside == {"asleep", "poll", "pop", "ended"}
Inside  == {"run", "deps", "sub"}

\* The items that have run in this tick.
Done == counted \cup UNION {chain[t] : t \in Thread}

----------------------------------------------------------------------------
Init ==
    /\ queue = EmptyQueue
    /\ node_count = 0
    /\ runnable = {}
    /\ activation = EmptyQueue.limit
    /\ toPush = {}
    /\ sem = [h \in Helper |-> 0]
    /\ stop = FALSE
    /\ pc = [t \in Thread |-> IF t = 0 THEN "idle" ELSE "asleep"]
    /\ item = [t \in Thread |-> NoItem]
    /\ todo = [t \in Thread |-> {}]
    /\ next = [t \in Thread |-> NoItem]
    /\ chain = [t \in Thread |-> {}]
    /\ counted = {}

\* rebuild_dsp_queue at the start of a tick whose node graph has changed: the
\* old queue is destroyed, whatever the helpers are doing.
ResetQueue(q) ==
    /\ pc[0] = "idle" /\ ~stop
    /\ queue' = q
    /\ activation' = q.limit
    /\ UNCHANGED <<node_count, runnable, toPush, pc, wakeVars, workVars>>

\* init_tick; with an empty queue the tick is over at once.
InitTick ==
    /\ pc[0] = "idle" /\ ~stop
    /\ queue.items # {}
    /\ \A h \in Helper : sem[h] < MaxPosts
    /\ node_count' = Cardinality(queue.items)
    /\ toPush' = queue.initial
    /\ pc' = [pc EXCEPT ![0] = "push"]
    /\ counted' = {}
    /\ UNCHANGED <<queue, runnable, activation, wakeVars, item, todo, next, chain>>

PushInitial(i) ==
    /\ pc[0] = "push" /\ i \in toPush
    /\ toPush' = toPush \ {i}
    /\ runnable' = runnable \cup {i}
    /\ UNCHANGED <<node_count, queue, activation, pc, wakeVars, workVars>>

\* used_helper_threads, computed by reset_queue: no more threads than items,
\* and none without a parallel group.
Used == IF queue.parallel
        THEN {h \in Helper : h < Cardinality(queue.items)}
        ELSE {}

\* wake_threads.  The posts go to different semaphores, so one step for all of
\* them hides nothing: a helper posted late is one that gets up late.
WakeThreads ==
    /\ pc[0] = "push" /\ toPush = {}
    /\ sem' = [h \in Helper |-> IF h \in Used THEN sem[h] + 1 ELSE sem[h]]
    /\ pc' = [pc EXCEPT ![0] = "poll"]
    /\ UNCHANGED <<node_count, runnable, queueVars, stop, workVars>>

\* dsp_thread::run
GetUp(h) ==
    /\ pc[h] = "asleep" /\ sem[h] > 0
    /\ sem' = [sem EXCEPT ![h] = @ - 1]
    /\ pc' = [pc EXCEPT ![h] = IF stop THEN "ended" ELSE "poll"]
    /\ UNCHANGED <<node_count, runnable, queueVars, stop, workVars>>

\* Where a thread goes when run_item returns: a helper back to its semaphore,
\* the callback on to wait_for_end.
Returned(t) == IF t = 0 THEN "wait" ELSE "asleep"

\* run_item: load node_count
Poll(t) ==
    /\ pc[t] = "poll"
    /\ pc' = [pc EXCEPT ![t] = IF node_count = 0 THEN Returned(t) ELSE "pop"]
    /\ UNCHANGED <<node_count, runnable, queueVars, wakeVars, workVars>>

\* run_next_item: the pop, which may find the stack empty ...
PopNothing(t) ==
    /\ pc[t] = "pop" /\ runnable = {}
    /\ pc' = [pc EXCEPT ![t] = "poll"]
    /\ UNCHANGED <<node_count, runnable, queueVars, wakeVars, workVars>>

\* ... or an item, which is then run
Pop(t, i) ==
    /\ pc[t] = "pop" /\ i \in runnable
    /\ runnable' = runnable \ {i}
    /\ item' = [item EXCEPT ![t] = i]
    /\ pc' = [pc EXCEPT ![t] = "run"]
    /\ UNCHANGED <<node_count, queueVars, wakeVars, todo, next, chain, counted>>

\* The job, the synths of the item, has been performed.
FinishJob(t) ==
    /\ pc[t] = "run"
    /\ chain' = [chain EXCEPT ![t] = @ \cup {item[t]}]
    /\ todo' = [todo EXCEPT ![t] = queue.succ[item[t]]]
    /\ pc' = [pc EXCEPT ![t] = "deps"]
    /\ UNCHANGED <<node_count, runnable, queueVars, wakeVars, item, next, counted>>

\* (faulty variant: the test of the counter is off by one)
DecrementEarly(t, s) ==
    LET last == activation[s] <= 2 /\ s \notin runnable IN
    /\ pc[t] = "deps" /\ s \in todo[t]
    /\ todo' = [todo EXCEPT ![t] = @ \ {s}]
    /\ activation' = [activation EXCEPT ![s] = @ - 1]
    /\ next' = IF last /\ next[t] = NoItem THEN [next EXCEPT ![t] = s] ELSE next
    /\ runnable' = IF last /\ next[t] # NoItem THEN runnable \cup {s} ELSE runnable
    /\ UNCHANGED <<node_count, queue, toPush, pc, wakeVars, item, chain, counted>>

\* (faulty variant: only the successor that is kept is run)
DecrementUnpushed(t, s) ==
    LET last == activation[s] = 1 IN
    /\ pc[t] = "deps" /\ s \in todo[t]
    /\ todo' = [todo EXCEPT ![t] = @ \ {s}]
    /\ activation' = [activation EXCEPT ![s] = @ - 1]
    /\ next' = IF last /\ next[t] = NoItem THEN [next EXCEPT ![t] = s] ELSE next
    /\ UNCHANGED <<node_count, runnable, queue, toPush, pc, wakeVars, item, chain, counted>>

\* update_dependencies: decrement one successor's counter.  The first one to
\* reach zero is kept to be run next, the others are pushed (nobody else can
\* reach a successor between the decrement and the push).
Decrement(t, s) ==
    LET last == activation[s] = 1 IN
    /\ pc[t] = "deps" /\ s \in todo[t]
    /\ todo' = [todo EXCEPT ![t] = @ \ {s}]
    /\ activation' = [activation EXCEPT ![s] = @ - 1]
    /\ next' = IF last /\ next[t] = NoItem THEN [next EXCEPT ![t] = s] ELSE next
    /\ runnable' = IF last /\ next[t] # NoItem THEN runnable \cup {s} ELSE runnable
    /\ UNCHANGED <<node_count, queue, toPush, pc, wakeVars, item, chain, counted>>

\* (faulty variant: the counter is not reset for the next tick)
ContinueUnreset(t) ==
    /\ pc[t] = "deps" /\ todo[t] = {}
    /\ item' = [item EXCEPT ![t] = next[t]]
    /\ next' = [next EXCEPT ![t] = NoItem]
    /\ pc' = [pc EXCEPT ![t] = IF next[t] = NoItem THEN "sub" ELSE "run"]
    /\ UNCHANGED <<node_count, runnable, queueVars, wakeVars, todo, chain, counted>>

\* reset_activation_count for the next tick, then on to the next item of the chain
Continue(t) ==
    /\ pc[t] = "deps" /\ todo[t] = {}
    /\ activation' = [activation EXCEPT ![item[t]] = queue.limit[item[t]]]
    /\ item' = [item EXCEPT ![t] = next[t]]
    /\ next' = [next EXCEPT ![t] = NoItem]
    /\ pc' = [pc EXCEPT ![t] = IF next[t] = NoItem THEN "sub" ELSE "run"]
    /\ UNCHANGED <<node_count, runnable, queue, toPush, wakeVars, todo, chain, counted>>

\* the end of run_next_item: the whole chain is taken off at once
Account(t) ==
    LET consumed == Cardinality(chain[t]) IN
    /\ pc[t] = "sub"
    /\ node_count' = node_count - consumed
    /\ counted' = counted \cup chain[t]
    /\ chain' = [chain EXCEPT ![t] = {}]
    /\ pc' = [pc EXCEPT ![t] = IF node_count = consumed THEN Returned(t) ELSE "poll"]
    /\ UNCHANGED <<runnable, queueVars, wakeVars, item, todo, next>>

\* wait_for_end, and the tick is over
EndTick ==
    /\ pc[0] = "wait" /\ node_count = 0
    /\ pc' = [pc EXCEPT ![0] = "idle"]
    /\ UNCHANGED <<node_count, runnable, queueVars, wakeVars, workVars>>

\* (faulty variant: the helpers are not woken to see stop)
TerminateUnposted ==
    /\ pc[0] = "idle" /\ ~stop
    /\ stop' = TRUE
    /\ UNCHANGED <<node_count, runnable, pc, queueVars, sem, workVars>>

\* terminate_threads, "audio backend must be closed by now"
Terminate ==
    /\ pc[0] = "idle" /\ ~stop
    /\ stop' = TRUE
    /\ sem' = [h \in Helper |-> sem[h] + 1]
    /\ UNCHANGED <<node_count, runnable, pc, queueVars, workVars>>

\* join_all has returned: nothing happens any more.
Joined ==
    /\ stop /\ \A h \in Helper : pc[h] = "ended"
    /\ UNCHANGED vars

Work(t) ==
    \/ Poll(t)
    \/ PopNothing(t)
    \/ \E i \in runnable : Pop(t, i)
    \/ FinishJob(t)
    \/ \E s \in todo[t] : Decrement(t, s)
    \/ Continue(t)
    \/ Account(t)

Tick ==
    \/ \E i \in toPush : PushInitial(i)
    \/ WakeThreads
    \/ EndTick

Next ==
    \/ \E q \in Queues : ResetQueue(q)
    \/ InitTick
    \/ Tick
    \/ \E h \in Helper : GetUp(h)
    \/ \E t \in Thread : Work(t)
    \/ Terminate
    \/ Joined

\* Every thread that can run is scheduled sooner or later; nothing makes the
\* audio driver call again or the server end.
Fairness ==
    /\ WF_vars(Tick)
    /\ \A t \in Thread : WF_vars(Work(t))
    /\ \A h \in Helper : WF_vars(GetUp(h))

Spec == Init /\ [][Next]_vars /\ Fairness

----------------------------------------------------------------------------
TypeOK ==
    /\ queue \in Queues \cup {EmptyQueue}
    /\ node_count \in Nat
    /\ runnable \subseteq queue.items
    /\ activation \in [queue.items -> Nat]
    /\ toPush \subseteq queue.items
    /\ sem \in [Helper -> Nat]
    /\ stop \in BOOLEAN
    /\ pc \in [Thread -> Outside \cup Inside \cup {"idle", "push", "wait"}]
    /\ pc[0] \notin {"asleep", "ended"}
    /\ \A h \in Helper : pc[h] \in Outside \cup Inside
    /\ item \in [Thread -> (UNION {q.items : q \in Queues}) \cup {NoItem}]
    /\ todo \in [Thread -> SUBSET queue.items]
    /\ next \in [Thread -> queue.items \cup {NoItem}]
    /\ chain \in [Thread -> SUBSET queue.items]
    /\ counted \subseteq UNION {q.items : q \in Queues}

\* An item runs only when every item it waits for has run in this very tick,
\* it has not run before in this tick, and no other thread runs it: the synths
\* of a sequential group see their buses written by the ones before them,
\* whichever threads run them.  (Then no counter is decremented below zero,
\* the assertion of dec_activation_count.)
RunsInOrder ==
    /\ TypeOK
    /\ \A t \in Thread :
         /\ pc[t] = "run" =>
              /\ Preds(queue, item[t]) \subseteq Done
              /\ item[t] \notin Done
              /\ \A u \in Thread \ {t} : pc[u] = "run" => item[u] # item[t]
         /\ pc[t] = "deps" => \A s \in todo[t] : activation[s] > 0

\* A tick ends clean: when the callback sees the count at zero every item has
\* been run, and between two ticks the stack is empty, the counters are as
\* reset_queue set them (the assertions of init_tick and
\* reset_activation_count), and no helper is inside an item, so that
\* rebuild_dsp_queue may destroy the queue without asking the helpers.
TicksEndClean ==
    /\ pc[0] = "wait" /\ node_count = 0 => counted = queue.items
    /\ pc[0] = "idle" =>
         /\ node_count = 0 /\ runnable = {} /\ toPush = {}
         /\ activation = queue.limit
         /\ \A h \in Helper : pc[h] \in Outside

\* Every tick the callback has begun ends, although the callback waits, without
\* a time-out the model has, for items that helpers hold.
TickEnds == pc[0] # "idle" ~> pc[0] = "idle"

\* terminate_threads returns: every helper sees stop, the ones with wake-ups
\* left over from earlier ticks too.
HelpersJoin == stop ~> \A h \in Helper : pc[h] = "ended"
=============================================================================
