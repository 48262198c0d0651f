--------------------------- MODULE ParallelProofs ---------------------------
(***************************************************************************)
(* Proofs about the parallel server.  First DspThreads, for every number   *)
(* of threads and every set of dsp queues: types, the order in which items *)
(* run, and that a tick ends clean.  The argument counts, for every item,  *)
(* the predecessors that have yet to report to it: its activation count is *)
(* their number.                                                           *)
(* Then NodeGraph, for any finite set of nodes: the lists and counters     *)
(* agree with the parents, a change of the order has the queue generated   *)
(* anew, and no freed node is used.  The argument takes the parents as the *)
(* tree; what is below a node is the least set closed under "child of".    *)
(***************************************************************************)
EXTENDS DspThreads, NodeGraph, TLAPS, FiniteSetTheorems, SequenceTheorems,
        WellFoundedInduction

(* Some thread has run p and has not told its successor i yet.             *)
Owes(p, i) == \E t \in Thread : pc[t] = "deps" /\ item[t] = p /\ i \in todo[t]

(* The items that i still waits for.                                       *)
Pending(i) == {p \in Preds(queue, i) : p \notin Done \/ Owes(p, i)}

(* The counter of i has been set for the next tick.                        *)
WasReset(i) == i \in Done /\ \A t \in Thread : ~(pc[t] = "deps" /\ item[t] = i)

(* Thread t has i: it ran it, runs it or has kept it to run next.          *)
Holds(t, i) == \/ i \in chain[t]
               \/ pc[t] = "run" /\ item[t] = i
               \/ next[t] = i

(* What a thread has, by the place it is at.                               *)
Shape ==
    \A t \in Thread :
      /\ pc[t] \notin Inside => chain[t] = {} /\ next[t] = NoItem /\ todo[t] = {}
      /\ pc[t] = "run" => todo[t] = {} /\ next[t] = NoItem /\ item[t] \in queue.items
      /\ pc[t] = "deps" => item[t] \in chain[t] /\ todo[t] \subseteq queue.succ[item[t]]
      /\ pc[t] = "sub" => chain[t] # {} /\ todo[t] = {} /\ next[t] = NoItem

(* Every item is in one place at most.                                     *)
Apart ==
    /\ \A i \in queue.items : \A t, u \in Thread : Holds(t, i) /\ Holds(u, i) => t = u
    /\ \A t \in Thread : /\ pc[t] = "run" => item[t] \notin chain[t]
                         /\ next[t] \notin chain[t]
    /\ \A i \in queue.items : \A t \in Thread :
         Holds(t, i) => i \notin toPush /\ i \notin runnable /\ i \notin counted
    /\ \A i \in queue.items : /\ ~(i \in toPush /\ i \in runnable)
                              /\ ~(i \in toPush /\ i \in counted)
                              /\ ~(i \in runnable /\ i \in counted)

(* What is in some place waits for nothing any more.                       *)
Ready ==
    /\ \A i \in toPush \cup runnable \cup counted : Pending(i) = {}
    /\ \A i \in queue.items : \A t \in Thread : Holds(t, i) => Pending(i) = {}

(* The counters, from the start of a tick to its end.                      *)
Counts ==
    /\ counted \subseteq queue.items
    /\ node_count = Cardinality(queue.items \ counted)
    /\ \A i \in queue.items :
         activation[i] = IF WasReset(i) THEN queue.limit[i] ELSE Cardinality(Pending(i))

(* Between two ticks.                                                      *)
Clean ==
    /\ node_count = 0 /\ runnable = {} /\ toPush = {}
    /\ activation = queue.limit
    /\ \A h \in Helper : pc[h] \in Outside

IInv ==
    /\ TypeOK /\ Shape
    /\ pc[0] = "idle" => Clean
    /\ pc[0] # "idle" => Apart /\ Ready /\ Counts
    /\ pc[0] # "push" => toPush = {}

-----------------------------------------------------------------------------
(* Threads are numbered from 0, which is the audio callback.               *)
LEMMA ThreadFacts == /\ Thread = Helper \cup {0} /\ 0 \notin Helper
                     /\ 0 \in Thread /\ \A h \in Helper : h \in Thread
  BY ThreadCountAssumption DEF Thread, Helper

(* Before the first reset_queue there is no item.                          *)
LEMMA NoItemsFacts == /\ \A i : i \notin NoItems
                      /\ IsFiniteSet(NoItems) /\ Cardinality(NoItems) = 0
  BY FS_EmptySet DEF NoItems

LEMMA EmptyIsQueue == IsQueue(EmptyQueue)
  <1>1. /\ EmptyQueue.items = NoItems /\ EmptyQueue.initial = {} /\ EmptyQueue.parallel = FALSE
        /\ EmptyQueue.succ = [i \in NoItems |-> {}] /\ EmptyQueue.limit = [i \in NoItems |-> 0]
    BY DEF EmptyQueue
  <1>2. EmptyQueue.succ \in [NoItems -> SUBSET NoItems]
    BY <1>1, NoItemsFacts
  <1>3. EmptyQueue.limit = [i \in NoItems |-> Cardinality(Preds(EmptyQueue, i))]
    BY <1>1, NoItemsFacts
  <1>4. EmptyQueue.initial = {i \in NoItems : EmptyQueue.limit[i] = 0}
    BY <1>1, NoItemsFacts
  <1> QED BY <1>1, <1>2, <1>3, <1>4, NoItemsFacts DEF IsQueue

(* The facts about the queue in use that the steps need.                   *)
LEMMA QueueFacts ==
  ASSUME TypeOK
  PROVE  /\ IsFiniteSet(queue.items) /\ NoItem \notin queue.items
         /\ queue.succ \in [queue.items -> SUBSET queue.items]
         /\ queue.limit = [i \in queue.items |-> Cardinality(Preds(queue, i))]
         /\ queue.initial = {i \in queue.items : queue.limit[i] = 0}
         /\ \A i \in queue.items : IsFiniteSet(Preds(queue, i)) /\ Preds(queue, i) \subseteq queue.items
  <1>1. IsQueue(queue)
    BY EmptyIsQueue, QueuesAssumption DEF TypeOK
  <1>2. NoItem \notin queue.items
    BY NoItemAssumption, NoItemsFacts DEF TypeOK, EmptyQueue
  <1>3. \A i \in queue.items : IsFiniteSet(Preds(queue, i)) /\ Preds(queue, i) \subseteq queue.items
    BY <1>1, FS_Subset DEF IsQueue, Preds
  <1> QED BY <1>1, <1>2, <1>3 DEF IsQueue

(* An item of the queue in use is one the generator made.                  *)
LEMMA ItemsKnown ==
  ASSUME TypeOK, NEW i \in queue.items
  PROVE  i \in UNION {q.items : q \in Queues}
  <1>1. queue \in Queues
    BY NoItemsFacts DEF TypeOK, EmptyQueue
  <1> QED BY <1>1

(* The items that have run are those that are counted and those in chains. *)
LEMMA DoneFacts == \A i : i \in Done <=> i \in counted \/ \E t \in Thread : i \in chain[t]
  BY DEF Done

(* Nothing pending, as a number.                                           *)
LEMMA PendingFacts ==
  ASSUME TypeOK, NEW i \in queue.items
  PROVE  /\ IsFiniteSet(Pending(i)) /\ Cardinality(Pending(i)) \in Nat
         /\ Cardinality(Pending(i)) = 0 <=> Pending(i) = {}
         /\ \A p \in Pending(i) : Cardinality(Pending(i) \ {p}) = Cardinality(Pending(i)) - 1
  <1>1. IsFiniteSet(Pending(i))
    BY QueueFacts, FS_Subset DEF Pending
  <1> QED BY <1>1, FS_CardinalityType, FS_EmptySet, FS_RemoveElement

-----------------------------------------------------------------------------
LEMMA InitInv == Init => IInv
  <1> SUFFICES ASSUME Init PROVE IInv
    OBVIOUS
  <1>1. /\ queue = EmptyQueue /\ queue.items = NoItems /\ activation = queue.limit
        /\ queue.limit = [i \in NoItems |-> 0]
    BY DEF Init, EmptyQueue
  <1>2. TypeOK
    <2>1. activation \in [queue.items -> Nat]
      BY <1>1, NoItemsFacts
    <2>2. /\ pc \in [Thread -> Outside \cup Inside \cup {"idle", "push", "wait"}]
          /\ pc[0] \notin {"asleep", "ended"}
          /\ \A h \in Helper : pc[h] \in Outside \cup Inside
      BY ThreadFacts DEF Init, Outside
    <2>3. /\ runnable \subseteq queue.items /\ toPush \subseteq queue.items
          /\ counted \subseteq UNION {q.items : q \in Queues}
          /\ sem \in [Helper -> Nat] /\ node_count \in Nat /\ stop \in BOOLEAN
          /\ item \in [Thread -> (UNION {q.items : q \in Queues}) \cup {NoItem}]
          /\ todo \in [Thread -> SUBSET queue.items]
          /\ next \in [Thread -> queue.items \cup {NoItem}]
          /\ chain \in [Thread -> SUBSET queue.items]
      BY DEF Init
    <2> QED BY <1>1, <2>1, <2>2, <2>3 DEF TypeOK
  <1>3. Shape
    BY DEF Init, Shape, Inside
  <1>4. pc[0] = "idle" /\ Clean
    BY <1>1, ThreadFacts DEF Init, Clean, Outside
  <1> QED BY <1>2, <1>3, <1>4 DEF IInv, Clean

(* A step that leaves the items where they are, and the threads in the     *)
(* same place within an item, keeps the tick's invariants.                 *)
LEMMA QuietTick ==
  ASSUME TypeOK, Apart, Ready, Counts,
         UNCHANGED <<queue, runnable, activation, toPush, item, todo, next, chain, counted, node_count>>,
         \A t \in Thread : /\ pc'[t] = "run" <=> pc[t] = "run"
                           /\ pc'[t] = "deps" <=> pc[t] = "deps"
  PROVE  Apart' /\ Ready' /\ Counts'
  <1>1. Done' = Done
    BY DEF Done
  <1>2. \A i : \A t \in Thread : Holds(t, i)' <=> Holds(t, i)
    BY DEF Holds
  <1>3. \A i : Pending(i)' = Pending(i)
    BY <1>1 DEF Pending, Owes
  <1>4. \A i : WasReset(i)' <=> WasReset(i)
    BY <1>1 DEF WasReset
  <1>5. Apart'
    BY <1>2 DEF Apart, Holds
  <1>6. Ready'
    BY <1>2, <1>3 DEF Ready, Holds
  <1>7. Counts'
    BY <1>3, <1>4 DEF Counts
  <1> QED BY <1>5, <1>6, <1>7

(* Helpers that get up, poll or find the stack empty, wake_threads and the *)
(* end of the server move nothing.                                         *)
LEMMA QuietInv ==
  ASSUME IInv,
         UNCHANGED <<queue, runnable, activation, toPush, item, todo, next, chain, counted, node_count>>,
         pc[0] = "idle" <=> pc'[0] = "idle",
         pc'[0] # "push" => toPush = {},
         pc' \in [Thread -> Outside \cup Inside \cup {"idle", "push", "wait"}],
         sem' \in [Helper -> Nat], stop' \in BOOLEAN,
         pc'[0] \notin {"asleep", "ended"},
         \A t \in Thread : pc'[t] = pc[t] \/ (pc[t] \notin Inside /\ pc'[t] \notin Inside),
         \A h \in Helper : pc'[h] = pc[h] \/ pc'[h] \in Outside
  PROVE  IInv'
  <1>1. TypeOK'
    BY DEF IInv, TypeOK
  <1>2. Shape'
    <2>1. \A t \in Thread : pc[t] \in Inside => pc'[t] = pc[t]
      OBVIOUS
    <2>2. \A t \in Thread : pc'[t] \in Inside => pc[t] \in Inside
      OBVIOUS
    <2>3. {"run", "deps", "sub"} = Inside
      BY DEF Inside
    <2> QED BY <2>1, <2>2, <2>3 DEF IInv, Shape
  <1>3. \A t \in Thread : /\ pc'[t] = "run" <=> pc[t] = "run"
                          /\ pc'[t] = "deps" <=> pc[t] = "deps"
    BY DEF Inside
  <1>4. pc[0] # "idle" => Apart' /\ Ready' /\ Counts'
    BY <1>3, QuietTick DEF IInv
  <1>5. pc[0] = "idle" => Clean'
    BY DEF IInv, Clean
  <1> QED BY <1>1, <1>2, <1>4, <1>5 DEF IInv

LEMMA GetUpInv ==
  ASSUME IInv, NEW h \in Helper, GetUp(h)
  PROVE  IInv'
  <1>1. /\ UNCHANGED <<queue, runnable, activation, toPush, item, todo, next, chain, counted, node_count>>
        /\ pc[h] = "asleep" /\ sem[h] > 0
        /\ sem' = [sem EXCEPT ![h] = @ - 1] /\ stop' = stop
        /\ pc' = [pc EXCEPT ![h] = IF stop THEN "ended" ELSE "poll"]
    BY DEF GetUp, queueVars, workVars
  <1>2. pc \in [Thread -> Outside \cup Inside \cup {"idle", "push", "wait"}] /\ sem \in [Helper -> Nat]
        /\ pc[0] \notin {"asleep", "ended"} /\ stop \in BOOLEAN
    BY DEF IInv, TypeOK
  <1>3. /\ pc'[h] \in {"ended", "poll"} /\ h # 0 /\ h \in Thread
        /\ \A t \in Thread : t # h => pc'[t] = pc[t]
        /\ pc' \in [Thread -> Outside \cup Inside \cup {"idle", "push", "wait"}]
    BY <1>1, <1>2, ThreadFacts DEF Outside
  <1>4. sem' \in [Helper -> Nat]
    BY <1>1, <1>2
  <1>5. /\ \A t \in Thread : pc'[t] = pc[t] \/ (pc[t] \notin Inside /\ pc'[t] \notin Inside)
        /\ \A g \in Helper : pc'[g] = pc[g] \/ pc'[g] \in Outside
        /\ pc'[0] = pc[0]
    BY <1>1, <1>3, ThreadFacts DEF Inside, Outside
  <1>6. pc'[0] # "push" => toPush = {}
    BY <1>5 DEF IInv
  <1> QED BY <1>1, <1>2, <1>3, <1>4, <1>5, <1>6, QuietInv

(* What the steps of thread t that only move its place have in common.     *)
LEMMA MoveInv ==
  ASSUME IInv, NEW t \in Thread, NEW to \in Outside \cup {"wait"},
         UNCHANGED <<queue, runnable, activation, toPush, item, todo, next, chain, counted, node_count>>,
         pc' = [pc EXCEPT ![t] = to], pc[t] \in {"poll", "pop"} \/ (pc[t] = "push" /\ toPush = {}),
         sem' \in [Helper -> Nat], stop' = stop,
         to = "wait" => t = 0, to \in {"asleep", "ended"} => t # 0
  PROVE  IInv'
  <1>1. pc \in [Thread -> Outside \cup Inside \cup {"idle", "push", "wait"}]
        /\ pc[0] \notin {"asleep", "ended"} /\ stop \in BOOLEAN
    BY DEF IInv, TypeOK
  <1>2. /\ pc'[t] = to /\ \A u \in Thread : u # t => pc'[u] = pc[u]
        /\ pc' \in [Thread -> Outside \cup Inside \cup {"idle", "push", "wait"}]
    BY <1>1
  <1>3. /\ \A u \in Thread : pc'[u] = pc[u] \/ (pc[u] \notin Inside /\ pc'[u] \notin Inside)
        /\ \A g \in Helper : pc'[g] = pc[g] \/ pc'[g] \in Outside
    BY <1>2, ThreadFacts DEF Inside, Outside
  <1>4. /\ pc[0] = "idle" <=> pc'[0] = "idle"
        /\ pc'[0] \notin {"asleep", "ended"}
        /\ pc'[0] # "push" => toPush = {}
    BY <1>1, <1>2, ThreadFacts DEF IInv, Outside
  <1> QED BY <1>1, <1>2, <1>3, <1>4, QuietInv

LEMMA PollInv ==
  ASSUME IInv, NEW t \in Thread, Poll(t)
  PROVE  IInv'
  <1>1. sem \in [Helper -> Nat]
    BY DEF IInv, TypeOK
  <1>2. CASE node_count = 0
    BY <1>1, <1>2, MoveInv DEF Poll, Returned, Outside, queueVars, wakeVars, workVars
  <1>3. CASE node_count # 0
    BY <1>1, <1>3, MoveInv DEF Poll, Outside, queueVars, wakeVars, workVars
  <1> QED BY <1>2, <1>3

LEMMA PopNothingInv ==
  ASSUME IInv, NEW t \in Thread, PopNothing(t)
  PROVE  IInv'
  <1>1. sem \in [Helper -> Nat]
    BY DEF IInv, TypeOK
  <1> QED BY <1>1, MoveInv DEF PopNothing, Outside, queueVars, wakeVars, workVars

LEMMA WakeThreadsInv ==
  ASSUME IInv, WakeThreads
  PROVE  IInv'
  <1>1. sem' \in [Helper -> Nat]
    BY DEF IInv, TypeOK, WakeThreads
  <1> QED BY <1>1, ThreadFacts, MoveInv DEF WakeThreads, Outside, queueVars, workVars

LEMMA TerminateInv ==
  ASSUME IInv, Terminate
  PROVE  IInv'
  <1>1. sem' \in [Helper -> Nat]
    BY DEF IInv, TypeOK, Terminate
  <1> QED BY <1>1, QuietInv DEF Terminate, IInv, TypeOK, queueVars, workVars

-----------------------------------------------------------------------------
(* Between two ticks no thread is inside an item.                          *)
LEMMA CleanFacts ==
  ASSUME IInv, pc[0] = "idle"
  PROVE  \A t \in Thread : /\ pc[t] \notin Inside /\ chain[t] = {}
                           /\ next[t] = NoItem /\ todo[t] = {}
  BY ThreadFacts DEF IInv, Clean, Shape, Inside, Outside

LEMMA ResetQueueInv ==
  ASSUME IInv, NEW q \in Queues, ResetQueue(q)
  PROVE  IInv'
  <1>1. /\ pc[0] = "idle" /\ queue' = q /\ activation' = q.limit
        /\ UNCHANGED <<node_count, runnable, toPush, pc, sem, stop, item, todo, next, chain, counted>>
    BY DEF ResetQueue, wakeVars, workVars
  <1>2. q.limit \in [q.items -> Nat]
    <2>1. IsQueue(q)
      BY QueuesAssumption
    <2>2. \A i \in q.items : Cardinality(Preds(q, i)) \in Nat
      BY <2>1, FS_Subset, FS_CardinalityType DEF IsQueue, Preds
    <2> QED BY <2>1, <2>2 DEF IsQueue
  <1>3. runnable = {} /\ toPush = {}
    BY <1>1 DEF IInv, Clean
  <1>4. /\ todo' \in [Thread -> SUBSET q.items]
        /\ next' \in [Thread -> q.items \cup {NoItem}]
        /\ chain' \in [Thread -> SUBSET q.items]
    BY <1>1, CleanFacts DEF IInv, TypeOK
  <1>5. TypeOK'
    BY <1>1, <1>2, <1>3, <1>4 DEF IInv, TypeOK
  <1>6. Shape'
    BY <1>1, CleanFacts DEF Shape, Inside
  <1> QED BY <1>1, <1>5, <1>6 DEF IInv, Clean

LEMMA InitTickInv ==
  ASSUME IInv, InitTick
  PROVE  IInv'
  <1>1. /\ pc[0] = "idle" /\ node_count' = Cardinality(queue.items) /\ toPush' = queue.initial
        /\ pc' = [pc EXCEPT ![0] = "push"] /\ counted' = {}
        /\ UNCHANGED <<queue, runnable, activation, sem, stop, item, todo, next, chain>>
    BY DEF InitTick, wakeVars
  <1>2. runnable = {} /\ activation = queue.limit
    BY <1>1 DEF IInv, Clean
  <1>3. /\ pc' \in [Thread -> Outside \cup Inside \cup {"idle", "push", "wait"}]
        /\ pc'[0] = "push" /\ \A t \in Thread : t # 0 => pc'[t] = pc[t]
        /\ \A t \in Thread : pc'[t] \notin Inside
    BY <1>1, CleanFacts, ThreadFacts DEF IInv, TypeOK, Inside
  <1>4. \A i \in queue.items : ~WasReset(i)' /\ Pending(i)' = Preds(queue, i)
    <2>1. \A i : i \notin Done'
      BY <1>1, CleanFacts DEF Done
    <2> QED BY <1>1, <2>1 DEF WasReset, Pending
  <1>5. \A i \in queue.items : \A t \in Thread : ~Holds(t, i)'
    BY <1>1, <1>3, CleanFacts, QueueFacts DEF Holds, IInv, Inside
  <1>6. \A i \in queue.initial : i \in queue.items /\ Preds(queue, i) = {}
    <2> TAKE i \in queue.initial
    <2>1. i \in queue.items /\ Cardinality(Preds(queue, i)) = 0
      BY QueueFacts DEF IInv
    <2> QED BY <2>1, QueueFacts, FS_EmptySet DEF IInv
  <1>7. TypeOK'
    <2>1. Cardinality(queue.items) \in Nat /\ queue.initial \subseteq queue.items
      BY QueueFacts, FS_CardinalityType DEF IInv
    <2> QED BY <1>1, <1>3, <2>1, ThreadFacts DEF IInv, TypeOK
  <1>8. Shape'
    BY <1>1, <1>3, CleanFacts DEF Shape, Inside
  <1>9. Apart'
    BY <1>1, <1>2, <1>3, <1>5, CleanFacts DEF Apart, Inside
  <1>10. Ready'
    BY <1>1, <1>2, <1>4, <1>5, <1>6 DEF Ready
  <1>11. Counts'
    <2>1. queue.items \ {} = queue.items
      OBVIOUS
    <2> QED BY <1>1, <1>2, <1>4, <2>1, QueueFacts DEF Counts, IInv
  <1> QED BY <1>3, <1>7, <1>8, <1>9, <1>10, <1>11 DEF IInv

-----------------------------------------------------------------------------
(* The steps within a tick.                                                *)

(* Nobody works when there is no tick.                                     *)
LEMMA InTick ==
  ASSUME IInv, \/ pc[0] = "push"
               \/ runnable # {}
               \/ \E t \in Thread : pc[t] \in Inside
  PROVE  /\ pc[0] # "idle" /\ Apart /\ Ready /\ Counts /\ Shape /\ TypeOK
  BY CleanFacts DEF IInv, Clean

LEMMA PushInitialInv ==
  ASSUME IInv, NEW i \in toPush, PushInitial(i)
  PROVE  IInv'
  <1>1. /\ pc[0] = "push" /\ toPush' = toPush \ {i} /\ runnable' = runnable \cup {i}
        /\ UNCHANGED <<node_count, queue, activation, pc, sem, stop, item, todo, next, chain, counted>>
    BY DEF PushInitial, wakeVars, workVars
  <1>2. Apart /\ Ready /\ Counts /\ Shape /\ TypeOK
    BY <1>1, InTick
  <1>3. /\ Done' = Done
        /\ \A j : \A t \in Thread : Holds(t, j)' <=> Holds(t, j)
        /\ \A j : Pending(j)' = Pending(j)
        /\ \A j : WasReset(j)' <=> WasReset(j)
    BY <1>1 DEF Done, Holds, Pending, Owes, WasReset
  <1>4. i \in queue.items
    BY <1>2 DEF TypeOK
  <1>5. TypeOK'
    BY <1>1, <1>2, <1>4 DEF TypeOK
  <1>6. Shape'
    BY <1>1, <1>2 DEF Shape
  <1>7. Apart'
    BY <1>1, <1>2, <1>3, <1>4 DEF Apart
  <1>8. Ready'
    BY <1>1, <1>2, <1>3 DEF Ready
  <1>9. Counts'
    BY <1>1, <1>2, <1>3 DEF Counts
  <1> QED BY <1>1, <1>5, <1>6, <1>7, <1>8, <1>9 DEF IInv

(* A popped item moves from the stack to the thread that runs it.          *)
LEMMA PopInv ==
  ASSUME IInv, NEW t \in Thread, NEW i \in runnable, Pop(t, i)
  PROVE  IInv'
  <1>1. /\ pc[t] = "pop" /\ runnable' = runnable \ {i}
        /\ item' = [item EXCEPT ![t] = i] /\ pc' = [pc EXCEPT ![t] = "run"]
        /\ UNCHANGED <<node_count, queue, activation, toPush, sem, stop, todo, next, chain, counted>>
    BY DEF Pop, queueVars, wakeVars
  <1>2. Apart /\ Ready /\ Counts /\ Shape /\ TypeOK /\ pc[0] # "idle"
    BY InTick
  <1>3. /\ item'[t] = i /\ pc'[t] = "run"
        /\ \A u \in Thread : u # t => pc'[u] = pc[u] /\ item'[u] = item[u]
        /\ chain[t] = {} /\ next[t] = NoItem /\ todo[t] = {}
        /\ i \in queue.items /\ i # NoItem
    BY <1>1, <1>2, QueueFacts DEF TypeOK, Shape, Inside
  <1>4. /\ Done' = Done
        /\ \A p, j : Owes(p, j)' <=> Owes(p, j)
        /\ \A j : WasReset(j)' <=> WasReset(j)
    BY <1>1, <1>3 DEF Done, Owes, WasReset
  <1>5. \A j : Pending(j)' = Pending(j)
    BY <1>1, <1>4 DEF Pending
  <1>6. /\ \A j \in queue.items : Holds(t, j)' <=> j = i
        /\ \A j \in queue.items : ~Holds(t, j)
        /\ \A u \in Thread : u # t => \A j : Holds(u, j)' <=> Holds(u, j)
    BY <1>1, <1>2, <1>3, QueueFacts DEF Holds
  <1>7. TypeOK'
    <2>1. i \in UNION {q.items : q \in Queues}
      BY <1>2, <1>3, ItemsKnown
    <2> QED BY <1>1, <1>2, <2>1, ThreadFacts DEF TypeOK, Inside
  <1>8. Shape'
    BY <1>1, <1>2, <1>3 DEF Shape, Inside
  <1>9. Apart'
    <2>1. \A j \in queue.items : \A u, v \in Thread : Holds(u, j)' /\ Holds(v, j)' => u = v
      BY <1>2, <1>6 DEF Apart
    <2>2. \A u \in Thread : /\ pc'[u] = "run" => item'[u] \notin chain[u]
                            /\ next[u] \notin chain[u]
      BY <1>2, <1>3 DEF Apart
    <2>3. \A j \in queue.items : \A u \in Thread :
             Holds(u, j)' => j \notin toPush /\ j \notin runnable' /\ j \notin counted
      BY <1>1, <1>2, <1>6 DEF Apart
    <2>4. \A j \in queue.items : /\ ~(j \in toPush /\ j \in runnable')
                                 /\ ~(j \in toPush /\ j \in counted)
                                 /\ ~(j \in runnable' /\ j \in counted)
      BY <1>1, <1>2 DEF Apart
    <2> QED BY <1>1, <2>1, <2>2, <2>3, <2>4 DEF Apart
  <1>10. Ready'
    BY <1>1, <1>2, <1>5, <1>6 DEF Ready
  <1>11. Counts'
    BY <1>1, <1>2, <1>4, <1>5 DEF Counts
  <1>12. pc'[0] # "idle" /\ (pc'[0] # "push" => toPush = {})
    BY <1>1, <1>2, <1>3, ThreadFacts DEF IInv
  <1> QED BY <1>1, <1>7, <1>8, <1>9, <1>10, <1>11, <1>12 DEF IInv

(* An item that has been run owes its successors a report: nothing that    *)
(* waits for it becomes runnable yet.                                      *)
LEMMA FinishJobInv ==
  ASSUME IInv, NEW t \in Thread, FinishJob(t)
  PROVE  IInv'
  <1> DEFINE i == item[t]
  <1>1. /\ pc[t] = "run" /\ chain' = [chain EXCEPT ![t] = @ \cup {i}]
        /\ todo' = [todo EXCEPT ![t] = queue.succ[i]] /\ pc' = [pc EXCEPT ![t] = "deps"]
        /\ UNCHANGED <<node_count, runnable, queue, activation, toPush, sem, stop, item, next, counted>>
    BY DEF FinishJob, queueVars, wakeVars
  <1>2. Apart /\ Ready /\ Counts /\ Shape /\ TypeOK /\ pc[0] # "idle"
    BY <1>1, InTick DEF Inside
  <1>3. /\ i \in queue.items /\ next[t] = NoItem /\ todo[t] = {}
        /\ i \notin chain[t] /\ i \notin counted
        /\ \A u \in Thread : u # t => i \notin chain[u] /\ ~(pc[u] = "run" /\ item[u] = i)
        /\ queue.succ[i] \subseteq queue.items
    BY <1>1, <1>2, QueueFacts DEF Shape, Apart, Holds
  <1>4. /\ pc'[t] = "deps" /\ todo'[t] = queue.succ[i] /\ chain'[t] = chain[t] \cup {i}
        /\ \A u \in Thread : u # t => pc'[u] = pc[u] /\ todo'[u] = todo[u] /\ chain'[u] = chain[u]
    BY <1>1, <1>2 DEF TypeOK
  <1> HIDE DEF i
  <1>5. \A j : j \in Done' <=> j \in Done \/ j = i
    BY <1>1, <1>4 DEF Done
  <1>6. i \notin Done
    BY <1>3, DoneFacts
  <1>7. \A u \in Thread : pc[u] = "deps" => item[u] # i
    BY <1>2, <1>3, <1>6, DoneFacts DEF Shape
  <1>8. \A p, j : Owes(p, j)' <=> Owes(p, j) \/ (p = i /\ j \in queue.succ[i])
    BY <1>1, <1>4 DEF Owes, i
  <1>9. \A j : Pending(j)' = Pending(j)
    BY <1>1, <1>5, <1>6, <1>8 DEF Pending, Preds
  <1>10. \A j : WasReset(j)' <=> WasReset(j)
    BY <1>1, <1>4, <1>5, <1>6 DEF WasReset, i
  <1>11. \A u \in Thread : \A j : Holds(u, j)' <=> Holds(u, j)
    BY <1>1, <1>4 DEF Holds, i
  <1>12. TypeOK'
    BY <1>1, <1>2, <1>3, ThreadFacts DEF TypeOK, Inside
  <1>13. Shape'
    BY <1>1, <1>2, <1>3, <1>4 DEF Shape, Inside, i
  <1>14. Apart'
    <2>1. \A u \in Thread : /\ pc'[u] = "run" => item[u] \notin chain'[u]
                            /\ next[u] \notin chain'[u]
      BY <1>2, <1>3, <1>4, QueueFacts DEF Apart
    <2> QED BY <1>1, <1>2, <1>11, <2>1 DEF Apart
  <1>15. Ready'
    BY <1>1, <1>2, <1>9, <1>11 DEF Ready
  <1>16. Counts'
    BY <1>1, <1>2, <1>9, <1>10 DEF Counts
  <1>17. pc'[0] # "idle" /\ (pc'[0] # "push" => toPush = {})
    BY <1>1, <1>2, <1>4, ThreadFacts DEF IInv
  <1> QED BY <1>1, <1>12, <1>13, <1>14, <1>15, <1>16, <1>17 DEF IInv

(* A successor is decremented by each of its predecessors once, so its     *)
(* counter is not zero, and it is the last of them that makes it runnable. *)
LEMMA DecrementFacts ==
  ASSUME IInv, NEW t \in Thread, NEW s \in todo[t], pc[t] = "deps"
  PROVE  /\ s \in queue.items /\ item[t] \in queue.items /\ item[t] \in Pending(s)
         /\ s \notin Done /\ s \notin toPush /\ s \notin runnable
         /\ \A u \in Thread : ~Holds(u, s)
         /\ activation[s] = Cardinality(Pending(s)) /\ activation[s] \in Nat /\ activation[s] > 0
         /\ \A u \in Thread : pc[u] = "deps" /\ item[u] = item[t] => u = t
  <1>1. Apart /\ Ready /\ Counts /\ Shape /\ TypeOK
    BY InTick DEF Inside
  <1>2. /\ s \in queue.items /\ item[t] \in queue.items /\ item[t] \in chain[t]
        /\ item[t] \in Preds(queue, s)
    BY <1>1 DEF Shape, TypeOK, Preds
  <1>3. item[t] \in Pending(s)
    BY <1>2 DEF Pending, Owes
  <1>4. /\ s \notin counted /\ s \notin toPush /\ s \notin runnable
        /\ \A u \in Thread : ~Holds(u, s)
    BY <1>1, <1>2, <1>3 DEF Ready
  <1>5. s \notin Done
    BY <1>4, DoneFacts DEF Holds
  <1>6. activation[s] = Cardinality(Pending(s))
    BY <1>1, <1>2, <1>5 DEF Counts, WasReset
  <1>7. activation[s] \in Nat /\ activation[s] > 0
    BY <1>1, <1>2, <1>3, <1>6, PendingFacts
  <1>8. \A u \in Thread : pc[u] = "deps" /\ item[u] = item[t] => u = t
    BY <1>1, <1>2 DEF Shape, Apart, Holds
  <1> QED BY <1>2, <1>3, <1>4, <1>5, <1>6, <1>7, <1>8

LEMMA DecrementInv ==
  ASSUME IInv, NEW t \in Thread, NEW s \in todo[t], Decrement(t, s)
  PROVE  IInv'
  <1> DEFINE i == item[t]
             last == activation[s] = 1
             kept == last /\ next[t] = NoItem
  <1>1. /\ pc[t] = "deps" /\ todo' = [todo EXCEPT ![t] = @ \ {s}]
        /\ activation' = [activation EXCEPT ![s] = @ - 1]
        /\ next' = IF kept THEN [next EXCEPT ![t] = s] ELSE next
        /\ runnable' = IF last /\ next[t] # NoItem THEN runnable \cup {s} ELSE runnable
        /\ UNCHANGED <<node_count, queue, toPush, pc, sem, stop, item, chain, counted>>
    BY DEF Decrement, wakeVars
  <1>2. Apart /\ Ready /\ Counts /\ Shape /\ TypeOK /\ pc[0] # "idle"
    BY <1>1, InTick DEF Inside
  <1>3. /\ s \in queue.items /\ i \in queue.items /\ i \in Pending(s)
        /\ s \notin Done /\ s \notin toPush /\ s \notin runnable
        /\ \A u \in Thread : ~Holds(u, s)
        /\ activation[s] = Cardinality(Pending(s)) /\ activation[s] \in Nat /\ activation[s] > 0
        /\ \A u \in Thread : pc[u] = "deps" /\ item[u] = i => u = t
    BY <1>1, DecrementFacts
  <1>4. s # NoItem /\ s \notin counted /\ \A u \in Thread : s \notin chain[u]
    BY <1>2, <1>3, QueueFacts, DoneFacts
  <1>5. /\ todo'[t] = todo[t] \ {s}
        /\ \A u \in Thread : u # t => todo'[u] = todo[u] /\ next'[u] = next[u]
        /\ next'[t] = IF kept THEN s ELSE next[t]
    BY <1>1, <1>2 DEF TypeOK
  <1>6. /\ activation'[s] = activation[s] - 1
        /\ \A j \in queue.items : j # s => activation'[j] = activation[j]
        /\ activation' \in [queue.items -> Nat]
    BY <1>1, <1>2, <1>3 DEF TypeOK
  <1>7. Done' = Done /\ \A j : WasReset(j)' <=> WasReset(j)
    BY <1>1 DEF Done, WasReset
  <1>8. \A p, j : Owes(p, j)' <=> Owes(p, j) /\ ~(p = i /\ j = s)
    <2> SUFFICES ASSUME NEW p, NEW j PROVE Owes(p, j)' <=> Owes(p, j) /\ ~(p = i /\ j = s)
      OBVIOUS
    <2>1. ASSUME Owes(p, j)' PROVE Owes(p, j) /\ ~(p = i /\ j = s)
      BY <1>1, <1>3, <1>5, <2>1 DEF Owes
    <2>2. ASSUME Owes(p, j), ~(p = i /\ j = s) PROVE Owes(p, j)'
      BY <1>1, <1>5, <2>2 DEF Owes
    <2> QED BY <2>1, <2>2
  <1>9. i \in Done
    BY <1>1, <1>2, DoneFacts DEF Shape
  <1>10. /\ Pending(s)' = Pending(s) \ {i}
         /\ \A j : j # s => Pending(j)' = Pending(j)
    BY <1>1, <1>7, <1>8, <1>9 DEF Pending
  <1>11. /\ Cardinality(Pending(s) \ {i}) = activation[s] - 1
         /\ last => Pending(s)' = {}
    <2>1. Cardinality(Pending(s) \ {i}) = activation[s] - 1
      BY <1>2, <1>3, PendingFacts
    <2>2. IsFiniteSet(Pending(s) \ {i})
      BY <1>2, <1>3, PendingFacts, FS_Subset
    <2>3. Cardinality(Pending(s) \ {i}) = 0 => Pending(s) \ {i} = {}
      BY <2>2, FS_EmptySet
    <2> QED BY <1>10, <2>1, <2>3
  <1> HIDE DEF i, last
  <1>12. /\ \A j : \A u \in Thread : u # t => (Holds(u, j)' <=> Holds(u, j))
         /\ \A j \in queue.items : Holds(t, j)' <=> Holds(t, j) \/ (kept /\ j = s)
    <2>1. \A j : \A u \in Thread : u # t => (Holds(u, j)' <=> Holds(u, j))
      BY <1>1, <1>5 DEF Holds
    <2>2. \A j \in queue.items : Holds(t, j)' <=> Holds(t, j) \/ (kept /\ j = s)
      BY <1>1, <1>2, <1>5, QueueFacts DEF Holds
    <2> QED BY <2>1, <2>2
  <1>13. \A j : j \in runnable' <=> j \in runnable \/ (last /\ next[t] # NoItem /\ j = s)
    BY <1>1
  <1>14. TypeOK'
    <2>1. runnable' \subseteq queue.items
      BY <1>2, <1>3, <1>13 DEF TypeOK
    <2>2. next' \in [Thread -> queue.items \cup {NoItem}] /\ todo' \in [Thread -> SUBSET queue.items]
      BY <1>1, <1>2, <1>3 DEF TypeOK
    <2> QED BY <1>1, <1>2, <1>6, <2>1, <2>2 DEF TypeOK
  <1>15. Shape'
    BY <1>1, <1>2, <1>5 DEF Shape, Inside
  <1>16. Apart'
    <2>1. \A j \in queue.items : \A u, v \in Thread : Holds(u, j)' /\ Holds(v, j)' => u = v
      BY <1>2, <1>3, <1>12 DEF Apart
    <2>2. \A u \in Thread : /\ pc[u] = "run" => item[u] \notin chain[u]
                            /\ next'[u] \notin chain[u]
      BY <1>2, <1>4, <1>5 DEF Apart
    <2>3. \A j \in queue.items : \A u \in Thread :
             Holds(u, j)' => j \notin toPush /\ j \notin runnable' /\ j \notin counted
      BY <1>2, <1>3, <1>4, <1>12, <1>13 DEF Apart
    <2>4. \A j \in queue.items : /\ ~(j \in toPush /\ j \in runnable')
                                 /\ ~(j \in toPush /\ j \in counted)
                                 /\ ~(j \in runnable' /\ j \in counted)
      BY <1>2, <1>3, <1>4, <1>13 DEF Apart
    <2> QED BY <1>1, <2>1, <2>2, <2>3, <2>4 DEF Apart
  <1>17. Ready'
    <2>1. \A j \in toPush \cup runnable' \cup counted : Pending(j)' = {}
      BY <1>2, <1>3, <1>4, <1>10, <1>11, <1>13 DEF Ready
    <2>2. \A j \in queue.items : \A u \in Thread : Holds(u, j)' => Pending(j)' = {}
      BY <1>2, <1>3, <1>10, <1>11, <1>12 DEF Ready
    <2> QED BY <1>1, <2>1, <2>2 DEF Ready
  <1>18. Counts'
    <2>1. \A j \in queue.items :
            activation'[j] = IF WasReset(j)' THEN queue.limit[j] ELSE Cardinality(Pending(j)')
      <3> TAKE j \in queue.items
      <3>1. CASE j = s
        BY <1>3, <1>6, <1>7, <1>10, <1>11, <3>1 DEF WasReset
      <3>2. CASE j # s
        BY <1>2, <1>6, <1>7, <1>10, <3>2 DEF Counts
      <3> QED BY <3>1, <3>2
    <2> QED BY <1>1, <1>2, <2>1 DEF Counts
  <1> QED BY <1>1, <1>2, <1>14, <1>15, <1>16, <1>17, <1>18 DEF IInv

(* The counter of an item is set for the next tick when it has reported to *)
(* its successors.                                                         *)
LEMMA ContinueInv ==
  ASSUME IInv, NEW t \in Thread, Continue(t)
  PROVE  IInv'
  <1> SUFFICES ASSUME NEW i, i = item[t], NEW n, n = next[t] PROVE IInv'
    OBVIOUS
  <1>1. /\ pc[t] = "deps" /\ todo[t] = {}
        /\ activation' = [activation EXCEPT ![i] = queue.limit[i]]
        /\ item' = [item EXCEPT ![t] = n] /\ next' = [next EXCEPT ![t] = NoItem]
        /\ pc' = [pc EXCEPT ![t] = IF n = NoItem THEN "sub" ELSE "run"]
        /\ UNCHANGED <<node_count, runnable, queue, toPush, sem, stop, todo, chain, counted>>
    BY DEF Continue, wakeVars
  <1>2. Apart /\ Ready /\ Counts /\ Shape /\ TypeOK /\ pc[0] # "idle"
    BY <1>1, InTick DEF Inside
  <1>3. /\ i \in chain[t] /\ i \in queue.items /\ n \in queue.items \cup {NoItem}
        /\ NoItem \notin queue.items /\ n \notin chain[t]
    BY <1>1, <1>2, QueueFacts DEF Shape, TypeOK, Apart
  <1>4. /\ pc'[t] = IF n = NoItem THEN "sub" ELSE "run"
        /\ item'[t] = n /\ next'[t] = NoItem
        /\ \A u \in Thread : u # t => pc'[u] = pc[u] /\ item'[u] = item[u] /\ next'[u] = next[u]
    BY <1>1, <1>2 DEF TypeOK
  <1>5. /\ activation'[i] = queue.limit[i] /\ queue.limit[i] \in Nat
        /\ \A j \in queue.items : j # i => activation'[j] = activation[j]
        /\ activation' \in [queue.items -> Nat]
    <2>1. queue.limit[i] \in Nat
      BY <1>2, <1>3, QueueFacts, FS_CardinalityType
    <2> QED BY <1>1, <1>2, <1>3, <2>1 DEF TypeOK
  <1>6. \A u \in Thread : u # t => ~(pc[u] = "deps" /\ item[u] = i)
    BY <1>1, <1>2, <1>3 DEF Shape, Apart, Holds
  <1>7. Done' = Done /\ i \in Done
    BY <1>1, <1>3, DoneFacts DEF Done
  <1>8. \A p, j : Owes(p, j)' <=> Owes(p, j)
    BY <1>1, <1>4 DEF Owes
  <1>9. \A j : Pending(j)' = Pending(j)
    BY <1>1, <1>7, <1>8 DEF Pending
  <1>10. \A j : WasReset(j)' <=> WasReset(j) \/ j = i
    <2>1. WasReset(i)'
      BY <1>4, <1>6, <1>7 DEF WasReset
    <2>2. \A j : j # i => (WasReset(j)' <=> WasReset(j))
      BY <1>1, <1>4, <1>7 DEF WasReset
    <2> QED BY <2>1, <2>2
  <1>11. \A u \in Thread : \A j \in queue.items : Holds(u, j)' <=> Holds(u, j)
    <2>1. \A u \in Thread : u # t => \A j : Holds(u, j)' <=> Holds(u, j)
      BY <1>1, <1>4 DEF Holds
    <2>2. \A j \in queue.items : Holds(t, j)' <=> Holds(t, j)
      BY <1>1, <1>3, <1>4 DEF Holds
    <2> QED BY <2>1, <2>2
  <1>12. TypeOK'
    <2>1. n \in (UNION {q.items : q \in Queues}) \cup {NoItem}
      <3>1. CASE n \in queue.items
        BY <1>2, <3>1, ItemsKnown
      <3>2. CASE n = NoItem
        BY <3>2
      <3> QED BY <1>3, <3>1, <3>2
    <2>2. item' \in [Thread -> (UNION {q.items : q \in Queues}) \cup {NoItem}]
          /\ next' \in [Thread -> queue.items \cup {NoItem}]
      BY <1>1, <1>2, <2>1 DEF TypeOK
    <2>3. pc' \in [Thread -> Outside \cup Inside \cup {"idle", "push", "wait"}]
          /\ pc'[0] \notin {"asleep", "ended"}
          /\ \A h \in Helper : pc'[h] \in Outside \cup Inside
      BY <1>1, <1>2, <1>4, ThreadFacts DEF TypeOK, Inside
    <2> QED BY <1>1, <1>2, <1>5, <2>2, <2>3 DEF TypeOK
  <1>13. Shape'
    BY <1>1, <1>2, <1>3, <1>4 DEF Shape, Inside
  <1>14. Apart'
    <2>1. \A u \in Thread : /\ pc'[u] = "run" => item'[u] \notin chain[u]
                            /\ next'[u] \notin chain[u]
      BY <1>2, <1>3, <1>4 DEF Apart, TypeOK
    <2> QED BY <1>1, <1>2, <1>11, <2>1 DEF Apart
  <1>15. Ready'
    BY <1>1, <1>2, <1>9, <1>11 DEF Ready
  <1>16. Counts'
    <2>1. \A j \in queue.items :
            activation'[j] = IF WasReset(j)' THEN queue.limit[j] ELSE Cardinality(Pending(j)')
      BY <1>2, <1>5, <1>9, <1>10 DEF Counts
    <2> QED BY <1>1, <1>2, <2>1 DEF Counts
  <1>17. pc'[0] # "idle" /\ (pc'[0] # "push" => toPush = {})
    BY <1>1, <1>2, <1>4, ThreadFacts DEF IInv
  <1> QED BY <1>1, <1>12, <1>13, <1>14, <1>15, <1>16, <1>17 DEF IInv

(* A chain is taken off the count at once, when all its items have run.    *)
LEMMA AccountInv ==
  ASSUME IInv, NEW t \in Thread, Account(t)
  PROVE  IInv'
  <1> DEFINE consumed == Cardinality(chain[t])
             left == queue.items \ counted
  <1>1. /\ pc[t] = "sub" /\ node_count' = node_count - consumed
        /\ counted' = counted \cup chain[t] /\ chain' = [chain EXCEPT ![t] = {}]
        /\ pc' = [pc EXCEPT ![t] = IF node_count = consumed THEN Returned(t) ELSE "poll"]
        /\ UNCHANGED <<runnable, queue, activation, toPush, sem, stop, item, todo, next>>
    BY DEF Account, queueVars, wakeVars
  <1>2. Apart /\ Ready /\ Counts /\ Shape /\ TypeOK /\ pc[0] # "idle"
    BY <1>1, InTick DEF Inside
  <1>3. /\ chain[t] \subseteq queue.items /\ next[t] = NoItem /\ todo[t] = {}
        /\ \A j \in chain[t] : j \notin toPush /\ j \notin runnable /\ j \notin counted
        /\ NoItem \notin queue.items
    BY <1>1, <1>2, QueueFacts DEF Shape, TypeOK, Apart, Holds
  <1>4. /\ chain'[t] = {} /\ pc'[t] \in {"wait", "asleep", "poll"}
        /\ pc'[t] = "wait" => t = 0
        /\ pc'[t] = "asleep" => t # 0
        /\ \A u \in Thread : u # t => pc'[u] = pc[u] /\ chain'[u] = chain[u]
    BY <1>1, <1>2 DEF TypeOK, Returned
  <1>5. \A j : j \in Done' <=> j \in Done
    BY <1>1, <1>4, DoneFacts DEF Done
  <1>6. \A p, j : Owes(p, j)' <=> Owes(p, j)
    BY <1>1, <1>4 DEF Owes
  <1>7. \A j : Pending(j)' = Pending(j)
    BY <1>1, <1>5, <1>6 DEF Pending
  <1>8. \A j : WasReset(j)' <=> WasReset(j)
    BY <1>1, <1>4, <1>5 DEF WasReset
  <1>9. /\ \A j \in queue.items : ~Holds(t, j)'
        /\ \A u \in Thread : u # t => \A j : Holds(u, j)' <=> Holds(u, j)
        /\ \A u \in Thread : u # t => \A j \in chain[t] : ~Holds(u, j)
    BY <1>1, <1>2, <1>3, <1>4 DEF Holds, Apart
  <1>10. /\ IsFiniteSet(left) /\ chain[t] \subseteq left
         /\ Cardinality(left \ chain[t]) = Cardinality(left) - consumed
         /\ Cardinality(left \ chain[t]) \in Nat
    <2>1. IsFiniteSet(left)
      BY <1>2, QueueFacts, FS_Subset
    <2>2. chain[t] \subseteq left
      BY <1>3
    <2>3. left \cap chain[t] = chain[t]
      BY <2>2
    <2>4. Cardinality(left \ chain[t]) = Cardinality(left) - consumed
      BY <2>1, <2>3, FS_Difference
    <2>5. IsFiniteSet(left \ chain[t])
      BY <2>1, FS_Difference
    <2> HIDE DEF left
    <2> QED BY <2>1, <2>2, <2>4, <2>5, FS_CardinalityType
  <1>11. /\ node_count' = Cardinality(queue.items \ counted')
         /\ node_count' \in Nat /\ counted' \subseteq queue.items
    <2>1. queue.items \ counted' = left \ chain[t]
      BY <1>1
    <2>2. node_count = Cardinality(left) /\ counted \subseteq queue.items
      BY <1>2 DEF Counts
    <2> HIDE DEF left, consumed
    <2> QED BY <1>1, <1>3, <1>10, <2>1, <2>2
  <1>12. TypeOK'
    <2>1. counted' \subseteq UNION {q.items : q \in Queues}
      BY <1>2, <1>11, ItemsKnown
    <2>2. pc' \in [Thread -> Outside \cup Inside \cup {"idle", "push", "wait"}]
          /\ pc'[0] \notin {"asleep", "ended"}
          /\ \A h \in Helper : pc'[h] \in Outside \cup Inside
      BY <1>1, <1>2, <1>4, ThreadFacts DEF TypeOK, Outside, Returned
    <2>3. chain' \in [Thread -> SUBSET queue.items]
      BY <1>1, <1>2 DEF TypeOK
    <2> QED BY <1>1, <1>2, <1>11, <2>1, <2>2, <2>3 DEF TypeOK
  <1>13. Shape'
    BY <1>1, <1>2, <1>3, <1>4 DEF Shape, Inside
  <1>14. Apart'
    <2>1. \A j \in queue.items : \A u, v \in Thread : Holds(u, j)' /\ Holds(v, j)' => u = v
      BY <1>2, <1>9 DEF Apart
    <2>2. \A u \in Thread : /\ pc'[u] = "run" => item[u] \notin chain'[u]
                            /\ next[u] \notin chain'[u]
      BY <1>2, <1>4 DEF Apart
    <2>3. \A j \in queue.items : \A u \in Thread :
             Holds(u, j)' => j \notin toPush /\ j \notin runnable /\ j \notin counted'
      BY <1>1, <1>2, <1>9 DEF Apart
    <2>4. \A j \in queue.items : /\ ~(j \in toPush /\ j \in runnable)
                                 /\ ~(j \in toPush /\ j \in counted')
                                 /\ ~(j \in runnable /\ j \in counted')
      BY <1>1, <1>2, <1>3 DEF Apart
    <2> QED BY <1>1, <2>1, <2>2, <2>3, <2>4 DEF Apart
  <1>15. Ready'
    <2>1. \A j \in chain[t] : Pending(j) = {}
      BY <1>2, <1>3 DEF Ready, Holds
    <2>2. \A j \in toPush \cup runnable \cup counted' : Pending(j)' = {}
      BY <1>1, <1>2, <1>7, <2>1 DEF Ready
    <2>3. \A j \in queue.items : \A u \in Thread : Holds(u, j)' => Pending(j)' = {}
      BY <1>2, <1>7, <1>9 DEF Ready
    <2> QED BY <1>1, <2>2, <2>3 DEF Ready
  <1>16. Counts'
    BY <1>1, <1>2, <1>7, <1>8, <1>11 DEF Counts
  <1>17. pc'[0] # "idle" /\ (pc'[0] # "push" => toPush = {})
    BY <1>1, <1>2, <1>4, ThreadFacts DEF IInv
  <1> QED BY <1>1, <1>12, <1>13, <1>14, <1>15, <1>16, <1>17 DEF IInv

(* When the count is zero every item has been counted, so no thread has    *)
(* any and every counter has been set for the next tick.                   *)
LEMMA AllCounted ==
  ASSUME IInv, pc[0] # "idle", pc[0] # "push", node_count = 0
  PROVE  /\ counted = queue.items /\ runnable = {} /\ toPush = {}
         /\ activation = queue.limit
         /\ \A t \in Thread : pc[t] \notin Inside
  <1>1. Apart /\ Ready /\ Counts /\ Shape /\ TypeOK /\ toPush = {}
    BY DEF IInv
  <1>2. counted = queue.items
    <2>1. IsFiniteSet(queue.items \ counted)
      BY <1>1, QueueFacts, FS_Subset
    <2>2. queue.items \ counted = {}
      BY <1>1, <2>1, FS_EmptySet DEF Counts
    <2> QED BY <1>1, <2>2 DEF Counts
  <1>3. runnable = {}
    BY <1>1, <1>2 DEF Apart, TypeOK
  <1>4. \A t \in Thread : \A j \in queue.items : ~Holds(t, j)
    BY <1>1, <1>2 DEF Apart
  <1>5. \A t \in Thread : pc[t] \notin Inside
    <2> TAKE t \in Thread
    <2>1. chain[t] = {}
      BY <1>1, <1>4 DEF TypeOK, Holds
    <2>2. pc[t] # "run"
      BY <1>1, <1>4 DEF Shape, Holds
    <2> QED BY <1>1, <2>1, <2>2 DEF Shape, Inside
  <1>6. activation = queue.limit
    <2>1. \A j \in queue.items : activation[j] = queue.limit[j]
      BY <1>1, <1>2, <1>5, DoneFacts DEF Counts, WasReset, Inside
    <2> QED BY <1>1, <2>1, QueueFacts DEF TypeOK
  <1> QED BY <1>1, <1>2, <1>3, <1>5, <1>6

LEMMA EndTickInv ==
  ASSUME IInv, EndTick
  PROVE  IInv'
  <1>1. /\ pc[0] = "wait" /\ node_count = 0 /\ pc' = [pc EXCEPT ![0] = "idle"]
        /\ UNCHANGED <<node_count, runnable, queue, activation, toPush, sem, stop,
                       item, todo, next, chain, counted>>
    BY DEF EndTick, queueVars, wakeVars, workVars
  <1>2. TypeOK /\ Shape
    BY DEF IInv
  <1>3. /\ runnable = {} /\ toPush = {} /\ activation = queue.limit
        /\ \A t \in Thread : pc[t] \notin Inside
    BY <1>1, AllCounted
  <1>4. /\ pc'[0] = "idle" /\ \A h \in Helper : pc'[h] = pc[h]
        /\ pc' \in [Thread -> Outside \cup Inside \cup {"idle", "push", "wait"}]
        /\ \A t \in Thread : t # 0 => pc'[t] = pc[t]
    BY <1>1, <1>2, ThreadFacts DEF TypeOK
  <1>5. TypeOK'
    BY <1>1, <1>2, <1>4 DEF TypeOK
  <1>6. Shape'
    BY <1>1, <1>2, <1>4 DEF Shape, Inside
  <1>7. Clean'
    BY <1>1, <1>2, <1>3, <1>4, ThreadFacts DEF Clean, TypeOK
  <1> QED BY <1>3, <1>1, <1>4, <1>5, <1>6, <1>7 DEF IInv

-----------------------------------------------------------------------------
(* Every step keeps the invariant.                                         *)
LEMMA StepInv ==
  ASSUME IInv, [Next]_vars
  PROVE  IInv'
  <1>1. ASSUME NEW t \in Thread, Work(t) PROVE IInv'
    <2>1. CASE Poll(t)
      BY <2>1, PollInv
    <2>2. CASE PopNothing(t)
      BY <2>2, PopNothingInv
    <2>3. CASE \E i \in runnable : Pop(t, i)
      BY <2>3, PopInv
    <2>4. CASE FinishJob(t)
      BY <2>4, FinishJobInv
    <2>5. CASE \E s \in todo[t] : Decrement(t, s)
      BY <2>5, DecrementInv
    <2>6. CASE Continue(t)
      BY <2>6, ContinueInv
    <2>7. CASE Account(t)
      BY <2>7, AccountInv
    <2> QED BY <1>1, <2>1, <2>2, <2>3, <2>4, <2>5, <2>6, <2>7 DEF Work
  <1>2. CASE Tick
    BY <1>2, PushInitialInv, WakeThreadsInv, EndTickInv DEF Tick
  <1>3. CASE \E q \in Queues : ResetQueue(q)
    BY <1>3, ResetQueueInv
  <1>4. CASE InitTick
    BY <1>4, InitTickInv
  <1>5. CASE \E h \in Helper : GetUp(h)
    BY <1>5, GetUpInv
  <1>6. CASE Terminate
    BY <1>6, TerminateInv
  <1>7. CASE UNCHANGED vars
    <2>1. /\ UNCHANGED <<queue, runnable, activation, toPush, item, todo, next, chain, counted>>
          /\ UNCHANGED <<node_count, pc, sem, stop>>
      BY <1>7 DEF vars, queueVars, wakeVars, workVars
    <2> QED BY <2>1, QuietInv DEF IInv, TypeOK
  <1>8. CASE Joined
    BY <1>7, <1>8 DEF Joined
  <1> QED BY <1>1, <1>2, <1>3, <1>4, <1>5, <1>6, <1>7, <1>8 DEF Next

LEMMA Invariance == Spec => []IInv
  <1>1. Init => IInv
    BY InitInv
  <1>2. IInv /\ [Next]_vars => IInv'
    BY StepInv
  <1> QED BY <1>1, <1>2, PTL DEF Spec

(* The state of dsp_threads is of its types, whatever helpers oversleep.   *)
THEOREM TypeCorrect == Spec => []TypeOK
  <1>1. IInv => TypeOK
    BY DEF IInv
  <1> QED BY <1>1, Invariance, PTL

(* update_dependencies makes an item runnable when, and only when, all the *)
(* items it waits for have run in this tick; run_next_item runs it once;   *)
(* and no counter is decremented at zero (dec_activation_count).           *)
THEOREM ItemsRunInOrder == Spec => []RunsInOrder
  <1>1. IInv => RunsInOrder
    <2> SUFFICES ASSUME IInv, NEW t \in Thread
                 PROVE  /\ pc[t] = "run" =>
                             /\ Preds(queue, item[t]) \subseteq Done
                             /\ item[t] \notin Done
                             /\ \A u \in Thread \ {t} : pc[u] = "run" => item[u] # item[t]
                        /\ pc[t] = "deps" => \A s \in todo[t] : activation[s] > 0
      BY DEF RunsInOrder, IInv
    <2>1. CASE pc[t] = "run"
      <3>1. Apart /\ Ready /\ Shape
        BY <2>1, InTick DEF Inside
      <3>2. item[t] \in queue.items /\ Holds(t, item[t]) /\ item[t] \notin chain[t]
        BY <2>1, <3>1 DEF Shape, Holds, Apart
      <3>3. Preds(queue, item[t]) \subseteq Done
        BY <3>1, <3>2 DEF Ready, Pending
      <3>4. item[t] \notin Done
        BY <3>1, <3>2, DoneFacts DEF Apart, Holds
      <3>5. \A u \in Thread \ {t} : pc[u] = "run" => item[u] # item[t]
        BY <3>1, <3>2 DEF Apart, Holds
      <3> QED BY <2>1, <3>3, <3>4, <3>5
    <2>2. CASE pc[t] = "deps"
      BY <2>2, DecrementFacts
    <2>3. CASE pc[t] \notin {"run", "deps"}
      BY <2>3
    <2> QED BY <2>1, <2>2, <2>3
  <1> QED BY <1>1, Invariance, PTL

(* When node_count is zero every item has run, and between two ticks the   *)
(* stack is empty, the counters are reset and no helper is inside an item, *)
(* so that reset_queue may replace the queue without asking the helpers.   *)
THEOREM TicksClean == Spec => []TicksEndClean
  <1>1. IInv => TicksEndClean
    BY AllCounted DEF TicksEndClean, IInv, Clean
  <1> QED BY <1>1, Invariance, PTL

-----------------------------------------------------------------------------
(* Lists of nodes.                                                         *)
LEMMA Inserted ==
  ASSUME NEW S, NEW s \in Seq(S), NEW e \in S, NEW i \in 1 .. Len(s) + 1
  PROVE  /\ InsertAt(s, i, e) \in Seq(S) /\ Len(InsertAt(s, i, e)) = Len(s) + 1
         /\ \A k \in 1 .. i - 1 : InsertAt(s, i, e)[k] = s[k]
         /\ InsertAt(s, i, e)[i] = e
         /\ \A k \in i .. Len(s) : InsertAt(s, i, e)[k + 1] = s[k]
  <1> DEFINE a == SubSeq(s, 1, i - 1)
             b == SubSeq(s, i, Len(s))
  <1>1. Len(s) \in Nat /\ i \in Int
    OBVIOUS
  <1>2. a \in Seq(S) /\ Len(a) = i - 1 /\ \A k \in 1 .. i - 1 : a[k] = s[k]
    BY <1>1
  <1>3. b \in Seq(S) /\ Len(b) = Len(s) - i + 1 /\ \A k \in 1 .. Len(s) - i + 1 : b[k] = s[i + k - 1]
    BY <1>1
  <1>4. InsertAt(s, i, e) = a \o <<e>> \o b
    BY DEF InsertAt
  <1> HIDE DEF a, b
  <1> DEFINE c == a \o <<e>>
  <1>5. c \in Seq(S) /\ Len(c) = i /\ c[i] = e /\ \A k \in 1 .. i - 1 : c[k] = s[k]
    BY SMTT(40), <1>1, <1>2
  <1>6. InsertAt(s, i, e) = c \o b
    BY <1>4
  <1> HIDE DEF c
  <1>7. c \o b \in Seq(S) /\ Len(c \o b) = Len(s) + 1
    BY <1>1, <1>3, <1>5
  <1>8. \A k \in 1 .. i : (c \o b)[k] = c[k]
    BY <1>1, <1>3, <1>5
  <1>9. \A k \in i .. Len(s) : (c \o b)[k + 1] = s[k]
    <2> TAKE k \in i .. Len(s)
    <2>1. (c \o b)[k + 1] = b[k + 1 - i] /\ k + 1 - i \in 1 .. Len(s) - i + 1
      BY <1>1, <1>3, <1>5
    <2> QED BY <1>1, <1>3, <2>1
  <1> QED BY <1>1, <1>5, <1>6, <1>7, <1>8, <1>9

LEMMA Deleted ==
  ASSUME NEW S, NEW s \in Seq(S), NEW i \in 1 .. Len(s)
  PROVE  /\ RemoveAt(s, i) \in Seq(S) /\ Len(RemoveAt(s, i)) = Len(s) - 1
         /\ \A k \in 1 .. i - 1 : RemoveAt(s, i)[k] = s[k]
         /\ \A k \in i .. Len(s) - 1 : RemoveAt(s, i)[k] = s[k + 1]
  <1> DEFINE a == SubSeq(s, 1, i - 1)
             b == SubSeq(s, i + 1, Len(s))
  <1>1. Len(s) \in Nat /\ i \in Int
    OBVIOUS
  <1>2. a \in Seq(S) /\ Len(a) = i - 1 /\ \A k \in 1 .. i - 1 : a[k] = s[k]
    BY <1>1
  <1>3. b \in Seq(S) /\ Len(b) = Len(s) - i /\ \A k \in 1 .. Len(s) - i : b[k] = s[i + k]
    BY <1>1
  <1>4. RemoveAt(s, i) = a \o b
    BY DEF RemoveAt
  <1> HIDE DEF a, b
  <1>5. a \o b \in Seq(S) /\ Len(a \o b) = Len(s) - 1
    <2>1. a \o b \in Seq(S) /\ Len(a \o b) = Len(a) + Len(b)
      BY <1>2, <1>3, ConcatProperties
    <2> QED BY <1>1, <1>2, <1>3, <2>1
  <1>6. \A k \in 1 .. i - 1 : (a \o b)[k] = s[k]
    BY <1>1, <1>2, <1>3
  <1>7. \A k \in i .. Len(s) - 1 : (a \o b)[k] = s[k + 1]
    <2> TAKE k \in i .. Len(s) - 1
    <2>1. (a \o b)[k] = b[k - (i - 1)] /\ k - (i - 1) \in 1 .. Len(s) - i
      BY <1>1, <1>2, <1>3
    <2> QED BY <1>1, <1>3, <2>1
  <1> QED BY <1>4, <1>5, <1>6, <1>7

(* No node is listed twice, after a new one is inserted or one removed.    *)
LEMMA InsertedSet ==
  ASSUME NEW S, NEW s \in Seq(S), NEW e \in S, NEW i \in 1 .. Len(s) + 1
  PROVE  /\ ToSet(InsertAt(s, i, e)) = ToSet(s) \cup {e}
         /\ IsInjective(s) /\ e \notin ToSet(s) => IsInjective(InsertAt(s, i, e))
  <1> DEFINE r == InsertAt(s, i, e)
             n == Len(s)
  <1>1. /\ n \in Nat /\ i \in 1 .. n + 1 /\ DOMAIN s = 1 .. n /\ DOMAIN r = 1 .. n + 1
        /\ r[i] = e
        /\ \A k \in 1 .. i - 1 : r[k] = s[k]
        /\ \A k \in i .. n : r[k + 1] = s[k]
    BY Inserted
  <1>2. \A k \in 1 .. n + 1 : k # i =>
            \/ k \in 1 .. n /\ k < i /\ r[k] = s[k]
            \/ k - 1 \in 1 .. n /\ k > i /\ r[k] = s[k - 1]
    <2> SUFFICES ASSUME NEW k \in 1 .. n + 1, k # i, ~(k < i)
                 PROVE  k - 1 \in 1 .. n /\ k > i /\ r[k] = s[k - 1]
      BY <1>1
    <2>1. k - 1 \in i .. n /\ (k - 1) + 1 = k
      BY <1>1
    <2> QED BY <1>1, <2>1
  <1>3. \A k \in 1 .. n : \E l \in 1 .. n + 1 : r[l] = s[k]
    <2> TAKE k \in 1 .. n
    <2>1. CASE k < i
      BY <1>1, <2>1
    <2>2. CASE ~(k < i)
      <3>1. k \in i .. n /\ k + 1 \in 1 .. n + 1
        BY <1>1, <2>2
      <3> QED BY <1>1, <3>1
    <2> QED BY <2>1, <2>2
  <1> HIDE DEF r, n
  <1>4. ToSet(r) = ToSet(s) \cup {e}
    <2>1. \A k \in 1 .. n + 1 : r[k] \in {s[j] : j \in 1 .. n} \cup {e}
      BY <1>1, <1>2
    <2>2. \A k \in 1 .. n : s[k] \in {r[j] : j \in 1 .. n + 1}
      BY <1>3
    <2>3. e \in {r[j] : j \in 1 .. n + 1}
      BY <1>1
    <2>4. ToSet(r) = {r[j] : j \in 1 .. n + 1} /\ ToSet(s) = {s[j] : j \in 1 .. n}
      BY <1>1 DEF ToSet
    <2>5. ToSet(r) \subseteq ToSet(s) \cup {e}
      BY <2>1, <2>4
    <2>6. ToSet(s) \subseteq ToSet(r) /\ e \in ToSet(r)
      BY <2>2, <2>3, <2>4
    <2> QED BY <2>5, <2>6
  <1>5. ASSUME IsInjective(s), e \notin ToSet(s) PROVE IsInjective(r)
    <2>1. \A k, l \in 1 .. n : s[k] = s[l] => k = l
      BY <1>1, <1>5 DEF IsInjective
    <2>2. \A k \in 1 .. n : s[k] # e
      BY <1>1, <1>5 DEF ToSet
    <2>3. \A k, l \in 1 .. n + 1 : r[k] = r[l] => k = l
      BY SMTT(40), <1>1, <1>2, <2>1, <2>2
    <2> QED BY <1>1, <2>3 DEF IsInjective
  <1> QED BY <1>4, <1>5 DEF r

LEMMA RemovedSet ==
  ASSUME NEW S, NEW s \in Seq(S), NEW e, IsInjective(s)
  PROVE  /\ RemoveFirst(s, e) \in Seq(S)
         /\ ToSet(RemoveFirst(s, e)) = ToSet(s) \ {e}
         /\ IsInjective(RemoveFirst(s, e))
  <1> DEFINE n == Len(s)
  <1>1. n \in Nat /\ DOMAIN s = 1 .. n /\ \A k, l \in 1 .. n : s[k] = s[l] => k = l
    BY DEF IsInjective
  <1>2. CASE ~ \E k \in 1 .. n : s[k] = e
    <2>1. RemoveFirst(s, e) = s
      BY <1>2 DEF RemoveFirst
    <2> QED BY <1>1, <1>2, <2>1 DEF ToSet
  <1>3. ASSUME NEW k \in 1 .. n, s[k] = e
        PROVE  /\ RemoveFirst(s, e) \in Seq(S)
               /\ ToSet(RemoveFirst(s, e)) = ToSet(s) \ {e}
               /\ IsInjective(RemoveFirst(s, e))
    <2>1. {i \in 1 .. Len(s) : s[i] = e} = {k}
      BY <1>1, <1>3
    <2>2. Min({k}) = k
      BY <1>1 DEF Min
    <2>3. SelectInSeq(s, LAMBDA v : v = e) = k
      BY <2>1, <2>2 DEF SelectInSeq
    <2>4. RemoveFirst(s, e) = RemoveAt(s, k)
      BY <1>3, <2>3 DEF RemoveFirst
    <2> DEFINE r == RemoveAt(s, k)
    <2>5. r \in Seq(S) /\ DOMAIN r = 1 .. n - 1
      BY <1>1, Deleted
    <2>6. \A i \in 1 .. k - 1 : r[i] = s[i]
      BY <1>1, Deleted
    <2>7. \A i \in k .. n - 1 : r[i] = s[i + 1]
      BY <1>1, Deleted
    <2> HIDE DEF r, n
    <2>8. \A i \in 1 .. n - 1 : \E j \in 1 .. n : r[i] = s[j] /\ j # k
      <3> TAKE i \in 1 .. n - 1
      <3>1. CASE i < k
        BY <1>1, <2>6, <3>1
      <3>2. CASE ~(i < k)
        <4>1. i \in k .. n - 1 /\ i + 1 \in 1 .. n /\ i + 1 # k
          BY <1>1, <3>2
        <4> QED BY <2>7, <4>1
      <3> QED BY <3>1, <3>2
    <2>9. \A j \in 1 .. n : j # k => \E i \in 1 .. n - 1 : r[i] = s[j]
      <3> SUFFICES ASSUME NEW j \in 1 .. n, j # k PROVE \E i \in 1 .. n - 1 : r[i] = s[j]
        OBVIOUS
      <3>1. CASE j < k
        BY <1>1, <2>6, <3>1
      <3>2. CASE ~(j < k)
        <4>1. j - 1 \in k .. n - 1 /\ j - 1 \in 1 .. n - 1 /\ (j - 1) + 1 = j
          BY <1>1, <3>2
        <4> QED BY <2>7, <4>1
      <3> QED BY <3>1, <3>2
    <2>10. ToSet(r) = ToSet(s) \ {e}
      <3>1. \A i \in 1 .. n - 1 : r[i] \in {s[j] : j \in 1 .. n} \ {e}
        BY <1>1, <1>3, <2>8
      <3>2. \A j \in 1 .. n : s[j] # e => s[j] \in {r[i] : i \in 1 .. n - 1}
        BY <1>1, <1>3, <2>9
      <3>3. ToSet(r) = {r[i] : i \in 1 .. n - 1} /\ ToSet(s) = {s[j] : j \in 1 .. n}
        BY <1>1, <2>5 DEF ToSet
      <3> QED BY <3>1, <3>2, <3>3
    <2>11. \A i, j \in 1 .. n - 1 : i < j => r[i] # r[j]
      <3> SUFFICES ASSUME NEW i \in 1 .. n - 1, NEW j \in 1 .. n - 1, i < j PROVE r[i] # r[j]
        OBVIOUS
      <3>1. i \in Int /\ j \in Int /\ k \in Int
        BY <1>1
      <3>2. r[i] = s[IF i < k THEN i ELSE i + 1]
        BY <1>1, <2>6, <2>7
      <3>3. r[j] = s[IF j < k THEN j ELSE j + 1]
        BY <1>1, <2>6, <2>7
      <3> QED BY <1>1, <3>1, <3>2, <3>3
    <2>12. IsInjective(r)
      BY <2>5, <2>11 DEF IsInjective
    <2> QED BY <2>4, <2>5, <2>10, <2>12 DEF r
  <1> QED BY <1>2, <1>3
-----------------------------------------------------------------------------
(* What is reached from a group: the least set that contains it and is     *)
(* closed under down.                                                      *)
LEMMA ReachedFacts ==
  ASSUME NEW down, NEW g \in Groups, \A h \in Groups : down[h] \subseteq Groups
  PROVE  /\ g \in Reached(down, g) /\ Reached(down, g) \subseteq Groups
         /\ \A h \in Reached(down, g) : down[h] \subseteq Reached(down, g)
         /\ \A S \in SUBSET Groups :
               g \in S /\ (\A i \in S : down[i] \subseteq S) => Reached(down, g) \subseteq S
  BY DEF Reached

LEMMA ReachedOn ==
  ASSUME NEW down, NEW g \in Groups, \A h \in Groups : down[h] \subseteq Groups,
         NEW h \in Reached(down, g)
  PROVE  h \in Groups /\ Reached(down, h) \subseteq Reached(down, g)
  <1>1. h \in Groups
    BY ReachedFacts
  <1>2. /\ Reached(down, g) \in SUBSET Groups /\ h \in Reached(down, g)
        /\ \A i \in Reached(down, g) : down[i] \subseteq Reached(down, g)
    BY ReachedFacts
  <1>3. \A S \in SUBSET Groups :
           h \in S /\ (\A i \in S : down[i] \subseteq S) => Reached(down, h) \subseteq S
    BY <1>1, ReachedFacts
  <1> QED BY <1>1, <1>2, <1>3

(* The tree as the parents give it: the subgroups of each group, and what   *)
(* goes away with a node.                                                  *)
Parents == [Nodes -> Groups \cup {Nil}]
Kids(p) == [g \in Groups |-> {h \in Groups : p[h] = g}]
Desc(p, n) == IF n \in Groups THEN {m \in Nodes : p[m] \in Reached(Kids(p), n)} ELSE {}
Gone(p, n) == Desc(p, n) \cup {n}
Without(p, S) == [m \in Nodes |-> IF m \in S THEN Nil ELSE p[m]]

(* Everything hangs below the root.                                        *)
Hangs(p) ==
    /\ p \in Parents /\ p[Root] = Nil
    /\ \A n \in Nodes : p[n] # Nil => p[n] \in Reached(Kids(p), Root)

LEMMA NodeFacts ==
  /\ Root \in Groups /\ Root \in Nodes /\ Nil \notin Groups /\ Nil \notin Nodes
  /\ Groups \subseteq Nodes /\ Synths \subseteq Nodes /\ Synths \cap Groups = {}
  /\ IsFiniteSet(Nodes)
  BY NodesAssumption, NilAssumption DEF Groups, Nodes

LEMMA KidsFacts ==
  ASSUME NEW p, NEW g \in Groups
  PROVE  /\ g \in Reached(Kids(p), g) /\ Reached(Kids(p), g) \subseteq Groups
         /\ \A h \in Groups : p[h] \in Reached(Kids(p), g) => h \in Reached(Kids(p), g)
         /\ \A S \in SUBSET Groups :
               g \in S /\ (\A h \in Groups : p[h] \in S => h \in S)
               => Reached(Kids(p), g) \subseteq S
  <1>1. \A h \in Groups : Kids(p)[h] = {i \in Groups : p[i] = h}
    BY DEF Kids
  <1>2. \A h \in Groups : Kids(p)[h] \subseteq Groups
    BY <1>1
  <1>3. /\ g \in Reached(Kids(p), g) /\ Reached(Kids(p), g) \subseteq Groups
        /\ \A h \in Reached(Kids(p), g) : Kids(p)[h] \subseteq Reached(Kids(p), g)
    BY <1>2, ReachedFacts
  <1>4. \A S \in SUBSET Groups :
           g \in S /\ (\A i \in S : Kids(p)[i] \subseteq S) => Reached(Kids(p), g) \subseteq S
    BY <1>2, ReachedFacts
  <1>5. ASSUME NEW S \in SUBSET Groups, g \in S, \A h \in Groups : p[h] \in S => h \in S
        PROVE  Reached(Kids(p), g) \subseteq S
    <2>1. \A i \in S : Kids(p)[i] \subseteq S
      BY <1>1, <1>5
    <2> QED BY <1>4, <1>5, <2>1
  <1> QED BY <1>1, <1>3, <1>5

(* What goes away is closed: the children of what goes away, and nothing    *)
(* but n has a parent that stays.                                          *)
LEMMA GoneFacts ==
  ASSUME NEW p \in Parents, NEW n \in Nodes
  PROVE  /\ Gone(p, n) \subseteq Nodes /\ n \in Gone(p, n)
         /\ \A m \in Nodes : p[m] \in Gone(p, n) => m \in Gone(p, n)
         /\ \A m \in Gone(p, n) : m # n => n \in Groups /\ p[m] \in Gone(p, n)
  <1>1. CASE n \in Groups
    <2>1. Desc(p, n) = {m \in Nodes : p[m] \in Reached(Kids(p), n)}
      BY <1>1 DEF Desc
    <2>2. /\ n \in Reached(Kids(p), n) /\ Reached(Kids(p), n) \subseteq Groups
          /\ \A h \in Groups : p[h] \in Reached(Kids(p), n) => h \in Reached(Kids(p), n)
      BY <1>1, KidsFacts
    <2>3. Reached(Kids(p), n) \subseteq Gone(p, n)
      <3> DEFINE S == Reached(Kids(p), n) \cap Gone(p, n)
      <3>1. S \in SUBSET Groups /\ n \in S
        BY <2>2 DEF Gone
      <3>2. \A h \in Groups : p[h] \in S => h \in S
        BY <2>1, <2>2, NodeFacts DEF Gone
      <3> HIDE DEF S
      <3>3. Reached(Kids(p), n) \subseteq S
        <4>1. \A X \in SUBSET Groups :
                 n \in X /\ (\A h \in Groups : p[h] \in X => h \in X) => Reached(Kids(p), n) \subseteq X
          BY <1>1, KidsFacts
        <4> QED BY <3>1, <3>2, <4>1
      <3> QED BY <3>3 DEF S
    <2>4. ASSUME NEW m \in Nodes, p[m] \in Gone(p, n) PROVE m \in Gone(p, n)
      <3>1. p[m] \in Groups \cup {Nil}
        BY DEF Parents
      <3>2. p[m] \in Reached(Kids(p), n)
        <4>1. CASE p[m] = n
          BY <2>2, <4>1
        <4>2. CASE p[m] # n
          <5>1. p[m] \in Nodes /\ p[p[m]] \in Reached(Kids(p), n)
            BY <2>1, <2>4, <4>2 DEF Gone
          <5>2. p[m] \in Groups
            BY <3>1, <5>1, NodeFacts
          <5> QED BY <2>2, <5>1, <5>2
        <4> QED BY <4>1, <4>2
      <3> QED BY <2>1, <3>2 DEF Gone
    <2>5. \A m \in Gone(p, n) : m # n => p[m] \in Gone(p, n)
      BY <2>1, <2>3 DEF Gone
    <2> QED BY <1>1, <2>1, <2>4, <2>5 DEF Gone
  <1>2. CASE n \notin Groups
    BY <1>2, NodeFacts DEF Gone, Desc, Parents
  <1> QED BY <1>1, <1>2

(* Nothing that goes away is above what stays: the root stays, and so does *)
(* the parent of n.                                                        *)
LEMMA RootStays ==
  ASSUME NEW p, Hangs(p), NEW n \in Nodes, n # Root
  PROVE  Root \notin Gone(p, n) /\ (p[n] # Nil => p[n] \notin Gone(p, n))
  <1>1. p \in Parents /\ p[Root] = Nil
    BY DEF Hangs
  <1>2. /\ Gone(p, n) \subseteq Nodes
        /\ \A m \in Nodes : p[m] \in Gone(p, n) => m \in Gone(p, n)
        /\ \A m \in Gone(p, n) : m # n => p[m] \in Gone(p, n)
    BY <1>1, GoneFacts
  <1>3. Root \notin Gone(p, n)
    BY <1>1, <1>2, NodeFacts
  <1>4. ASSUME p[n] # Nil, p[n] \in Gone(p, n) PROVE FALSE
    <2> DEFINE S == Groups \ Gone(p, n)
    <2>1. Root \in S /\ S \in SUBSET Groups
      BY <1>3, NodeFacts
    <2>2. \A h \in Groups : p[h] \in S => h \in S
      BY <1>2, <1>4
    <2>3. Reached(Kids(p), Root) \subseteq S
      <3> HIDE DEF S
      <3> QED BY <2>1, <2>2, NodeFacts, KidsFacts
    <2>4. p[n] \in Reached(Kids(p), Root)
      BY <1>4 DEF Hangs
    <2> QED BY <1>4, <2>3, <2>4
  <1> QED BY <1>3, <1>4

(* What is left hangs below the root when n has gone away.                 *)
LEMMA HangsWithout ==
  ASSUME NEW p, Hangs(p), NEW n \in Nodes, n # Root
  PROVE  Hangs(Without(p, Gone(p, n)))
  <1> DEFINE D == Gone(p, n)
             r == Without(p, D)
  <1>1. p \in Parents /\ p[Root] = Nil
    BY DEF Hangs
  <1>2. /\ D \subseteq Nodes
        /\ \A m \in Nodes : p[m] \in D => m \in D
    BY <1>1, GoneFacts
  <1>3. Root \notin D
    BY RootStays
  <1>4. r \in Parents /\ r[Root] = Nil /\ \A m \in Nodes : r[m] = IF m \in D THEN Nil ELSE p[m]
    BY <1>1, NodeFacts DEF Without, Parents
  <1> HIDE DEF D, r
  <1>5. Reached(Kids(p), Root) \subseteq Reached(Kids(r), Root) \cup D
    <2> DEFINE S == Reached(Kids(r), Root) \cup (D \cap Groups)
    <2>1. S \in SUBSET Groups /\ Root \in S
      BY KidsFacts, NodeFacts
    <2>2. ASSUME NEW h \in Groups, p[h] \in S PROVE h \in S
      <3>1. CASE h \in D
        BY <3>1
      <3>2. CASE h \notin D
        <4>1. r[h] = p[h] /\ p[h] \notin D
          BY <1>2, <1>4, <3>2, NodeFacts
        <4> QED BY <2>2, <4>1, KidsFacts, NodeFacts
      <3> QED BY <3>1, <3>2
    <2>3. Reached(Kids(p), Root) \subseteq S
      <3> HIDE DEF S
      <3> QED BY <2>1, <2>2, NodeFacts, KidsFacts
    <2> QED BY <2>3
  <1>6. ASSUME NEW m \in Nodes, r[m] # Nil PROVE r[m] \in Reached(Kids(r), Root)
    <2>1. m \notin D /\ r[m] = p[m] /\ p[m] \notin D
      BY <1>2, <1>4, <1>6
    <2>2. p[m] \in Reached(Kids(p), Root)
      BY <1>6, <2>1 DEF Hangs
    <2> QED BY <1>5, <2>1, <2>2
  <1>7. Hangs(r)
    BY <1>4, <1>6 DEF Hangs
  <1> QED BY <1>7 DEF r, D

(* A node that gets a parent that hangs below the root, where it had none. *)
LEMMA HangsWith ==
  ASSUME NEW p, Hangs(p), NEW n \in Nodes, n # Root, p[n] = Nil,
         NEW g \in Groups, g = Root \/ p[g] # Nil
  PROVE  Hangs([p EXCEPT ![n] = g])
  <1> DEFINE r == [p EXCEPT ![n] = g]
  <1>1. p \in Parents /\ p[Root] = Nil
    BY DEF Hangs
  <1>2. r \in Parents /\ r[Root] = Nil /\ \A m \in Nodes : r[m] = IF m = n THEN g ELSE p[m]
    BY <1>1, NodeFacts DEF Parents
  <1> HIDE DEF r
  <1>3. Reached(Kids(p), Root) \subseteq Reached(Kids(r), Root)
    <2> DEFINE S == Reached(Kids(r), Root)
    <2>1. S \in SUBSET Groups /\ Root \in S
      BY KidsFacts, NodeFacts
    <2>2. \A h \in Groups : p[h] \in S => h \in S
      <3> SUFFICES ASSUME NEW h \in Groups, p[h] \in S PROVE h \in S
        OBVIOUS
      <3>1. p[h] \in Groups
        BY <2>1
      <3>2. r[h] = p[h]
        BY <1>2, <3>1, NodeFacts
      <3> QED BY <3>2, KidsFacts, NodeFacts
    <2> HIDE DEF S
    <2>3. Reached(Kids(p), Root) \subseteq S
      BY <2>1, <2>2, NodeFacts, KidsFacts
    <2> QED BY <2>3 DEF S
  <1>4. g \in Reached(Kids(p), Root)
    <2>1. CASE g = Root
      BY <2>1, NodeFacts, KidsFacts
    <2>2. CASE p[g] # Nil
      <3>1. p[g] \in Reached(Kids(p), Root)
        BY <2>2, NodeFacts DEF Hangs
      <3> QED BY <3>1, NodeFacts, KidsFacts
    <2> QED BY <2>1, <2>2
  <1>5. \A m \in Nodes : r[m] # Nil => r[m] \in Reached(Kids(r), Root)
    BY <1>2, <1>3, <1>4 DEF Hangs
  <1>6. Hangs(r)
    BY <1>2, <1>5 DEF Hangs
  <1> QED BY <1>6 DEF r

(* A node that moves to a group which is not below it.                     *)
LEMMA HangsMoved ==
  ASSUME NEW p, Hangs(p), NEW n \in Nodes, n # Root, p[n] # Nil,
         NEW g \in Groups, g = Root \/ p[g] # Nil, g \notin Gone(p, n)
  PROVE  Hangs([p EXCEPT ![n] = g])
  <1> DEFINE r == [p EXCEPT ![n] = g]
             D == Gone(p, n)
  <1>1. p \in Parents /\ p[Root] = Nil
    BY DEF Hangs
  <1>2. r \in Parents /\ r[Root] = Nil /\ \A m \in Nodes : r[m] = IF m = n THEN g ELSE p[m]
    BY <1>1, NodeFacts DEF Parents
  <1>3. /\ D \subseteq Nodes /\ n \in D
        /\ \A m \in Nodes : p[m] \in D => m \in D
        /\ \A m \in D : m # n => n \in Groups /\ p[m] \in D
    BY <1>1, GoneFacts
  <1> DEFINE R == Reached(Kids(r), Root)
  <1> HIDE DEF r
  <1>4. R \subseteq Groups /\ Root \in R /\ \A h \in Groups : r[h] \in R => h \in R
    BY KidsFacts, NodeFacts
  <1> HIDE DEF R
  <1>5. Reached(Kids(p), Root) \subseteq R \cup D
    <2> DEFINE S == R \cup (D \cap Groups)
    <2>1. S \in SUBSET Groups /\ Root \in S
      BY <1>4
    <2>2. ASSUME NEW h \in Groups, p[h] \in S PROVE h \in S
      <3>1. CASE h \in D
        BY <3>1
      <3>2. CASE h \notin D
        <4>1. r[h] = p[h] /\ p[h] \notin D
          BY <1>2, <1>3, <3>2, NodeFacts
        <4> QED BY <1>4, <2>2, <4>1
      <3> QED BY <3>1, <3>2
    <2>3. Reached(Kids(p), Root) \subseteq S
      <3> HIDE DEF S
      <3> QED BY <2>1, <2>2, NodeFacts, KidsFacts
    <2> QED BY <2>3
  <1>6. g \in R
    <2>1. g \in Reached(Kids(p), Root)
      <3>1. CASE g = Root
        BY <3>1, NodeFacts, KidsFacts
      <3>2. CASE p[g] # Nil
        <4>1. p[g] \in Reached(Kids(p), Root)
          BY <3>2, NodeFacts DEF Hangs
        <4> QED BY <4>1, NodeFacts, KidsFacts
      <3> QED BY <3>1, <3>2
    <2> QED BY <1>5, <2>1 DEF D
  <1>7. D \cap Groups \subseteq R
    <2>1. CASE n \in Groups
      <3>1. n \in R
        BY <1>2, <1>4, <1>6, <2>1, NodeFacts
      <3>2. \A h \in Groups : p[h] \in R => h \in R
        BY <1>2, <1>4, <3>1, NodeFacts
      <3>3. Reached(Kids(p), n) \subseteq R
        BY <1>4, <2>1, <3>1, <3>2, KidsFacts
      <3>4. \A m \in D : m = n \/ p[m] \in Reached(Kids(p), n)
        BY <2>1 DEF D, Gone, Desc
      <3> QED BY <3>1, <3>2, <3>3, <3>4
    <2>2. CASE n \notin Groups
      BY <1>3, <2>2
    <2> QED BY <2>1, <2>2
  <1>8. ASSUME NEW m \in Nodes, r[m] # Nil PROVE r[m] \in R
    <2>1. CASE m = n
      BY <1>2, <1>6, <2>1
    <2>2. CASE m # n
      <3>1. p[m] \in Reached(Kids(p), Root) /\ r[m] = p[m] /\ p[m] \in Groups
        BY <1>2, <1>8, <2>2, NodeFacts, KidsFacts DEF Hangs
      <3> QED BY <1>5, <1>7, <3>1
    <2> QED BY <2>1, <2>2
  <1>9. Hangs(r)
    BY <1>2, <1>8 DEF Hangs, R
  <1> QED BY <1>9 DEF r

-----------------------------------------------------------------------------
(* The lists and the counters beside them fit the parents.                 *)
Trees == [kids   : [Groups -> Seq(Nodes)],
          parent : Parents,
          nsyn   : [Groups -> Int],
          groups : [Groups -> SUBSET Groups]]
Kin(p, g) == {n \in Nodes : p[n] = g}
FitsAt(t, g) ==
    /\ ToSet(t.kids[g]) = Kin(t.parent, g) /\ IsInjective(t.kids[g])
    /\ t.nsyn[g] = Cardinality(Kin(t.parent, g) \cap Synths)
    /\ t.groups[g] = Kin(t.parent, g) \cap Groups
Sound(t) ==
    /\ t \in Trees
    /\ Hangs(t.parent)
    /\ \A g \in Groups : FitsAt(t, g)

LEMMA TreeFacts ==
  ASSUME NEW t \in Trees
  PROVE  /\ t.kids \in [Groups -> Seq(Nodes)] /\ t.parent \in [Nodes -> Groups \cup {Nil}]
         /\ t.nsyn \in [Groups -> Int] /\ t.groups \in [Groups -> SUBSET Groups]
         /\ \A g \in Groups : t.kids[g] \in Seq(Nodes)
  BY DEF Trees, Parents

LEMMA TreeIs ==
  ASSUME NEW k \in [Groups -> Seq(Nodes)], NEW p \in Parents,
         NEW c \in [Groups -> Int], NEW s \in [Groups -> SUBSET Groups]
  PROVE  [kids |-> k, parent |-> p, nsyn |-> c, groups |-> s] \in Trees
  BY DEF Trees

(* Counting one child more or less.                                        *)
LEMMA OneMore ==
  ASSUME NEW S \in SUBSET Nodes, NEW n \in Nodes
  PROVE  /\ IsFiniteSet(S \cap Synths)
         /\ n \in Synths /\ n \notin S =>
               Cardinality((S \cup {n}) \cap Synths) = Cardinality(S \cap Synths) + 1
         /\ n \in Synths /\ n \in S =>
               Cardinality((S \ {n}) \cap Synths) = Cardinality(S \cap Synths) - 1
         /\ n \notin Synths =>
               (S \cup {n}) \cap Synths = S \cap Synths /\ (S \ {n}) \cap Synths = S \cap Synths
         /\ Cardinality(S \cap Synths) \in Nat
  <1>1. IsFiniteSet(S \cap Synths)
    <2>1. S \cap Synths \subseteq Nodes
      OBVIOUS
    <2> QED BY <2>1, NodeFacts, FS_Subset
  <1>2. Cardinality(S \cap Synths) \in Nat
    BY <1>1, FS_CardinalityType
  <1>3. ASSUME n \in Synths, n \notin S
        PROVE  Cardinality((S \cup {n}) \cap Synths) = Cardinality(S \cap Synths) + 1
    <2>1. (S \cup {n}) \cap Synths = (S \cap Synths) \cup {n} /\ n \notin S \cap Synths
      BY <1>3
    <2> QED BY <1>1, <2>1, FS_AddElement
  <1>4. ASSUME n \in Synths, n \in S
        PROVE  Cardinality((S \ {n}) \cap Synths) = Cardinality(S \cap Synths) - 1
    <2>1. (S \ {n}) \cap Synths = (S \cap Synths) \ {n} /\ n \in S \cap Synths
      BY <1>4
    <2>2. Cardinality((S \cap Synths) \ {n}) = Cardinality(S \cap Synths) - 1
      <3>1. PICK X : X = S \cap Synths
        OBVIOUS
      <3> QED BY <1>1, <2>1, <3>1, FS_RemoveElement
    <2> QED BY <2>1, <2>2
  <1>5. n \notin Synths =>
            (S \cup {n}) \cap Synths = S \cap Synths /\ (S \ {n}) \cap Synths = S \cap Synths
    OBVIOUS
  <1> QED BY <1>1, <1>2, <1>3, <1>4, <1>5

(* One counter, one group list.                                           *)
CountAt(t, g, c) == [t EXCEPT !.nsyn[g] = c]
GroupsAt(t, g, S) == [t EXCEPT !.groups[g] = S]

LEMMA CountIs ==
  ASSUME NEW t \in Trees, NEW g \in Groups, NEW c \in Int
  PROVE  LET u == CountAt(t, g, c) IN
         /\ u \in Trees /\ u.kids = t.kids /\ u.parent = t.parent /\ u.groups = t.groups
         /\ \A h \in Groups : u.nsyn[h] = IF h = g THEN c ELSE t.nsyn[h]
  <1> DEFINE u == CountAt(t, g, c)
             f == [t.nsyn EXCEPT ![g] = c]
  <1>1. f \in [Groups -> Int] /\ \A h \in Groups : f[h] = IF h = g THEN c ELSE t.nsyn[h]
    BY TreeFacts
  <1>2. u = [t EXCEPT !.nsyn = f]
    BY DEF Trees, CountAt
  <1> HIDE DEF f
  <1>3. u \in Trees /\ u.nsyn = f
    BY <1>1, <1>2 DEF Trees
  <1>4. u.kids = t.kids /\ u.parent = t.parent /\ u.groups = t.groups
    BY <1>2 DEF Trees
  <1> QED BY <1>1, <1>3, <1>4

LEMMA GroupsAre ==
  ASSUME NEW t \in Trees, NEW g \in Groups, NEW S \in SUBSET Groups
  PROVE  LET u == GroupsAt(t, g, S) IN
         /\ u \in Trees /\ u.kids = t.kids /\ u.parent = t.parent /\ u.nsyn = t.nsyn
         /\ \A h \in Groups : u.groups[h] = IF h = g THEN S ELSE t.groups[h]
  <1> DEFINE u == GroupsAt(t, g, S)
             f == [t.groups EXCEPT ![g] = S]
  <1>1. f \in [Groups -> SUBSET Groups] /\ \A h \in Groups : f[h] = IF h = g THEN S ELSE t.groups[h]
    BY TreeFacts
  <1>2. u = [t EXCEPT !.groups = f]
    BY DEF Trees, GroupsAt
  <1> HIDE DEF f
  <1>3. u \in Trees /\ u.groups = f
    BY <1>1, <1>2 DEF Trees
  <1>4. u.kids = t.kids /\ u.parent = t.parent /\ u.nsyn = t.nsyn
    BY <1>2 DEF Trees
  <1> QED BY <1>1, <1>3, <1>4

LEMMA CountedIn ==
  ASSUME NEW t \in Trees, NEW g \in Groups, NEW n \in Nodes
  PROVE  LET u == Counted(t, g, n, 1) IN
         /\ u \in Trees /\ u.kids = t.kids /\ u.parent = t.parent
         /\ \A h \in Groups : h # g => u.nsyn[h] = t.nsyn[h] /\ u.groups[h] = t.groups[h]
         /\ u.nsyn[g] = IF n \in Synths THEN t.nsyn[g] + 1 ELSE t.nsyn[g]
         /\ u.groups[g] = IF n \in Synths THEN t.groups[g] ELSE t.groups[g] \cup {n}
  <1>1. t.nsyn[g] + 1 \in Int /\ t.groups[g] \in SUBSET Groups
    BY TreeFacts
  <1>2. CASE n \in Synths
    <2>1. PICK c \in Int : c = t.nsyn[g] + 1
      BY <1>1
    <2>2. Counted(t, g, n, 1) = CountAt(t, g, c)
      BY <1>1, <1>2, <2>1 DEF Counted, CountAt
    <2>3. LET u == Counted(t, g, n, 1) IN
          /\ u \in Trees /\ u.kids = t.kids /\ u.parent = t.parent /\ u.groups = t.groups
          /\ \A h \in Groups : u.nsyn[h] = IF h = g THEN c ELSE t.nsyn[h]
      BY <2>2, CountIs
    <2> QED BY <1>2, <2>1, <2>3
  <1>3. CASE n \notin Synths
    <2>1. Counted(t, g, n, 1) = GroupsAt(t, g, t.groups[g] \cup {n}) /\ n \in Groups
      BY <1>3 DEF Counted, Nodes, GroupsAt
    <2>2. PICK S \in SUBSET Groups : S = t.groups[g] \cup {n}
      BY <1>1, <2>1
    <2>3. LET u == Counted(t, g, n, 1) IN
          /\ u \in Trees /\ u.kids = t.kids /\ u.parent = t.parent /\ u.nsyn = t.nsyn
          /\ \A h \in Groups : u.groups[h] = IF h = g THEN S ELSE t.groups[h]
      BY <2>1, <2>2, GroupsAre
    <2> QED BY <1>3, <2>2, <2>3
  <1> QED BY <1>2, <1>3

LEMMA CountedOut ==
  ASSUME NEW t \in Trees, NEW g \in Groups, NEW n \in Nodes
  PROVE  LET u == Counted(t, g, n, -1) IN
         /\ u \in Trees /\ u.kids = t.kids /\ u.parent = t.parent
         /\ \A h \in Groups : h # g => u.nsyn[h] = t.nsyn[h] /\ u.groups[h] = t.groups[h]
         /\ u.nsyn[g] = IF n \in Synths THEN t.nsyn[g] - 1 ELSE t.nsyn[g]
         /\ u.groups[g] = IF n \in Synths THEN t.groups[g] ELSE t.groups[g] \ {n}
  <1>1. t.nsyn[g] - 1 \in Int /\ t.nsyn[g] + -1 = t.nsyn[g] - 1 /\ t.groups[g] \in SUBSET Groups
    BY TreeFacts
  <1>2. CASE n \in Synths
    <2>1. PICK c \in Int : c = t.nsyn[g] - 1
      BY <1>1
    <2>2. Counted(t, g, n, -1) = CountAt(t, g, c)
      BY <1>1, <1>2, <2>1 DEF Counted, CountAt
    <2>3. LET u == Counted(t, g, n, -1) IN
          /\ u \in Trees /\ u.kids = t.kids /\ u.parent = t.parent /\ u.groups = t.groups
          /\ \A h \in Groups : u.nsyn[h] = IF h = g THEN c ELSE t.nsyn[h]
      BY <2>2, CountIs
    <2> QED BY <1>2, <2>1, <2>3
  <1>3. CASE n \notin Synths
    <2>1. Counted(t, g, n, -1) = GroupsAt(t, g, t.groups[g] \ {n})
      BY <1>3 DEF Counted, GroupsAt
    <2>2. PICK S \in SUBSET Groups : S = t.groups[g] \ {n}
      BY <1>1
    <2>3. LET u == Counted(t, g, n, -1) IN
          /\ u \in Trees /\ u.kids = t.kids /\ u.parent = t.parent /\ u.nsyn = t.nsyn
          /\ \A h \in Groups : u.groups[h] = IF h = g THEN S ELSE t.groups[h]
      BY <2>1, <2>2, GroupsAre
    <2> QED BY <1>3, <2>2, <2>3
  <1> QED BY <1>2, <1>3

(* A node that had no parent is linked.                                    *)
LEMMA LinkedSound ==
  ASSUME NEW t, Sound(t), NEW n \in Nodes, n # Root, t.parent[n] = Nil,
         NEW g \in Groups, g = Root \/ t.parent[g] # Nil,
         NEW position \in 1 .. Len(t.kids[g]) + 1
  PROVE  /\ Sound(Linked(t, n, g, position))
         /\ \A m \in Nodes :
               Linked(t, n, g, position).parent[m] = IF m = n THEN g ELSE t.parent[m]
         /\ \A x \in Groups : Linked(t, n, g, position).kids[x] =
               IF x = g THEN InsertAt(t.kids[g], position, n) ELSE t.kids[x]
  <1> DEFINE v == [t EXCEPT !.kids[g] = InsertAt(@, position, n), !.parent[n] = g]
             u == Linked(t, n, g, position)
             p == [t.parent EXCEPT ![n] = g]
  <1>1. t \in Trees /\ Hangs(t.parent) /\ \A h \in Groups : FitsAt(t, h)
    BY DEF Sound
  <1>2. /\ InsertAt(t.kids[g], position, n) \in Seq(Nodes)
        /\ ToSet(InsertAt(t.kids[g], position, n)) = ToSet(t.kids[g]) \cup {n}
        /\ n \notin ToSet(t.kids[g]) => IsInjective(InsertAt(t.kids[g], position, n))
    <2>1. t.kids[g] \in Seq(Nodes) /\ IsInjective(t.kids[g])
      BY <1>1, TreeFacts DEF FitsAt
    <2> QED BY <2>1, Inserted, InsertedSet
  <1>3. /\ v \in Trees /\ v.kids = [t.kids EXCEPT ![g] = InsertAt(t.kids[g], position, n)]
        /\ v.parent = p /\ v.nsyn = t.nsyn /\ v.groups = t.groups
    BY <1>1, <1>2 DEF Trees, Parents
  <1>4. u = Counted(v, g, n, 1)
    BY DEF Linked
  <1> HIDE DEF v, u
  <1>5. /\ u \in Trees /\ u.kids = v.kids /\ u.parent = v.parent
        /\ \A h \in Groups : h # g => u.nsyn[h] = v.nsyn[h] /\ u.groups[h] = v.groups[h]
        /\ u.nsyn[g] = IF n \in Synths THEN v.nsyn[g] + 1 ELSE v.nsyn[g]
        /\ u.groups[g] = IF n \in Synths THEN v.groups[g] ELSE v.groups[g] \cup {n}
    <2> QED BY <1>3, <1>4, CountedIn
  <1>6. Hangs(p)
    BY <1>1, HangsWith
  <1>7. \A m \in Nodes : p[m] = IF m = n THEN g ELSE t.parent[m]
    BY <1>1, TreeFacts
  <1> HIDE DEF p
  <1>8. Kin(p, g) = Kin(t.parent, g) \cup {n} /\ n \notin Kin(t.parent, g)
    BY <1>7, NodeFacts DEF Kin
  <1>9. FitsAt(u, g)
    <2>1. u.kids[g] = InsertAt(t.kids[g], position, n)
      BY <1>1, <1>3, <1>5, TreeFacts
    <2>2. ToSet(u.kids[g]) = Kin(p, g) /\ IsInjective(u.kids[g])
      BY <1>1, <1>2, <1>8, <2>1 DEF FitsAt
    <2>3. Kin(t.parent, g) \in SUBSET Nodes
      BY DEF Kin
    <2>4. u.nsyn[g] = Cardinality(Kin(p, g) \cap Synths)
      <3>1. t.nsyn[g] = Cardinality(Kin(t.parent, g) \cap Synths)
        BY <1>1 DEF FitsAt
      <3>2. CASE n \in Synths
        <4>1. Cardinality((Kin(t.parent, g) \cup {n}) \cap Synths)
                = Cardinality(Kin(t.parent, g) \cap Synths) + 1
          BY <1>8, <2>3, <3>2, OneMore
        <4> QED BY <1>3, <1>5, <1>8, <3>1, <3>2, <4>1
      <3>3. CASE n \notin Synths
        BY <1>3, <1>5, <1>8, <2>3, <3>1, <3>3, OneMore
      <3> QED BY <3>2, <3>3
    <2>5. u.groups[g] = Kin(p, g) \cap Groups
      <3>1. t.groups[g] = Kin(t.parent, g) \cap Groups
        BY <1>1 DEF FitsAt
      <3> QED BY <1>3, <1>5, <1>8, <3>1, NodeFacts DEF Nodes
    <2> QED BY <1>3, <1>5, <2>2, <2>4, <2>5 DEF FitsAt
  <1>10. ASSUME NEW h \in Groups, h # g PROVE FitsAt(u, h)
    <2>1. u.kids[h] = t.kids[h] /\ u.nsyn[h] = t.nsyn[h] /\ u.groups[h] = t.groups[h]
      BY <1>1, <1>3, <1>5, <1>10, TreeFacts
    <2>2. Kin(p, h) = Kin(t.parent, h)
      BY <1>7, <1>10, NodeFacts DEF Kin
    <2>3. FitsAt(t, h) /\ u.parent = p
      BY <1>1, <1>3, <1>5
    <2> QED BY <2>1, <2>2, <2>3 DEF FitsAt
  <1>11. Sound(u)
    BY <1>3, <1>5, <1>6, <1>9, <1>10 DEF Sound
  <1>12. \A x \in Groups : u.kids[x] = IF x = g THEN InsertAt(t.kids[g], position, n) ELSE t.kids[x]
    BY <1>1, <1>3, <1>5, TreeFacts
  <1> QED BY <1>3, <1>5, <1>7, <1>11, <1>12 DEF u

(* What the code finds below a node is what the parents say.               *)
LEMMA BelowIs ==
  ASSUME NEW t, Sound(t)
  PROVE  \A n \in Nodes : Below(t, n) = Desc(t.parent, n)
  <1>1. t \in Trees /\ \A g \in Groups : FitsAt(t, g)
    BY DEF Sound
  <1>2. \A g \in Groups : ToSet(t.kids[g]) = Kin(t.parent, g)
    BY <1>1 DEF FitsAt
  <1>3. Subgroups(t) = Kids(t.parent)
    BY <1>2, NodeFacts DEF Subgroups, Kids, Kin
  <1>4. ASSUME NEW n \in Groups PROVE Below(t, n) = Desc(t.parent, n)
    <2>1. Reached(Kids(t.parent), n) \subseteq Groups
      BY KidsFacts
    <2>2. Below(t, n) = UNION {ToSet(t.kids[g]) : g \in Reached(Kids(t.parent), n)}
      BY <1>3, <1>4, NodeFacts DEF Below
    <2>3. Desc(t.parent, n) = {m \in Nodes : t.parent[m] \in Reached(Kids(t.parent), n)}
      BY <1>4 DEF Desc
    <2>4. \A m : m \in Below(t, n) <=> \E g \in Reached(Kids(t.parent), n) : m \in Kin(t.parent, g)
      BY <1>2, <2>1, <2>2
    <2>5. \A m : m \in Below(t, n) <=> m \in Desc(t.parent, n)
      BY <2>3, <2>4 DEF Kin
    <2> QED BY <2>5
  <1>5. \A n \in Nodes : n \notin Groups => Below(t, n) = Desc(t.parent, n)
    BY NodeFacts DEF Below, Desc, Nodes
  <1> QED BY <1>4, <1>5

(* A node is removed, and with it what is below it.                        *)
LEMMA RemovedSound ==
  ASSUME NEW t, Sound(t), NEW n \in Nodes, n # Root, t.parent[n] # Nil
  PROVE  /\ Sound(Removed(t, n))
         /\ Removed(t, n).parent = Without(t.parent, Gone(t.parent, n))
  <1> DEFINE D == Gone(t.parent, n)
             h == t.parent[n]
             v == Unlisted(t, n)
             u == Counted(v, h, n, -1)
             q == Without(t.parent, D)
             kids == [g \in Groups |-> IF g \in D THEN <<>> ELSE u.kids[g]]
             nsyn == [g \in Groups |-> IF g \in D THEN 0 ELSE u.nsyn[g]]
             grps == [g \in Groups |-> IF g \in D THEN {} ELSE u.groups[g]]
             r == [kids |-> kids, parent |-> q, nsyn |-> nsyn, groups |-> grps]
  <1>1. t \in Trees /\ Hangs(t.parent) /\ \A g \in Groups : FitsAt(t, g)
    BY DEF Sound
  <1>2. t.parent \in Parents /\ h \in Groups
    BY <1>1, TreeFacts DEF Parents
  <1>3. /\ D \subseteq Nodes /\ n \in D
        /\ \A m \in Nodes : t.parent[m] \in D => m \in D
        /\ \A m \in D : m # n => t.parent[m] \in D
        /\ h \notin D
    BY <1>1, <1>2, GoneFacts, RootStays
  <1>4. \A g \in Groups : /\ RemoveFirst(t.kids[g], n) \in Seq(Nodes)
                          /\ ToSet(RemoveFirst(t.kids[g], n)) = Kin(t.parent, g) \ {n}
                          /\ IsInjective(RemoveFirst(t.kids[g], n))
    <2> TAKE g \in Groups
    <2>1. t.kids[g] \in Seq(Nodes) /\ IsInjective(t.kids[g]) /\ ToSet(t.kids[g]) = Kin(t.parent, g)
      BY <1>1, TreeFacts DEF FitsAt
    <2> QED BY <2>1, RemovedSet
  <1>5. /\ v \in Trees /\ v.parent = t.parent /\ v.nsyn = t.nsyn /\ v.groups = t.groups
        /\ \A g \in Groups : v.kids[g] = RemoveFirst(t.kids[g], n)
    <2> DEFINE k == [g \in Groups |-> RemoveFirst(t.kids[g], n)]
    <2>1. v = [t EXCEPT !.kids = k]
      BY DEF Unlisted
    <2>2. k \in [Groups -> Seq(Nodes)] /\ \A g \in Groups : k[g] = RemoveFirst(t.kids[g], n)
      BY <1>4
    <2> HIDE DEF k, v
    <2>3. /\ v \in Trees /\ v.kids = k /\ v.parent = t.parent /\ v.nsyn = t.nsyn /\ v.groups = t.groups
      BY <1>1, <2>1, <2>2 DEF Trees
    <2> QED BY <2>2, <2>3
  <1> HIDE DEF v
  <1>6. /\ u \in Trees /\ u.kids = v.kids /\ u.parent = v.parent
        /\ \A g \in Groups : g # h => u.nsyn[g] = v.nsyn[g] /\ u.groups[g] = v.groups[g]
        /\ u.nsyn[h] = IF n \in Synths THEN v.nsyn[h] - 1 ELSE v.nsyn[h]
        /\ u.groups[h] = IF n \in Synths THEN v.groups[h] ELSE v.groups[h] \ {n}
    <2> HIDE DEF h
    <2>1. v \in Trees /\ h \in Groups
      BY <1>2, <1>5
    <2> QED BY <2>1, CountedOut
  <1>7. Removed(t, n) = r
    <2>1. Below(t, n) \cup {n} = D
      BY BelowIs DEF Gone
    <2>2. [m \in Nodes |-> IF m \in D THEN Nil ELSE u.parent[m]] = q
      BY <1>5, <1>6 DEF Without
    <2> QED BY <2>1, <2>2 DEF Removed, v
  <1>8. q \in Parents /\ \A m \in Nodes : q[m] = IF m \in D THEN Nil ELSE t.parent[m]
    BY <1>2 DEF Without, Parents
  <1>9. Hangs(q)
    BY <1>1, HangsWithout
  <1> HIDE DEF u, D, h, q
  <1>10. /\ kids \in [Groups -> Seq(Nodes)] /\ nsyn \in [Groups -> Int]
         /\ grps \in [Groups -> SUBSET Groups]
    BY <1>6, TreeFacts
  <1>11. r \in Trees
    BY <1>8, <1>10, TreeIs
  <1>12. ASSUME NEW g \in Groups PROVE FitsAt(r, g)
    <2>1. CASE g \in D
      <3>1. r.kids[g] = <<>> /\ r.nsyn[g] = 0 /\ r.groups[g] = {} /\ r.parent = q
        BY <2>1
      <3>2. Kin(q, g) = {}
        BY <1>3, <1>8, <2>1, NodeFacts DEF Kin
      <3>3. ToSet(<<>>) = {} /\ IsInjective(<<>>)
        BY DEF ToSet, IsInjective
      <3>4. Cardinality(Kin(q, g) \cap Synths) = 0
        BY <3>2, FS_EmptySet
      <3> HIDE DEF r
      <3> QED BY <3>1, <3>2, <3>3, <3>4 DEF FitsAt
    <2>2. CASE g \notin D
      <3>1. /\ r.kids[g] = RemoveFirst(t.kids[g], n) /\ r.parent = q
            /\ r.nsyn[g] = u.nsyn[g] /\ r.groups[g] = u.groups[g]
        BY <1>5, <1>6, <2>2
      <3> HIDE DEF r
      <3>2. Kin(q, g) = Kin(t.parent, g) \ {n}
        BY <1>3, <1>8, <2>2, NodeFacts DEF Kin
      <3>3. /\ t.nsyn[g] = Cardinality(Kin(t.parent, g) \cap Synths)
            /\ t.groups[g] = Kin(t.parent, g) \cap Groups
        BY <1>1 DEF FitsAt
      <3>4. Kin(t.parent, g) \in SUBSET Nodes /\ (n \in Kin(t.parent, g) <=> g = h)
        BY <1>2 DEF Kin, h
      <3>5. u.nsyn[g] = Cardinality(Kin(q, g) \cap Synths)
        <4>1. CASE g = h /\ n \in Synths
          <5>1. Cardinality((Kin(t.parent, g) \ {n}) \cap Synths)
                  = Cardinality(Kin(t.parent, g) \cap Synths) - 1
            BY <3>4, <4>1, OneMore
          <5> QED BY <1>5, <1>6, <3>2, <3>3, <4>1, <5>1
        <4>2. CASE ~(g = h /\ n \in Synths)
          <5>1. (Kin(t.parent, g) \ {n}) \cap Synths = Kin(t.parent, g) \cap Synths
            BY <3>4, <4>2
          <5> QED BY <1>5, <1>6, <3>2, <3>3, <4>2, <5>1
        <4> QED BY <4>1, <4>2
      <3>6. u.groups[g] = Kin(q, g) \cap Groups
        BY <1>5, <1>6, <3>2, <3>3, <3>4, NodeFacts
      <3> QED BY <1>4, <3>1, <3>2, <3>5, <3>6 DEF FitsAt
    <2> QED BY <2>1, <2>2
  <1>13. Sound(r)
    <2>1. r.parent = q
      OBVIOUS
    <2> HIDE DEF r
    <2> QED BY <1>9, <1>11, <1>12, <2>1 DEF Sound
  <1> QED BY <1>7, <1>13 DEF q, D

(* Where a node is in the list it is in.                                   *)
LEMMA PositionInSeq ==
  ASSUME NEW S, NEW s \in Seq(S), IsInjective(s), NEW n \in ToSet(s)
  PROVE  /\ Len(s) \in Nat /\ SelectInSeq(s, LAMBDA m : m = n) \in 1 .. Len(s)
         /\ s[SelectInSeq(s, LAMBDA m : m = n)] = n
  <1> DEFINE I == {i \in 1 .. Len(s) : s[i] = n}
  <1>3. PICK k \in 1 .. Len(s) : s[k] = n
    BY DEF ToSet
  <1>4. I = {k}
    BY <1>3 DEF IsInjective
  <1>5. Min({k}) = k
    BY <1>3 DEF Min
  <1>6. SelectInSeq(s, LAMBDA m : m = n) = k
    BY <1>4, <1>5 DEF SelectInSeq
  <1> QED BY <1>3, <1>6

LEMMA PositionIn ==
  ASSUME NEW t, Sound(t), NEW n \in Nodes, t.parent[n] # Nil
  PROVE  LET g == t.parent[n]
             k == SelectInSeq(t.kids[g], LAMBDA m : m = n)
         IN /\ g \in Groups /\ t.kids[g] \in Seq(Nodes) /\ Len(t.kids[g]) \in Nat
            /\ k \in 1 .. Len(t.kids[g]) /\ t.kids[g][k] = n
  <1> DEFINE g == t.parent[n]
  <1>1. t \in Trees /\ g \in Groups
    BY TreeFacts DEF Sound, Parents
  <1>2. t.kids[g] \in Seq(Nodes) /\ IsInjective(t.kids[g]) /\ n \in ToSet(t.kids[g])
    BY <1>1, TreeFacts DEF Sound, FitsAt, Kin
  <1> QED BY <1>1, <1>2, PositionInSeq

-----------------------------------------------------------------------------
(* Removing several nodes, none of which goes away with another.           *)
LEMMA GoneLeast ==
  ASSUME NEW p, NEW x \in Nodes, NEW S \in SUBSET Nodes, x \in S,
         \A m \in Nodes : p[m] \in S => m \in S
  PROVE  Gone(p, x) \subseteq S
  <1>1. CASE x \in Groups
    <2>1. S \cap Groups \in SUBSET Groups /\ x \in S \cap Groups
      BY <1>1
    <2>2. \A h \in Groups : p[h] \in S \cap Groups => h \in S \cap Groups
      BY NodeFacts
    <2>3. Reached(Kids(p), x) \subseteq S \cap Groups
      BY <1>1, <2>1, <2>2, KidsFacts
    <2> QED BY <1>1, <2>3 DEF Gone, Desc
  <1>2. CASE x \notin Groups
    BY <1>2 DEF Gone, Desc
  <1> QED BY <1>1, <1>2

LEMMA GoneAfter ==
  ASSUME NEW p \in Parents, NEW D \in SUBSET Nodes, \A m \in Nodes : p[m] \in D => m \in D,
         NEW x \in Nodes \ D
  PROVE  /\ Gone(Without(p, D), x) \cup D = Gone(p, x) \cup D
         /\ Gone(Without(p, D), x) \subseteq Gone(p, x)
         /\ Without(Without(p, D), Gone(Without(p, D), x)) = Without(p, D \cup Gone(p, x))
  <1> DEFINE q == Without(p, D)
  <1>1. q \in Parents /\ \A m \in Nodes : q[m] = IF m \in D THEN Nil ELSE p[m]
    BY DEF Without, Parents
  <1>2. /\ Gone(p, x) \in SUBSET Nodes /\ x \in Gone(p, x)
        /\ \A m \in Nodes : p[m] \in Gone(p, x) => m \in Gone(p, x)
    BY GoneFacts
  <1> HIDE DEF q
  <1>3. /\ Gone(q, x) \in SUBSET Nodes /\ x \in Gone(q, x)
        /\ \A m \in Nodes : q[m] \in Gone(q, x) => m \in Gone(q, x)
    BY <1>1, GoneFacts
  <1>4. Gone(q, x) \subseteq Gone(p, x)
    <2>1. \A m \in Nodes : q[m] \in Gone(p, x) => m \in Gone(p, x)
      BY <1>1, <1>2, NodeFacts
    <2> QED BY <1>2, <2>1, GoneLeast
  <1>5. Gone(p, x) \subseteq Gone(q, x) \cup D
    <2> DEFINE S == Gone(q, x) \cup D
    <2>1. S \in SUBSET Nodes /\ x \in S
      BY <1>3
    <2>2. \A m \in Nodes : p[m] \in S => m \in S
      BY <1>1, <1>3
    <2> HIDE DEF S
    <2>3. Gone(p, x) \subseteq S
      BY <2>1, <2>2, GoneLeast
    <2> QED BY <2>3 DEF S
  <1>6. Without(q, Gone(q, x)) = Without(p, D \cup Gone(p, x))
    BY <1>1, <1>4, <1>5 DEF Without
  <1> QED BY <1>4, <1>5, <1>6 DEF q

(* A set of sets has a least one, and a set of numbers.                    *)
MinimalIn(X, C) == X \in C /\ \A Y \in C : Y \subseteq X => Y = X

LEMMA MinSubset ==
  ASSUME NEW S, IsFiniteSet(S), NEW C \in SUBSET (SUBSET S), C # {}
  PROVE  \E X : MinimalIn(X, C)
  <1>1. IsWellFoundedOn(StrictSubsetOrdering(S), FiniteSubsetsOf(S))
    BY FS_StrictSubsetOrderingWellFounded
  <1>2. C \subseteq FiniteSubsetsOf(S)
    BY FS_Subset DEF FiniteSubsetsOf
  <1>3. PICK X \in C : \A Y \in C : ~ (<<Y, X>> \in StrictSubsetOrdering(S))
    BY <1>1, <1>2, WFMin
  <1> QED BY <1>3 DEF StrictSubsetOrdering, MinimalIn

LEMMA LeastNat ==
  ASSUME NEW T, T \subseteq Nat, T # {}
  PROVE  \E m \in T : \A k \in T : m <= k
  <1>1. PICK n \in T : TRUE
    OBVIOUS
  <1> DEFINE C == {0 .. k : k \in T \cap (0 .. n)}
  <1>2. IsFiniteSet(0 .. n)
    BY <1>1, FS_Interval
  <1>3. C \in SUBSET (SUBSET (0 .. n)) /\ C # {}
    BY <1>1
  <1> HIDE DEF C
  <1>4. PICK X : MinimalIn(X, C)
    BY <1>2, <1>3, MinSubset
  <1>5. PICK m \in T \cap (0 .. n) : X = 0 .. m
    BY <1>4 DEF C, MinimalIn
  <1>6. ASSUME NEW k \in T, k < m PROVE FALSE
    <2>1. m \in Nat /\ k \in Nat /\ n \in Nat /\ k < m /\ m <= n
      BY <1>1, <1>5, <1>6
    <2>2. k \in T \cap (0 .. n)
      BY <2>1, <1>6
    <2>3. 0 .. k \in C
      BY <2>2 DEF C
    <2>4. 0 .. k \subseteq 0 .. m /\ m \notin 0 .. k /\ m \in 0 .. m
      BY <2>1
    <2> QED BY <1>4, <1>5, <2>3, <2>4 DEF MinimalIn
  <1> QED BY <1>5, <1>6

(* RemovedAll folds Removed over a finite set of nodes; the fold is a      *)
(* recursive function on the subsets of it, which exists.                  *)
Some(E) == CHOOSE x \in E : TRUE
FoldStep(t, f, E) == IF E = {} THEN t ELSE Removed(f[E \ {Some(E)}], Some(E))
UpTo(S, n) == {E \in SUBSET S : Cardinality(E) <= n}
IsFold(t, f, S, n) == f = [E \in UpTo(S, n) |-> FoldStep(t, f, E)]

LEMMA FoldExists ==
  ASSUME NEW t, NEW S, IsFiniteSet(S), NEW N \in Nat
  PROVE  \E f : IsFold(t, f, S, N)
  <1> DEFINE T == {n \in Nat : ~ \E f : IsFold(t, f, S, n)}
  <1>1. SUFFICES ASSUME T # {} PROVE FALSE
    OBVIOUS
  <1>2. PICK m \in T : \A k \in T : m <= k
    BY <1>1, LeastNat
  <1>3. \A E \in SUBSET S : IsFiniteSet(E) /\ Cardinality(E) \in Nat
    BY FS_Subset, FS_CardinalityType
  <1>4. m # 0
    <2>1. UpTo(S, 0) = {{}}
      BY <1>3, FS_EmptySet DEF UpTo
    <2>2. PICK f : f = [E \in UpTo(S, 0) |-> t]
      OBVIOUS
    <2>3. IsFold(t, f, S, 0)
      BY <2>1, <2>2 DEF IsFold, FoldStep
    <2> QED BY <1>2, <2>3
  <1>5. m - 1 \in Nat /\ m - 1 \notin T
    BY <1>2, <1>4
  <1>6. PICK f : IsFold(t, f, S, m - 1)
    BY <1>5
  <1>7. PICK h : h = [E \in UpTo(S, m) |-> FoldStep(t, f, E)]
    OBVIOUS
  <1>8. \A E \in UpTo(S, m) : h[E] = FoldStep(t, h, E)
    <2> TAKE E \in UpTo(S, m)
    <2>1. CASE E = {}
      BY <1>7, <2>1 DEF FoldStep
    <2>2. CASE E # {}
      <3>1. PICK F : F = E \ {Some(E)}
        OBVIOUS
      <3>2. Some(E) \in E
        BY <2>2 DEF Some
      <3>3. Cardinality(F) = Cardinality(E) - 1
        BY <1>3, <3>1, <3>2, FS_RemoveElement DEF UpTo
      <3>4. F \in UpTo(S, m - 1) /\ F \in UpTo(S, m)
        BY <1>2, <1>3, <3>1, <3>3 DEF UpTo
      <3>5. h[F] = FoldStep(t, f, F) /\ f[F] = FoldStep(t, f, F)
        BY <1>6, <1>7, <3>4 DEF IsFold
      <3> QED BY <1>7, <2>2, <3>1, <3>5 DEF FoldStep
    <2> QED BY <2>1, <2>2
  <1>9. h = [E \in UpTo(S, m) |-> FoldStep(t, h, E)]
    BY <1>7, <1>8
  <1> QED BY <1>2, <1>9 DEF IsFold

FoldsTo(t, S, f) == /\ RemovedAll(t, S) = f[S]
                    /\ \A E \in SUBSET S : f[E] = FoldStep(t, f, E)

LEMMA RemovedAllFolds ==
  ASSUME NEW t, NEW S, IsFiniteSet(S)
  PROVE  \E f : FoldsTo(t, S, f)
  <1> DEFINE F == CHOOSE f : f = [E \in SUBSET S |-> FoldStep(t, f, E)]
  <1>1. UpTo(S, Cardinality(S)) = SUBSET S
    BY FS_Subset DEF UpTo
  <1>2. Cardinality(S) \in Nat
    BY FS_CardinalityType
  <1>3. \E f : f = [E \in SUBSET S |-> FoldStep(t, f, E)]
    <2>1. PICK f : IsFold(t, f, S, Cardinality(S))
      BY <1>2, FoldExists
    <2>2. f = [E \in SUBSET S |-> FoldStep(t, f, E)]
      BY <1>1, <2>1 DEF IsFold
    <2> QED BY <2>2
  <1>4. F = [E \in SUBSET S |-> FoldStep(t, F, E)]
    BY <1>3
  <1>5. RemovedAll(t, S) = F[S]
    BY DEF RemovedAll, FoldSet, MapThenFoldSet, FoldStep, Some
  <1> HIDE DEF F
  <1>6. \A E \in SUBSET S : F[E] = FoldStep(t, F, E)
    BY <1>4
  <1> QED BY <1>5, <1>6 DEF FoldsTo

(* What goes away with a set of nodes.                                     *)
GoneWith(p, S) == {m \in Nodes : \E x \in S : m \in Gone(p, x)}

LEMMA RemovedAllSound ==
  ASSUME NEW t, Sound(t), NEW S \in SUBSET Nodes, \A x \in S : x # Root /\ t.parent[x] # Nil,
         \A x, y \in S : x # y => x \notin Gone(t.parent, y)
  PROVE  /\ Sound(RemovedAll(t, S))
         /\ RemovedAll(t, S).parent = Without(t.parent, GoneWith(t.parent, S))
  <1>1. IsFiniteSet(S)
    BY NodeFacts, FS_Subset
  <1>0. PICK f : FoldsTo(t, S, f)
    BY <1>1, RemovedAllFolds
  <1>2. RemovedAll(t, S) = f[S] /\ \A E \in SUBSET S : f[E] = FoldStep(t, f, E)
    BY <1>0 DEF FoldsTo
  <1>3. PICK p : p = t.parent
    OBVIOUS
  <1>4. p \in Parents
    BY <1>3, TreeFacts DEF Sound, Parents
  <1> DEFINE Good(E) == Sound(f[E]) /\ f[E].parent = Without(p, GoneWith(p, E))
             C == {E \in SUBSET S : ~ Good(E)}
  <1>5. C = {}
    <2>1. SUFFICES ASSUME C # {} PROVE FALSE
      OBVIOUS
    <2>2. PICK E : MinimalIn(E, C)
      BY <1>1, <2>1, MinSubset
    <2>3. E \in SUBSET S /\ ~ Good(E) /\ \A F \in SUBSET S : F \subseteq E /\ F # E => Good(F)
      BY <2>2 DEF MinimalIn
    <2>4. E # {}
      <3>1. f[{}] = t
        BY <1>2 DEF FoldStep
      <3>2. Without(p, GoneWith(p, {})) = p
        BY <1>4 DEF Without, GoneWith, Parents
      <3> QED BY <1>3, <2>3, <3>1, <3>2
    <2>5. PICK s : s = Some(E)
      OBVIOUS
    <2>6. s \in E /\ s \in S /\ s \in Nodes /\ s # Root /\ p[s] # Nil
      BY <1>3, <2>3, <2>4, <2>5 DEF Some
    <2>7. PICK u : u = f[E \ {s}]
      OBVIOUS
    <2>8. PICK D : D = GoneWith(p, E \ {s})
      OBVIOUS
    <2>9. Sound(u) /\ u.parent = Without(p, D)
      BY <2>3, <2>6, <2>7, <2>8
    <2>10. /\ D \in SUBSET Nodes /\ s \in Nodes \ D
           /\ \A m \in Nodes : p[m] \in D => m \in D
      <3>1. \A x \in E : \A m \in Nodes : p[m] \in Gone(p, x) => m \in Gone(p, x)
        BY <1>4, <2>3, GoneFacts
      <3>2. \A x \in E \ {s} : s \notin Gone(p, x)
        BY <1>3, <2>3, <2>6
      <3> QED BY <2>6, <2>8, <3>1, <3>2 DEF GoneWith
    <2>11. u.parent[s] = p[s]
      BY <2>9, <2>10 DEF Without
    <2>12. /\ Sound(Removed(u, s))
           /\ Removed(u, s).parent = Without(u.parent, Gone(u.parent, s))
      BY <2>6, <2>9, <2>11, RemovedSound
    <2>13. Without(u.parent, Gone(u.parent, s)) = Without(p, D \cup Gone(p, s))
      BY <1>4, <2>9, <2>10, GoneAfter
    <2>14. D \cup Gone(p, s) = GoneWith(p, E)
      <3>1. Gone(p, s) \subseteq Nodes
        BY <1>4, <2>6, GoneFacts
      <3> QED BY <2>6, <2>8, <3>1 DEF GoneWith
    <2>15. f[E] = Removed(u, s)
      BY <1>2, <2>3, <2>4, <2>5, <2>7 DEF FoldStep
    <2> QED BY <2>3, <2>12, <2>13, <2>14, <2>15
  <1>6. Good(S)
    BY <1>5
  <1> QED BY <1>2, <1>3, <1>6

(* What is below a node.                                                   *)
LEMMA DescFacts ==
  ASSUME NEW p \in Parents, NEW n \in Nodes
  PROVE  /\ Desc(p, n) \in SUBSET Nodes /\ Desc(p, n) \subseteq Gone(p, n)
         /\ \A m \in Nodes : p[m] \in Desc(p, n) => m \in Desc(p, n)
         /\ \A m \in Nodes : n \in Groups /\ p[m] = n => m \in Desc(p, n)
         /\ Hangs(p) => n \notin Desc(p, n)
  <1>1. CASE n \in Groups
    <2>1. Desc(p, n) = {m \in Nodes : p[m] \in Reached(Kids(p), n)}
      BY <1>1 DEF Desc
    <2>2. /\ n \in Reached(Kids(p), n) /\ Reached(Kids(p), n) \subseteq Groups
          /\ \A h \in Groups : p[h] \in Reached(Kids(p), n) => h \in Reached(Kids(p), n)
      BY <1>1, KidsFacts
    <2>3. \A m \in Nodes : p[m] \in Desc(p, n) => m \in Desc(p, n)
      BY <2>1, <2>2, NodeFacts DEF Parents
    <2>4. ASSUME Hangs(p), n \in Desc(p, n) PROVE FALSE
      <3>1. p[n] \in Reached(Kids(p), n)
        BY <2>1, <2>4
      <3>2. p[n] # Nil /\ n # Root
        BY <2>2, <2>4, <3>1, NodeFacts DEF Hangs
      <3>3. p[n] \notin Gone(p, n)
        BY <2>4, <3>2, RootStays
      <3>4. Reached(Kids(p), n) \subseteq Gone(p, n)
        <4> DEFINE S == Groups \cap Gone(p, n)
        <4>1. S \in SUBSET Groups /\ n \in S /\ \A h \in Groups : p[h] \in S => h \in S
          BY <1>1, GoneFacts, NodeFacts
        <4> HIDE DEF S
        <4>2. Reached(Kids(p), n) \subseteq S
          BY <1>1, <4>1, KidsFacts
        <4> QED BY <4>2 DEF S
      <3> QED BY <3>1, <3>3, <3>4
    <2> QED BY <2>1, <2>2, <2>3, <2>4 DEF Gone
  <1>2. CASE n \notin Groups
    BY <1>2, NodeFacts DEF Desc, Gone, Parents
  <1> QED BY <1>1, <1>2

LEMMA DescParts ==
  ASSUME NEW p \in Parents, NEW n \in Groups
  PROVE  GoneWith(p, Kin(p, n)) = Desc(p, n)
  <1>1. n \in Nodes
    BY NodeFacts
  <1>2. /\ Desc(p, n) \in SUBSET Nodes
        /\ \A m \in Nodes : p[m] \in Desc(p, n) => m \in Desc(p, n)
        /\ \A m \in Nodes : p[m] = n => m \in Desc(p, n)
    BY <1>1, DescFacts
  <1>3. \A x \in Kin(p, n) : Gone(p, x) \subseteq Desc(p, n)
    <2> TAKE x \in Kin(p, n)
    <2>1. x \in Nodes /\ x \in Desc(p, n)
      BY <1>2 DEF Kin
    <2> QED BY <1>2, <2>1, GoneLeast
  <1>4. \A m \in Nodes : p[m] = n \/ p[m] \in GoneWith(p, Kin(p, n)) => m \in GoneWith(p, Kin(p, n))
    <2> TAKE m \in Nodes
    <2>1. CASE p[m] = n
      BY <2>1, GoneFacts DEF GoneWith, Kin
    <2>2. CASE p[m] \in GoneWith(p, Kin(p, n))
      BY <2>2, GoneFacts DEF GoneWith, Kin
    <2> QED BY <2>1, <2>2
  <1> DEFINE S == {n} \cup (GoneWith(p, Kin(p, n)) \cap Groups)
  <1>5. S \in SUBSET Groups /\ n \in S /\ \A h \in Groups : p[h] \in S => h \in S
    BY <1>4, NodeFacts
  <1>6. Reached(Kids(p), n) \subseteq S
    <2> HIDE DEF S
    <2> QED BY <1>5, KidsFacts
  <1>7. Desc(p, n) = {m \in Nodes : p[m] \in Reached(Kids(p), n)}
    BY DEF Desc
  <1>8. Desc(p, n) \subseteq GoneWith(p, Kin(p, n))
    BY <1>4, <1>6, <1>7
  <1>9. GoneWith(p, Kin(p, n)) \subseteq Desc(p, n)
    BY <1>3 DEF GoneWith
  <1> QED BY <1>8, <1>9

(* A group is emptied, a node is freed.                                    *)
LEMMA EmptiedSound ==
  ASSUME NEW t, Sound(t), NEW n \in Nodes
  PROVE  Sound(Emptied(t, n)) /\ Emptied(t, n).parent = Without(t.parent, Desc(t.parent, n))
  <1>1. PICK p : p = t.parent
    OBVIOUS
  <1>2. p \in Parents /\ Hangs(p)
    BY <1>1, TreeFacts DEF Sound, Parents
  <1>3. CASE n \in Synths
    <2>1. Emptied(t, n) = t /\ Desc(p, n) = {}
      BY <1>3, NodeFacts DEF Emptied, Desc
    <2>2. Without(p, {}) = p
      BY <1>2 DEF Without, Parents
    <2> QED BY <1>1, <2>1, <2>2
  <1>4. CASE n \notin Synths
    <2>1. n \in Groups /\ ToSet(t.kids[n]) = Kin(p, n)
      BY <1>1, <1>4 DEF Nodes, Sound, FitsAt
    <2>2. Emptied(t, n) = RemovedAll(t, Kin(p, n))
      BY <1>4, <2>1 DEF Emptied
    <2>3. Kin(p, n) \in SUBSET Nodes /\ \A x \in Kin(p, n) : x # Root /\ p[x] # Nil
      BY <1>2, <2>1, NodeFacts DEF Kin, Hangs
    <2>4. \A x, y \in Kin(p, n) : x # y => x \notin Gone(p, y)
      <3> SUFFICES ASSUME NEW x \in Kin(p, n), NEW y \in Kin(p, n), x # y, x \in Gone(p, y) PROVE FALSE
        OBVIOUS
      <3>1. p[x] = n /\ p[y] = n /\ y \in Nodes /\ y # Root /\ p[y] # Nil
        BY <2>3 DEF Kin
      <3>2. n \in Gone(p, y)
        BY <1>2, <3>1, GoneFacts
      <3>3. n \notin Gone(p, y)
        BY <1>2, <3>1, RootStays
      <3> QED BY <3>2, <3>3
    <2>5. /\ Sound(RemovedAll(t, Kin(p, n)))
          /\ RemovedAll(t, Kin(p, n)).parent = Without(p, GoneWith(p, Kin(p, n)))
      BY <1>1, <2>3, <2>4, RemovedAllSound
    <2> QED BY <1>1, <1>2, <2>1, <2>2, <2>5, DescParts
  <1> QED BY <1>3, <1>4

LEMMA FreedSound ==
  ASSUME NEW t, Sound(t), NEW n \in Nodes, n # Root, t.parent[n] # Nil
  PROVE  Sound(Freed(t, n)) /\ Freed(t, n).parent = Without(t.parent, Gone(t.parent, n))
  <1>1. PICK p : p = t.parent
    OBVIOUS
  <1>2. p \in Parents /\ Hangs(p)
    BY <1>1, TreeFacts DEF Sound, Parents
  <1>3. PICK u : u = Emptied(t, n)
    OBVIOUS
  <1>4. PICK D : D = Desc(p, n)
    OBVIOUS
  <1>5. Sound(u) /\ u.parent = Without(p, D)
    BY <1>1, <1>3, <1>4, EmptiedSound
  <1>6. /\ D \in SUBSET Nodes /\ D \subseteq Gone(p, n) /\ n \in Nodes \ D
        /\ \A m \in Nodes : p[m] \in D => m \in D
    BY <1>2, <1>4, DescFacts
  <1>7. u.parent[n] # Nil
    BY <1>1, <1>5, <1>6 DEF Without
  <1>8. Sound(Removed(u, n)) /\ Removed(u, n).parent = Without(u.parent, Gone(u.parent, n))
    BY <1>5, <1>7, RemovedSound
  <1>9. Without(u.parent, Gone(u.parent, n)) = Without(p, D \cup Gone(p, n))
    BY <1>2, <1>5, <1>6, GoneAfter
  <1>10. D \cup Gone(p, n) = Gone(p, n)
    BY <1>6
  <1> QED BY <1>1, <1>3, <1>8, <1>9, <1>10 DEF Freed

(* A node becomes the child of another group, and moves to another list.   *)
Adopted(p, n, g) == [p EXCEPT ![n] = g]

LEMMA RehomedFacts ==
  ASSUME NEW t, Sound(t), NEW n \in Nodes, t.parent[n] # Nil, NEW g \in Groups
  PROVE  LET w == Rehomed(t, n, g)
             q == Adopted(t.parent, n, g)
         IN /\ w \in Trees /\ w.kids = t.kids /\ w.parent = q
            /\ \A x \in Groups : /\ w.nsyn[x] = Cardinality(Kin(q, x) \cap Synths)
                                 /\ w.groups[x] = Kin(q, x) \cap Groups
  <1>1. PICK p : p = t.parent
    OBVIOUS
  <1>2. PICK h : h = p[n]
    OBVIOUS
  <1>3. /\ t \in Trees /\ p \in Parents /\ h \in Groups
        /\ \A x \in Groups : /\ t.nsyn[x] = Cardinality(Kin(p, x) \cap Synths)
                             /\ t.groups[x] = Kin(p, x) \cap Groups
    BY <1>1, <1>2, TreeFacts DEF Sound, FitsAt, Parents
  <1>4. PICK q : q = Adopted(p, n, g)
    OBVIOUS
  <1>5. q \in Parents /\ \A m \in Nodes : q[m] = IF m = n THEN g ELSE p[m]
    BY <1>3, <1>4 DEF Parents, Adopted
  <1>6. PICK w : w = Rehomed(t, n, g)
    OBVIOUS
  <1>7. CASE h = g
    <2>1. w = t /\ q = p
      BY <1>1, <1>2, <1>3, <1>4, <1>6, <1>7 DEF Rehomed, Parents, Adopted
    <2> QED BY <1>1, <1>3, <1>4, <1>6, <2>1
  <1>8. CASE h # g
    <2>1. PICK u : u = Counted(t, h, n, -1)
      OBVIOUS
    <2>2. /\ u \in Trees /\ u.kids = t.kids /\ u.parent = t.parent
          /\ \A x \in Groups : x # h => u.nsyn[x] = t.nsyn[x] /\ u.groups[x] = t.groups[x]
          /\ u.nsyn[h] = IF n \in Synths THEN t.nsyn[h] - 1 ELSE t.nsyn[h]
          /\ u.groups[h] = IF n \in Synths THEN t.groups[h] ELSE t.groups[h] \ {n}
      BY <1>3, <2>1, CountedOut
    <2>3. PICK v : v = Counted(u, g, n, 1)
      OBVIOUS
    <2>4. /\ v \in Trees /\ v.kids = u.kids /\ v.parent = u.parent
          /\ \A x \in Groups : x # g => v.nsyn[x] = u.nsyn[x] /\ v.groups[x] = u.groups[x]
          /\ v.nsyn[g] = IF n \in Synths THEN u.nsyn[g] + 1 ELSE u.nsyn[g]
          /\ v.groups[g] = IF n \in Synths THEN u.groups[g] ELSE u.groups[g] \cup {n}
      BY <2>2, <2>3, CountedIn
    <2>5. w = [v EXCEPT !.parent[n] = g]
      BY <1>1, <1>2, <1>6, <1>8, <2>1, <2>3 DEF Rehomed
    <2>6. w \in Trees /\ w.kids = t.kids /\ w.parent = q /\ w.nsyn = v.nsyn /\ w.groups = v.groups
      <3>1. v.parent = p
        BY <1>1, <2>2, <2>4
      <3>2. w = [v EXCEPT !.parent = q]
        BY <1>4, <2>4, <2>5, <3>1 DEF Trees, Adopted
      <3>3. w \in Trees /\ w.kids = v.kids /\ w.parent = q /\ w.nsyn = v.nsyn /\ w.groups = v.groups
        BY <1>5, <2>4, <3>2 DEF Trees
      <3> QED BY <2>2, <2>4, <3>3
    <2>7. ASSUME NEW x \in Groups
          PROVE  /\ v.nsyn[x] = Cardinality(Kin(q, x) \cap Synths)
                 /\ v.groups[x] = Kin(q, x) \cap Groups
      <3>1. Kin(p, x) \in SUBSET Nodes /\ (n \in Kin(p, x) <=> x = h)
        BY <1>2 DEF Kin
      <3>2. CASE x = g
        <4>1. Kin(q, x) = Kin(p, x) \cup {n} /\ n \notin Kin(p, x)
          BY <1>5, <1>8, <3>1, <3>2, NodeFacts DEF Kin
        <4>2. v.nsyn[x] = Cardinality(Kin(q, x) \cap Synths)
          <5>1. CASE n \in Synths
            <6>1. Cardinality((Kin(p, x) \cup {n}) \cap Synths) = Cardinality(Kin(p, x) \cap Synths) + 1
              BY <3>1, <4>1, <5>1, OneMore
            <6> QED BY <1>3, <1>8, <2>2, <2>4, <3>2, <4>1, <5>1, <6>1
          <5>2. CASE n \notin Synths
            <6>1. (Kin(p, x) \cup {n}) \cap Synths = Kin(p, x) \cap Synths
              BY <5>2
            <6> QED BY <1>3, <1>8, <2>2, <2>4, <3>2, <4>1, <5>2, <6>1
          <5> QED BY <5>1, <5>2
        <4>3. v.groups[x] = Kin(q, x) \cap Groups
          <5>1. t.groups[x] = Kin(p, x) \cap Groups
            BY <1>3
          <5>2. CASE n \in Synths
            <6>1. v.groups[x] = t.groups[x]
              BY <1>8, <2>2, <2>4, <3>2, <5>2
            <6>2. n \notin Groups
              BY <5>2, NodeFacts
            <6> QED BY <4>1, <5>1, <6>1, <6>2
          <5>3. CASE n \notin Synths
            <6>1. v.groups[x] = t.groups[x] \cup {n}
              BY <1>8, <2>2, <2>4, <3>2, <5>3
            <6>2. n \in Groups
              BY <5>3 DEF Nodes
            <6> QED BY <4>1, <5>1, <6>1, <6>2
          <5> QED BY <5>2, <5>3
        <4> QED BY <4>2, <4>3
      <3>3. CASE x = h
        <4>1. Kin(q, x) = Kin(p, x) \ {n} /\ n \in Kin(p, x)
          BY <1>5, <1>8, <3>1, <3>3, NodeFacts DEF Kin
        <4>2. v.nsyn[x] = Cardinality(Kin(q, x) \cap Synths)
          <5>1. CASE n \in Synths
            <6>1. Cardinality((Kin(p, x) \ {n}) \cap Synths) = Cardinality(Kin(p, x) \cap Synths) - 1
              BY <3>1, <4>1, <5>1, OneMore
            <6> QED BY <1>3, <1>8, <2>2, <2>4, <3>3, <4>1, <5>1, <6>1
          <5>2. CASE n \notin Synths
            <6>1. (Kin(p, x) \ {n}) \cap Synths = Kin(p, x) \cap Synths
              BY <5>2
            <6> QED BY <1>3, <1>8, <2>2, <2>4, <3>3, <4>1, <5>2, <6>1
          <5> QED BY <5>1, <5>2
        <4>3. v.groups[x] = Kin(q, x) \cap Groups
          <5>1. t.groups[x] = Kin(p, x) \cap Groups
            BY <1>3
          <5>2. CASE n \in Synths
            <6>1. v.groups[x] = t.groups[x]
              BY <1>8, <2>2, <2>4, <3>3, <5>2
            <6>2. n \notin Groups
              BY <5>2, NodeFacts
            <6> QED BY <4>1, <5>1, <6>1, <6>2
          <5>3. CASE n \notin Synths
            <6>1. v.groups[x] = t.groups[x] \ {n}
              BY <1>8, <2>2, <2>4, <3>3, <5>3
            <6> QED BY <4>1, <5>1, <6>1
          <5> QED BY <5>2, <5>3
        <4> QED BY <4>2, <4>3
      <3>4. CASE x # g /\ x # h
        <4>1. Kin(q, x) = Kin(p, x)
          BY <1>5, <3>1, <3>4, NodeFacts DEF Kin
        <4> QED BY <1>3, <2>2, <2>4, <3>4, <4>1
      <3> QED BY <3>2, <3>3, <3>4
    <2> QED BY <1>1, <1>4, <1>6, <2>6, <2>7
  <1> QED BY <1>7, <1>8

Relisted(u, g, n, position) == [u EXCEPT !.kids[g] = InsertAt(@, position, n)]

LEMMA MovedSound ==
  ASSUME NEW t, Sound(t), NEW n \in Nodes, n # Root, t.parent[n] # Nil,
         NEW g \in Groups, g = Root \/ t.parent[g] # Nil, g \notin Gone(t.parent, n),
         NEW u, u = Unlisted(Rehomed(t, n, g), n),
         NEW position \in 1 .. Len(u.kids[g]) + 1,
         NEW r, r = Relisted(u, g, n, position)
  PROVE  Sound(r) /\ \A m \in Nodes : r.parent[m] = IF m = n THEN g ELSE t.parent[m]
  <1>1. PICK q : q = Adopted(t.parent, n, g)
    OBVIOUS
  <1>2. PICK w : w = Rehomed(t, n, g)
    OBVIOUS
  <1>3. /\ w \in Trees /\ w.kids = t.kids /\ w.parent = q
        /\ \A x \in Groups : /\ w.nsyn[x] = Cardinality(Kin(q, x) \cap Synths)
                             /\ w.groups[x] = Kin(q, x) \cap Groups
    BY <1>1, <1>2, RehomedFacts
  <1>4. t \in Trees /\ t.parent \in Parents /\ Hangs(t.parent) /\ \A x \in Groups : FitsAt(t, x)
    BY TreeFacts DEF Sound, Parents
  <1>5. q \in Parents /\ \A m \in Nodes : q[m] = IF m = n THEN g ELSE t.parent[m]
    BY <1>1, <1>4 DEF Parents, Adopted
  <1>6. \A x \in Groups : /\ RemoveFirst(t.kids[x], n) \in Seq(Nodes)
                          /\ ToSet(RemoveFirst(t.kids[x], n)) = Kin(t.parent, x) \ {n}
                          /\ IsInjective(RemoveFirst(t.kids[x], n))
    <2> TAKE x \in Groups
    <2>1. t.kids[x] \in Seq(Nodes) /\ IsInjective(t.kids[x]) /\ ToSet(t.kids[x]) = Kin(t.parent, x)
      BY <1>4, TreeFacts DEF FitsAt
    <2> QED BY <2>1, RemovedSet
  <1>7. /\ u \in Trees /\ u.parent = q /\ u.nsyn = w.nsyn /\ u.groups = w.groups
        /\ \A x \in Groups : u.kids[x] = RemoveFirst(t.kids[x], n)
    <2> DEFINE k == [x \in Groups |-> RemoveFirst(t.kids[x], n)]
    <2>1. u = [w EXCEPT !.kids = k]
      BY <1>2, <1>3 DEF Unlisted
    <2>2. k \in [Groups -> Seq(Nodes)] /\ \A x \in Groups : k[x] = RemoveFirst(t.kids[x], n)
      BY <1>6
    <2> HIDE DEF k
    <2>3. /\ u \in Trees /\ u.kids = k /\ u.parent = w.parent /\ u.nsyn = w.nsyn /\ u.groups = w.groups
      BY <1>3, <2>1, <2>2 DEF Trees
    <2> QED BY <1>3, <2>2, <2>3
  <1>8. PICK l : l = InsertAt(u.kids[g], position, n)
    OBVIOUS
  <1>9. l \in Seq(Nodes) /\ ToSet(l) = Kin(t.parent, g) \cup {n} /\ IsInjective(l)
    <2>1. u.kids[g] \in Seq(Nodes) /\ IsInjective(u.kids[g]) /\ ToSet(u.kids[g]) = Kin(t.parent, g) \ {n}
      BY <1>6, <1>7
    <2>2. InsertAt(u.kids[g], position, n) \in Seq(Nodes)
      BY <2>1, Inserted
    <2>3. /\ ToSet(InsertAt(u.kids[g], position, n)) = ToSet(u.kids[g]) \cup {n}
          /\ n \notin ToSet(u.kids[g]) => IsInjective(InsertAt(u.kids[g], position, n))
      BY <2>1, InsertedSet
    <2> QED BY <1>8, <2>1, <2>2, <2>3
  <1>10. /\ r \in Trees /\ r.parent = q /\ r.nsyn = w.nsyn /\ r.groups = w.groups
         /\ \A x \in Groups : r.kids[x] = IF x = g THEN l ELSE RemoveFirst(t.kids[x], n)
    <2> DEFINE k == [u.kids EXCEPT ![g] = l]
    <2>1. r = [u EXCEPT !.kids = k]
      BY <1>7, <1>8 DEF Trees, Relisted
    <2>2. k \in [Groups -> Seq(Nodes)] /\ \A x \in Groups : k[x] = IF x = g THEN l ELSE u.kids[x]
      BY <1>7, <1>9, TreeFacts
    <2> HIDE DEF k
    <2>3. /\ r \in Trees /\ r.kids = k /\ r.parent = u.parent /\ r.nsyn = u.nsyn /\ r.groups = u.groups
      BY <1>7, <2>1, <2>2 DEF Trees
    <2> QED BY <1>7, <2>2, <2>3
  <1>11. Hangs(q)
    BY <1>1, <1>4, HangsMoved DEF Adopted
  <1>12. ASSUME NEW x \in Groups PROVE FitsAt(r, x)
    <2>1. ToSet(r.kids[x]) = Kin(q, x) /\ IsInjective(r.kids[x])
      <3>1. CASE x = g
        <4>1. Kin(q, x) = Kin(t.parent, x) \cup {n}
          BY <1>5, <3>1 DEF Kin
        <4> QED BY <1>9, <1>10, <3>1, <4>1
      <3>2. CASE x # g
        <4>1. Kin(q, x) = Kin(t.parent, x) \ {n}
          BY <1>5, <3>2 DEF Kin
        <4> QED BY <1>6, <1>10, <3>2, <4>1
      <3> QED BY <3>1, <3>2
    <2> QED BY <1>3, <1>10, <2>1 DEF FitsAt
  <1> QED BY <1>5, <1>10, <1>11, <1>12 DEF Sound

(* The parent of a node in the tree is in the tree.                        *)
LEMMA ParentInTree ==
  ASSUME NEW p, Hangs(p), NEW n \in Nodes, p[n] # Nil
  PROVE  p[n] \in Groups /\ p[n] # n /\ (p[n] = Root \/ p[p[n]] # Nil)
  <1> DEFINE S == {h \in Groups : h = Root \/ p[h] # Nil}
  <1>1. p \in Parents /\ p[Root] = Nil /\ p[n] \in Reached(Kids(p), Root)
    BY DEF Hangs
  <1>2. S \in SUBSET Groups /\ Root \in S /\ \A h \in Groups : p[h] \in S => h \in S
    BY NodeFacts
  <1>3. Reached(Kids(p), Root) \subseteq S
    <2> HIDE DEF S
    <2> QED BY <1>2, NodeFacts, KidsFacts
  <1>4. p[n] # n
    <2>1. n # Root
      BY <1>1
    <2> QED BY <1>1, <2>1, RootStays, GoneFacts
  <1> QED BY <1>1, <1>3, <1>4

-----------------------------------------------------------------------------
(* The commands.                                                           *)
LEMMA PlaceFacts ==
  ASSUME NEW t, Sound(t), NEW target \in Nodes, target = Root \/ t.parent[target] # Nil,
         NEW where \in Into \cup Beside,
         where \in Into => target \in Groups, where \in Beside => target # Root
  PROVE  LET g == IF where \in Into THEN target ELSE t.parent[target]
         IN /\ g \in Groups /\ (g = Root \/ t.parent[g] # Nil)
            /\ where # "replace" => Place(t, g, target, where) \in 1 .. Len(t.kids[g]) + 1
            /\ where = "replace" =>
                  SelectInSeq(t.kids[g], LAMBDA m : m = target) \in 1 .. Len(t.kids[g]) + 1
  <1>1. CASE where \in Into
    <2>1. t.kids[target] \in Seq(Nodes)
      BY <1>1, TreeFacts DEF Sound
    <2>2. Len(t.kids[target]) \in Nat
      BY <2>1
    <2>3. Place(t, target, target, where) \in {1, Len(t.kids[target]) + 1}
      BY <1>1 DEF Place, Into
    <2>4. where # "replace"
      BY <1>1 DEF Into
    <2> QED BY <1>1, <2>2, <2>3, <2>4
  <1>2. CASE where \notin Into
    <2>1. where \in Beside /\ target # Root /\ t.parent[target] # Nil
      BY <1>2
    <2>2. PICK g : g = t.parent[target]
      OBVIOUS
    <2>3. Hangs(t.parent)
      BY DEF Sound
    <2>4. g \in Groups /\ (g = Root \/ t.parent[g] # Nil)
      BY <2>1, <2>2, <2>3, ParentInTree
    <2>5. PICK k : k = SelectInSeq(t.kids[g], LAMBDA m : m = target)
      OBVIOUS
    <2>6. Len(t.kids[g]) \in Nat /\ k \in 1 .. Len(t.kids[g])
      BY <2>1, <2>2, <2>5, PositionIn
    <2>7. Place(t, g, target, where) \in {1, k, k + 1}
      BY <1>2, <2>1, <2>5 DEF Place, Into, Beside
    <2>8. Place(t, g, target, where) \in 1 .. Len(t.kids[g]) + 1
      BY <2>6, <2>7
    <2> QED BY <1>2, <2>2, <2>4, <2>5, <2>6, <2>8
  <1> QED BY <1>1, <1>2

LEMMA ReachesTarget ==
  ASSUME Sound(tree), orphans \subseteq Synths, NEW target \in Nodes, Found(target),
         NEW where \in Into \cup Beside,
         where \in Into => target \in Groups,
         where \in Beside => tree.parent[target] # Nil
  PROVE  InTree(target) /\ (where \in Beside => target # Root)
  <1>1. tree.parent[Root] = Nil
    BY DEF Sound, Hangs
  <1>2. CASE where \in Beside
    BY <1>1, <1>2 DEF InTree, Into, Beside
  <1>3. CASE where \in Into
    <2>1. target \notin orphans /\ where \notin Beside
      BY <1>3, NodeFacts DEF Into, Beside
    <2> QED BY <2>1 DEF Found
  <1> QED BY <1>2, <1>3

LEMMA AddNodeSound ==
  ASSUME Sound(tree), NEW n \in Nodes, NEW target \in Nodes, NEW where \in Into \cup Beside,
         AddNode(n, target, where), orphans \subseteq Synths
  PROVE  /\ Sound(tree')
         /\ \A m \in Nodes : tree'.parent[m] # Nil => m = n \/ tree.parent[m] # Nil
         /\ where = "replace" => tree'.parent[target] = Nil
  <1>1. PICK g : g = IF where \in Into THEN target ELSE tree.parent[target]
    OBVIOUS
  <1>2. PICK i : i = IF where = "replace" THEN SelectInSeq(tree.kids[g], LAMBDA m : m = target)
                     ELSE Place(tree, g, target, where)
    OBVIOUS
  <1>3. PICK t : t = Linked(tree, n, g, i)
    OBVIOUS
  <1>4. /\ ~Alive(n) /\ InTree(target)
        /\ where \in Into => target \in Groups
        /\ where \in Beside => target # Root
        /\ tree' = IF where = "replace" THEN Removed(t, target) ELSE t
    <2>1. /\ ~Alive(n) /\ Found(target)
          /\ where \in Into => target \in Groups
          /\ where \in Beside => tree.parent[target] # Nil
          /\ tree' = IF where = "replace" THEN Removed(t, target) ELSE t
      BY <1>1, <1>2, <1>3 DEF AddNode
    <2>2. InTree(target) /\ (where \in Beside => target # Root)
      BY <2>1, ReachesTarget
    <2> QED BY <2>1, <2>2
  <1>5. n # Root /\ tree.parent[n] = Nil
    BY <1>4 DEF Alive, InTree
  <1>6. g \in Groups /\ (g = Root \/ tree.parent[g] # Nil) /\ i \in 1 .. Len(tree.kids[g]) + 1
    BY <1>1, <1>2, <1>4, PlaceFacts DEF InTree
  <1>7. Sound(t) /\ \A m \in Nodes : t.parent[m] = IF m = n THEN g ELSE tree.parent[m]
    BY <1>3, <1>5, <1>6, LinkedSound
  <1>9. CASE where # "replace"
    BY <1>4, <1>7, <1>9
  <1>10. CASE where = "replace"
    <2>1. target # Root /\ tree.parent[target] # Nil
      BY <1>4, <1>10 DEF Beside, InTree
    <2>2. t.parent[target] # Nil
      BY <1>5, <1>7, <2>1
    <2>3. /\ Sound(Removed(t, target))
          /\ Removed(t, target).parent = Without(t.parent, Gone(t.parent, target))
      BY <1>7, <2>1, <2>2, RemovedSound
    <2>4. \A m \in Nodes : Removed(t, target).parent[m] # Nil => t.parent[m] # Nil
      BY <2>3 DEF Without
    <2>5. Removed(t, target).parent[target] = Nil
      BY <2>3 DEF Without, Gone
    <2> QED BY <1>4, <1>7, <1>10, <2>3, <2>4, <2>5
  <1> QED BY <1>9, <1>10

LEMMA MoveIntoSound ==
  ASSUME Sound(tree), ~CyclicMoves, NEW n \in Nodes, NEW g \in Groups, NEW where,
         MoveInto(n, g, where)
  PROVE  Sound(tree') /\ \A m \in Nodes : tree'.parent[m] # Nil => tree.parent[m] # Nil
  <1>1. PICK t : t = Unlisted(Rehomed(tree, n, g), n)
    OBVIOUS
  <1>2. PICK i : i = IF where = "head" THEN 1 ELSE Len(t.kids[g]) + 1
    OBVIOUS
  <1>3. /\ n # Root /\ tree.parent[n] # Nil /\ (g = Root \/ tree.parent[g] # Nil)
        /\ g \notin Below(tree, n) \cup {n}
        /\ tree' = Relisted(t, g, n, i)
    BY <1>1, <1>2 DEF MoveInto, Movable, InTree, Relisted, Sound, Hangs
  <1>4. g \notin Gone(tree.parent, n)
    BY <1>3, BelowIs DEF Gone
  <1>5. Len(t.kids[g]) \in Nat
    <2>1. Rehomed(tree, n, g).kids = tree.kids
      BY <1>3, RehomedFacts
    <2>2. tree.kids[g] \in Seq(Nodes) /\ IsInjective(tree.kids[g])
      BY TreeFacts DEF Sound, FitsAt
    <2>3. t.kids[g] = RemoveFirst(tree.kids[g], n)
      <3>1. t.kids = [x \in Groups |-> RemoveFirst(tree.kids[x], n)]
        <4>1. Rehomed(tree, n, g) \in Trees
          BY <1>3, RehomedFacts
        <4> QED BY <1>1, <2>1, <4>1 DEF Unlisted, Trees
      <3> QED BY <3>1
    <2> QED BY <2>2, <2>3, RemovedSet
  <1>6. i \in 1 .. Len(t.kids[g]) + 1
    BY <1>2, <1>5
  <1>7. Sound(tree') /\ \A m \in Nodes : tree'.parent[m] = IF m = n THEN g ELSE tree.parent[m]
    BY <1>1, <1>3, <1>4, <1>6, MovedSound
  <1> QED BY <1>3, <1>7

LEMMA MoveBesideSound ==
  ASSUME Sound(tree), ~CrossMoves, NEW n \in Nodes, NEW target \in Nodes, NEW where,
         MoveBeside(n, target, where)
  PROVE  Sound(tree') /\ \A m \in Nodes : tree'.parent[m] # Nil => tree.parent[m] # Nil
  <1>1. PICK g : g = tree.parent[n]
    OBVIOUS
  <1>2. PICK t : t = Unlisted(tree, n)
    OBVIOUS
  <1>3. PICK k : k = SelectInSeq(t.kids[g], LAMBDA m : m = target)
    OBVIOUS
  <1>4. n # Root /\ g # Nil /\ target # Root /\ target # n /\ tree.parent[target] = g
    BY <1>1 DEF MoveBeside, Movable, Sound, Hangs
  <1>5. /\ tree \in Trees /\ Hangs(tree.parent) /\ tree.parent \in Parents
        /\ \A x \in Groups : FitsAt(tree, x)
    BY TreeFacts DEF Sound, Parents
  <1>6. g \in Groups /\ (g = Root \/ tree.parent[g] # Nil) /\ g \notin Gone(tree.parent, n)
    BY <1>1, <1>4, <1>5, ParentInTree, RootStays
  <1>7. ListOf(tree, target) = g
    <2>1. \A x \in Groups : target \in ToSet(tree.kids[x]) <=> x = g
      BY <1>4, <1>5 DEF FitsAt, Kin
    <2> QED BY <1>6, <2>1 DEF ListOf
  <1>8. t.kids[g] = RemoveFirst(tree.kids[g], n)
    BY <1>2, <1>5, <1>6 DEF Unlisted, Trees
  <1>9. /\ RemoveFirst(tree.kids[g], n) \in Seq(Nodes)
         /\ ToSet(RemoveFirst(tree.kids[g], n)) = Kin(tree.parent, g) \ {n}
         /\ IsInjective(RemoveFirst(tree.kids[g], n))
    <2>1. /\ tree.kids[g] \in Seq(Nodes) /\ IsInjective(tree.kids[g])
          /\ ToSet(tree.kids[g]) = Kin(tree.parent, g)
      BY <1>5, <1>6, TreeFacts DEF FitsAt
    <2> QED BY <2>1, RemovedSet
  <1>10. Len(t.kids[g]) \in Nat /\ k \in 1 .. Len(t.kids[g])
    <2>1. target \in ToSet(t.kids[g])
      BY <1>4, <1>8, <1>9 DEF Kin
    <2>2. t.kids[g] \in Seq(Nodes) /\ IsInjective(t.kids[g])
      BY <1>8, <1>9
    <2>3. PICK q : q = t.kids[g]
      OBVIOUS
    <2>4. Len(q) \in Nat /\ SelectInSeq(q, LAMBDA m : m = target) \in 1 .. Len(q)
      BY <2>1, <2>2, <2>3, PositionInSeq
    <2> QED BY <1>3, <2>3, <2>4
  <1>11. PICK i : i \in {Len(t.kids[g]) + 1, k, k + 1} /\ tree' = Relisted(t, g, n, i)
    <2>1. \E i \in {Len(t.kids[g]) + 1, k, k + 1} : tree' = [t EXCEPT !.kids[g] = InsertAt(@, i, n)]
      <3>1. CASE where = "after" /\ Last(tree.kids[g]) = target
        BY <1>1, <1>2, <1>7, <3>1 DEF MoveBeside
      <3>2. CASE ~(where = "after" /\ Last(tree.kids[g]) = target)
        <4>1. tree' = [t EXCEPT !.kids[g] = InsertAt(@, k + (IF where = "after" THEN 1 ELSE 0), n)]
          BY <1>1, <1>2, <1>3, <1>7, <3>2 DEF MoveBeside
        <4>2. CASE where = "after"
          BY <4>1, <4>2
        <4>3. CASE where # "after"
          <5>1. (IF where = "after" THEN 1 ELSE 0) = 0 /\ k + 0 = k
            BY <1>10, <4>3
          <5> QED BY <4>1, <5>1
        <4> QED BY <4>2, <4>3
      <3> QED BY <3>1, <3>2
    <2> QED BY <2>1 DEF Relisted
  <1>12. i \in 1 .. Len(t.kids[g]) + 1
    BY <1>11, <1>10
  <1>13. t = Unlisted(Rehomed(tree, n, g), n)
    BY <1>1, <1>2 DEF Rehomed
  <1>14. Sound(tree') /\ \A m \in Nodes : tree'.parent[m] = IF m = n THEN g ELSE tree.parent[m]
    BY <1>1, <1>4, <1>6, <1>11, <1>12, <1>13, MovedSound
  <1> QED BY <1>1, <1>4, <1>14

LEMMA OrderSound ==
  ASSUME Sound(tree), queued \cup fresh \subseteq Synths,
         NEW n \in Nodes, NEW target \in Nodes, NEW where, Order(n, target, where)
  PROVE  Sound(tree') /\ \A m \in Nodes : tree'.parent[m] # Nil => tree.parent[m] # Nil
  <1>1. PICK g : g = IF where \in Beside THEN tree.parent[target] ELSE target
    OBVIOUS
  <1>2. PICK t : t = Removed(tree, n)
    OBVIOUS
  <1>3. /\ tree.parent[n] # Nil /\ InTree(target) /\ n \in Synths
        /\ where \in {"before", "after"} => tree.parent[target] # Nil
        /\ where \in {"head", "tail"} => target \in Groups
        /\ where \in {"head", "tail", "before", "after"}
        /\ n = target => g \in ParGroups
        /\ tree' = Linked(t, n, g, Place(t, g, target, where))
    BY <1>1, <1>2 DEF Order, Movable
  <1>4. PICK p : p = tree.parent
    OBVIOUS
  <1>5. Hangs(p) /\ p \in Parents /\ p[Root] = Nil /\ n # Root
    BY <1>3, <1>4 DEF Sound, Hangs
  <1>6. Gone(p, n) = {n}
    BY <1>3, NodeFacts DEF Gone, Desc
  <1>7. Sound(t) /\ \A m \in Nodes : t.parent[m] = IF m = n THEN Nil ELSE p[m]
    <2>1. Sound(t) /\ t.parent = Without(p, Gone(p, n))
      BY <1>2, <1>3, <1>4, <1>5, RemovedSound
    <2> QED BY <1>6, <2>1 DEF Without
  <1>8. g \in Groups /\ (g = Root \/ p[g] # Nil)
    <2>1. CASE where \in {"before", "after"}
      <3>1. g = p[target] /\ p[target] # Nil
        BY <1>1, <1>3, <1>4, <2>1 DEF Beside
      <3> QED BY <1>5, <3>1, ParentInTree
    <2>2. CASE where \in {"head", "tail"}
      BY <1>1, <1>3, <1>4, <2>2 DEF Beside, InTree
    <2> QED BY <1>3, <2>1, <2>2
  <1>9. g # n /\ (g = Root \/ t.parent[g] # Nil)
    BY <1>3, <1>7, <1>8, NodeFacts
  <1>10. Place(t, g, target, where) \in 1 .. Len(t.kids[g]) + 1
    <2>1. CASE n = target
      <3>1. Place(t, g, target, where) = 1
        BY <1>3, <2>1 DEF Place
      <3>2. Len(t.kids[g]) \in Nat
        <4>1. t.kids[g] \in Seq(Nodes)
          BY <1>7, <1>8, TreeFacts DEF Sound
        <4> QED BY <4>1
      <3> QED BY <3>1, <3>2
    <2>2. CASE n # target
      <3>1. /\ where \in Into \cup Beside /\ where # "replace"
            /\ where \in Into => target \in Groups
            /\ where \in Beside => target # Root
        BY <1>3, <1>4, <1>5 DEF Into, Beside
      <3>2. t.parent[target] = p[target]
        BY <1>7, <2>2
      <3>3. target = Root \/ t.parent[target] # Nil
        BY <1>3, <1>4, <3>2 DEF InTree
      <3>4. g = IF where \in Into THEN target ELSE t.parent[target]
        BY <1>1, <1>3, <1>4, <3>2 DEF Into, Beside
      <3> QED BY <1>7, <3>1, <3>3, <3>4, PlaceFacts
    <2> QED BY <2>1, <2>2
  <1>11. t.parent[n] = Nil
    BY <1>7
  <1>12. /\ Sound(Linked(t, n, g, Place(t, g, target, where)))
         /\ \A m \in Nodes : Linked(t, n, g, Place(t, g, target, where)).parent[m]
                                = IF m = n THEN g ELSE t.parent[m]
    BY <1>5, <1>7, <1>8, <1>9, <1>10, <1>11, LinkedSound
  <1> QED BY <1>3, <1>4, <1>7, <1>12

LEMMA FreeDeepSound ==
  ASSUME Sound(tree), NEW g \in Groups, GroupFreeDeep(g)
  PROVE  /\ Sound(tree') /\ \A m \in Nodes : tree'.parent[m] # Nil => tree.parent[m] # Nil
         /\ \A m \in Desc(tree.parent, g) \cap Synths : tree'.parent[m] = Nil
  <1>1. PICK p : p = tree.parent
    OBVIOUS
  <1>2. PICK S : S = Desc(p, g) \cap Synths
    OBVIOUS
  <1>3. p \in Parents /\ Hangs(p) /\ g \in Nodes
    BY <1>1, TreeFacts, NodeFacts DEF Sound, Parents
  <1>4. tree' = RemovedAll(tree, S)
    BY <1>1, <1>2, <1>3, BelowIs DEF GroupFreeDeep
  <1>5. S \in SUBSET Nodes
    BY <1>2, NodeFacts
  <1>6. \A x \in S : x # Root /\ p[x] # Nil
    <2>1. Reached(Kids(p), g) \subseteq Groups
      BY KidsFacts
    <2> QED BY <1>2, <2>1, NodeFacts DEF Desc
  <1>7. \A x, y \in S : x # y => x \notin Gone(p, y)
    BY <1>2, NodeFacts DEF Gone, Desc
  <1>8. Sound(RemovedAll(tree, S)) /\ RemovedAll(tree, S).parent = Without(p, GoneWith(p, S))
    BY <1>1, <1>5, <1>6, <1>7, RemovedAllSound
  <1>9. S \subseteq GoneWith(p, S)
    BY <1>5 DEF GoneWith, Gone
  <1> QED BY <1>1, <1>2, <1>4, <1>5, <1>8, <1>9 DEF Without

-----------------------------------------------------------------------------
(* The generated queue has the synths of the tree.  First the runs of      *)
(* consecutive synths in the list of a group.                              *)
SynthsIn(t) == {s \in Synths : t.parent[s] # Nil}

LEMMA GreatestIn ==
  ASSUME NEW n \in Nat, NEW I \in SUBSET (1 .. n), I # {}
  PROVE  Max(I) \in I /\ \A i \in I : i <= Max(I)
  <1> DEFINE T == {n - i : i \in I}
  <1>1. T \subseteq Nat /\ T # {}
    OBVIOUS
  <1>2. PICK m \in T : \A k \in T : m <= k
    BY <1>1, LeastNat
  <1>3. PICK x \in I : m = n - x
    BY <1>2
  <1>4. \A i \in I : i <= x
    <2> TAKE i \in I
    <2>1. n - i \in T
      OBVIOUS
    <2> QED BY <1>2, <1>3, <2>1
  <1>5. \E y \in I : \A i \in I : y >= i
    BY <1>3, <1>4
  <1> QED BY <1>5 DEF Max

LEMMA RunFacts ==
  ASSUME NEW t, NEW g, NEW s \in Seq(Nodes), s = t.kids[g], NEW k \in 1 .. Len(s), s[k] \in Synths
  PROVE  LET a == RunStart(t, g, k) IN
         /\ a \in 1 .. k /\ (a = 1 \/ s[a - 1] \in Groups)
         /\ \A i \in a .. k : s[i] \in Synths
  <1> DEFINE I == {i \in 1 .. k : s[i] \in Groups}
  <1>1. SubSeq(s, 1, k) \in Seq(Nodes) /\ Len(SubSeq(s, 1, k)) = k /\ \A i \in 1 .. k : SubSeq(s, 1, k)[i] = s[i]
    OBVIOUS
  <1>2. {i \in 1 .. Len(SubSeq(s, 1, k)) : SubSeq(s, 1, k)[i] \in Groups} = I
    BY <1>1
  <1>3. RunStart(t, g, k) = (IF I # {} THEN Max(I) ELSE 0) + 1
    BY <1>2 DEF RunStart, SelectLastInSeq
  <1>4. k \notin I
    BY NodeFacts
  <1>5. \A i \in 1 .. k : s[i] \in Nodes
    OBVIOUS
  <1>6. CASE I = {}
    BY <1>3, <1>5, <1>6 DEF Nodes
  <1>7. CASE I # {}
    <2>1. k \in Nat /\ I \in SUBSET (1 .. k)
      OBVIOUS
    <2>2. Max(I) \in I /\ \A i \in I : i <= Max(I)
      BY <1>7, <2>1, GreatestIn
    <2>3. PICK m : m = Max(I)
      OBVIOUS
    <2>4. m \in 1 .. k /\ m # k /\ s[m] \in Groups /\ RunStart(t, g, k) = m + 1
      BY <1>3, <1>4, <1>7, <2>2, <2>3
    <2>5. \A i \in m + 1 .. k : s[i] \in Synths
      <3> TAKE i \in m + 1 .. k
      <3>1. i \in 1 .. k /\ ~(i <= m)
        BY <2>4
      <3>2. i \notin I
        BY <2>2, <2>3, <3>1
      <3> QED BY <1>5, <3>1, <3>2 DEF Nodes
    <2> QED BY <2>4, <2>5
  <1> QED BY <1>6, <1>7

(* Every synth is in one run, and runs that begin alike are the same.      *)
LEMMA RunsCover ==
  ASSUME NEW t, NEW g, NEW s \in Seq(Nodes), s = t.kids[g],
         NEW j \in 1 .. Len(s), s[j] \in Synths
  PROVE  \E k \in RunEnds(t, g) : j \in RunStart(t, g, k) .. k
  <1> DEFINE T == {k \in j .. Len(s) : k = Len(s) \/ s[k + 1] \in Groups}
  <1>1. Len(s) \in Nat /\ T \subseteq Nat /\ Len(s) \in T
    OBVIOUS
  <1>2. PICK k \in T : \A l \in T : k <= l
    BY <1>1, LeastNat
  <1>3. ASSUME NEW i \in j .. k PROVE s[i] \in Synths
    <2>1. SUFFICES ASSUME s[i] \notin Synths PROVE FALSE
      OBVIOUS
    <2>2. i \in 1 .. Len(s) /\ s[i] \in Groups /\ i # j
      BY <1>1, <1>2, <2>1 DEF Nodes
    <2>3. i - 1 \in j .. Len(s) /\ (i - 1) + 1 = i /\ ~(k <= i - 1)
      BY <1>1, <1>2, <2>2
    <2>4. i - 1 \in T
      BY <2>2, <2>3
    <2> QED BY <1>2, <2>3, <2>4
  <1>4. k \in 1 .. Len(s) /\ s[k] \in Synths /\ k \in j .. k
    BY <1>1, <1>2, <1>3
  <1>5. k \in RunEnds(t, g)
    BY <1>2, <1>4 DEF RunEnds
  <1>6. PICK a : a = RunStart(t, g, k)
    OBVIOUS
  <1>7. a \in 1 .. k /\ (a = 1 \/ s[a - 1] \in Groups)
    BY <1>4, <1>6, RunFacts
  <1>8. a <= j
    <2>1. SUFFICES ASSUME ~(a <= j) PROVE FALSE
      OBVIOUS
    <2>2. a # 1 /\ a - 1 \in j .. k
      BY <1>1, <1>4, <1>7, <2>1
    <2> QED BY <1>3, <1>7, <2>2, NodeFacts
  <1> QED BY <1>4, <1>5, <1>6, <1>7, <1>8

LEMMA RunsDiffer ==
  ASSUME NEW t, NEW g, NEW s \in Seq(Nodes), s = t.kids[g],
         NEW k \in RunEnds(t, g), NEW l \in RunEnds(t, g),
         RunStart(t, g, k) = RunStart(t, g, l)
  PROVE  k = l
  <1>1. ASSUME NEW x \in RunEnds(t, g), NEW y \in RunEnds(t, g), x < y,
               RunStart(t, g, x) = RunStart(t, g, y)
        PROVE  FALSE
    <2>1. /\ x \in 1 .. Len(s) /\ s[x] \in Synths /\ (x = Len(s) \/ s[x + 1] \in Groups)
          /\ y \in 1 .. Len(s) /\ s[y] \in Synths
      BY SMTT(40) DEF RunEnds
    <2>2. PICK a : a = RunStart(t, g, x)
      OBVIOUS
    <2>3. a \in 1 .. x
      BY <2>1, <2>2, RunFacts
    <2>4. \A i \in a .. y : s[i] \in Synths
      BY <1>1, <2>1, <2>2, RunFacts
    <2>5. x + 1 \in a .. y /\ x # Len(s)
      BY <1>1, <2>1, <2>3
    <2> QED BY <2>1, <2>4, <2>5, NodeFacts
  <1>2. k \in 1 .. Len(s) /\ l \in 1 .. Len(s)
    BY DEF RunEnds
  <1>3. ~(k < l)
    BY <1>1
  <1>4. ~(l < k)
    BY <1>1
  <1> QED BY <1>2, <1>3, <1>4

(* The items of a group: their jobs are synths of it, each synth is in     *)
(* one, and items of one name have one job.                                *)
LEMMA ItemsFacts ==
  ASSUME NEW t, Sound(t), NEW g \in Groups
  PROVE  /\ \A i \in ItemsOf(t, g) :
               i.id \in ToSet(i.job) /\ ToSet(i.job) \subseteq Kin(t.parent, g) \cap Synths
         /\ \A i, j \in ItemsOf(t, g) : i.id = j.id => i.job = j.job
         /\ \A n \in Kin(t.parent, g) \cap Synths : \E i \in ItemsOf(t, g) : n \in ToSet(i.job)
  <1>1. PICK s : s = t.kids[g]
    OBVIOUS
  <1>2. s \in Seq(Nodes) /\ IsInjective(s) /\ ToSet(s) = Kin(t.parent, g)
    BY <1>1, TreeFacts DEF Sound, FitsAt
  <1>3. \A job, successors, limit :
            Item(job, successors, limit).job = job /\ Item(job, successors, limit).id = job[1]
    BY DEF Item
  <1>4. CASE g \in ParGroups
    <2>1. ItemsOf(t, g) = {Item(<<n>>, Arguments(t)[g].successors, Arguments(t)[g].previous) :
                              n \in ToSet(s) \cap Synths}
      BY <1>1, <1>4 DEF ItemsOf
    <2> DEFINE One(n) == Item(<<n>>, Arguments(t)[g].successors, Arguments(t)[g].previous)
    <2>5. \A n : <<n>>[1] = n /\ DOMAIN <<n>> = {1}
      OBVIOUS
    <2>6. \A n : One(n).job = <<n>> /\ One(n).id = n
      <3> TAKE n
      <3>1. One(n).job = <<n>> /\ One(n).id = <<n>>[1]
        BY <1>3
      <3> HIDE DEF One
      <3> QED BY <2>5, <3>1
    <2>7. ItemsOf(t, g) = {One(n) : n \in ToSet(s) \cap Synths}
      BY <2>1
    <2> HIDE DEF One
    <2>2. \A i \in ItemsOf(t, g) : \E n \in ToSet(s) \cap Synths : i.job = <<n>> /\ i.id = n
      BY <2>6, <2>7
    <2>3. \A n \in ToSet(s) \cap Synths : \E i \in ItemsOf(t, g) : i.job = <<n>>
      BY <2>6, <2>7
    <2>4. \A n : ToSet(<<n>>) = {n}
      <3> TAKE n
      <3>1. <<n>>[1] = n /\ DOMAIN <<n>> = {1}
        BY <2>5
      <3>2. ToSet(<<n>>) = {<<n>>[i] : i \in {1}}
        BY <3>1 DEF ToSet
      <3> QED BY <3>1, <3>2
    <2>8. \A i \in ItemsOf(t, g) : \E n \in ToSet(s) \cap Synths : ToSet(i.job) = {n} /\ i.id = n /\ i.job = <<n>>
      BY <2>2, <2>4
    <2>9. \A n \in ToSet(s) \cap Synths : \E i \in ItemsOf(t, g) : ToSet(i.job) = {n}
      BY <2>3, <2>4
    <2>10. \A i, j \in ItemsOf(t, g) : i.id = j.id => i.job = j.job
      BY <2>8
    <2>11. \A i \in ItemsOf(t, g) :
               i.id \in ToSet(i.job) /\ ToSet(i.job) \subseteq Kin(t.parent, g) \cap Synths
      BY <1>2, <2>8
    <2>12. \A n \in Kin(t.parent, g) \cap Synths : \E i \in ItemsOf(t, g) : n \in ToSet(i.job)
      BY <1>2, <2>9
    <2> QED BY <2>10, <2>11, <2>12
  <1>5. CASE g \notin ParGroups
    <2> DEFINE Job(k) == SubSeq(s, RunStart(t, g, k), k)
    <2>1. ItemsOf(t, g) = {Item(Job(k), Successors(t, g, k, Arguments(t)[g].successors),
                                PreviousCount(t, g, RunStart(t, g, k), Arguments(t)[g].previous)) :
                              k \in RunEnds(t, g)}
      BY <1>1, <1>5 DEF ItemsOf
    <2>2. \A k \in RunEnds(t, g) : k \in 1 .. Len(s) /\ s[k] \in Synths
      BY <1>1, <1>2 DEF RunEnds
    <2>3. \A k \in RunEnds(t, g) : /\ RunStart(t, g, k) \in 1 .. k
                                   /\ \A i \in RunStart(t, g, k) .. k : s[i] \in Synths
      BY <1>1, <1>2, <2>2, RunFacts
    <2>4. \A k \in RunEnds(t, g) :
              /\ Job(k)[1] = s[RunStart(t, g, k)]
              /\ ToSet(Job(k)) = {s[i] : i \in RunStart(t, g, k) .. k}
      <3> TAKE k \in RunEnds(t, g)
      <3>1. PICK a : a = RunStart(t, g, k)
        OBVIOUS
      <3>2. k \in 1 .. Len(s) /\ a \in 1 .. k
        BY <2>2, <2>3, <3>1
      <3>3. /\ SubSeq(s, a, k) \in Seq(Nodes) /\ Len(SubSeq(s, a, k)) = k - a + 1
            /\ \A i \in 1 .. k - a + 1 : SubSeq(s, a, k)[i] = s[a + i - 1]
        BY <1>2, <3>2
      <3>4. ToSet(SubSeq(s, a, k)) = {SubSeq(s, a, k)[i] : i \in 1 .. k - a + 1}
        BY <3>3 DEF ToSet
      <3>5. \A i \in a .. k : i - a + 1 \in 1 .. k - a + 1 /\ a + (i - a + 1) - 1 = i
        BY <3>2
      <3>6. \A i \in 1 .. k - a + 1 : a + i - 1 \in a .. k
        BY <3>2
      <3>7. ToSet(SubSeq(s, a, k)) = {s[i] : i \in a .. k}
        BY <3>3, <3>4, <3>5, <3>6
      <3>8. SubSeq(s, a, k)[1] = s[a]
        BY <3>2, <3>3
      <3> QED BY <3>1, <3>7, <3>8
    <2> HIDE DEF Job
    <2>5. \A i \in ItemsOf(t, g) : \E k \in RunEnds(t, g) : i.job = Job(k) /\ i.id = Job(k)[1]
      BY <1>3, <2>1
    <2>6. \A k \in RunEnds(t, g) : \E i \in ItemsOf(t, g) : i.job = Job(k)
      BY <1>3, <2>1
    <2>7. ASSUME NEW i \in ItemsOf(t, g)
          PROVE  i.id \in ToSet(i.job) /\ ToSet(i.job) \subseteq Kin(t.parent, g) \cap Synths
      <3>1. PICK k \in RunEnds(t, g) : i.job = Job(k) /\ i.id = Job(k)[1]
        BY <2>5
      <3>2. \A x \in RunStart(t, g, k) .. k : s[x] \in ToSet(s) \cap Synths
        <4>1. \A x \in RunStart(t, g, k) .. k : x \in 1 .. Len(s)
          BY <1>2, <2>2, <2>3
        <4> QED BY <1>2, <2>3, <4>1 DEF ToSet
      <3>3. RunStart(t, g, k) \in RunStart(t, g, k) .. k
        BY <2>2, <2>3
      <3> QED BY <1>2, <2>4, <3>1, <3>2, <3>3
    <2>8. ASSUME NEW i \in ItemsOf(t, g), NEW j \in ItemsOf(t, g), i.id = j.id PROVE i.job = j.job
      <3>1. PICK k \in RunEnds(t, g) : i.job = Job(k) /\ i.id = Job(k)[1]
        BY <2>5
      <3>2. PICK l \in RunEnds(t, g) : j.job = Job(l) /\ j.id = Job(l)[1]
        BY <2>5
      <3>3. s[RunStart(t, g, k)] = s[RunStart(t, g, l)]
        BY <2>4, <2>8, <3>1, <3>2
      <3>4. RunStart(t, g, k) \in 1 .. Len(s) /\ RunStart(t, g, l) \in 1 .. Len(s)
        BY <1>2, <2>2, <2>3
      <3>5. RunStart(t, g, k) = RunStart(t, g, l)
        BY <1>2, <3>3, <3>4 DEF IsInjective
      <3>6. k = l
        BY <1>1, <1>2, <3>5, RunsDiffer
      <3> QED BY <3>1, <3>2, <3>6
    <2>9. ASSUME NEW n \in Kin(t.parent, g) \cap Synths PROVE \E i \in ItemsOf(t, g) : n \in ToSet(i.job)
      <3>1. PICK x \in 1 .. Len(s) : s[x] = n
        BY <1>2 DEF ToSet
      <3>2. PICK k \in RunEnds(t, g) : x \in RunStart(t, g, k) .. k
        BY <1>1, <1>2, <3>1, RunsCover
      <3>3. n \in ToSet(Job(k))
        BY <2>4, <3>1, <3>2
      <3> QED BY <2>6, <3>3
    <2> QED BY <2>7, <2>8, <2>9
  <1> QED BY <1>4, <1>5

(* Every group with synths that is in the tree is visited.                 *)
LEMMA FilledReached ==
  ASSUME NEW t, Sound(t), NEW n \in SynthsIn(t)
  PROVE  HasSynths(t, Root) /\ t.parent[n] \in Reached(Filled(t), Root)
  <1>1. PICK p : p = t.parent
    OBVIOUS
  <1>2. PICK g : g = p[n]
    OBVIOUS
  <1>3. /\ t \in Trees /\ p \in Parents /\ Hangs(p) /\ n \in Nodes /\ n \in Synths /\ p[n] # Nil
        /\ \A x \in Groups : FitsAt(t, x)
    BY <1>1, TreeFacts, NodeFacts DEF Sound, SynthsIn, Parents
  <1>4. g \in Groups /\ g \in Reached(Kids(p), Root)
    BY <1>2, <1>3, NodeFacts, KidsFacts DEF Hangs
  <1>5. t.groups = Kids(p)
    <2>1. t.groups \in [Groups -> SUBSET Groups]
      BY <1>3, TreeFacts
    <2>2. \A x \in Groups : t.groups[x] = Kids(p)[x]
      BY <1>1, <1>3, NodeFacts DEF FitsAt, Kin, Kids
    <2>3. Kids(p) = [x \in Groups |-> Kids(p)[x]]
      BY DEF Kids
    <2> QED BY <2>1, <2>2, <2>3
  <1>6. \A x \in Groups : HasSynths(t, x) <=> \E h \in Reached(Kids(p), x) : t.nsyn[h] # 0
    BY <1>5 DEF HasSynths
  <1>7. t.nsyn[g] # 0
    <2>1. t.nsyn[g] = Cardinality(Kin(p, g) \cap Synths) /\ n \in Kin(p, g) \cap Synths
      BY <1>1, <1>2, <1>3, <1>4 DEF FitsAt, Kin
    <2>2. IsFiniteSet(Kin(p, g) \cap Synths)
      <3>1. Kin(p, g) \in SUBSET Nodes
        BY DEF Kin
      <3> QED BY <1>3, <3>1, OneMore
    <2> QED BY <2>1, <2>2, FS_EmptySet
  <1>8. HasSynths(t, g) /\ HasSynths(t, Root)
    BY <1>4, <1>6, <1>7, NodeFacts, KidsFacts
  <1>9. \A h \in Groups : HasSynths(t, h) /\ p[h] \in Groups => HasSynths(t, p[h])
    <2> SUFFICES ASSUME NEW h \in Groups, HasSynths(t, h), p[h] \in Groups PROVE HasSynths(t, p[h])
      OBVIOUS
    <2>1. PICK x \in Reached(Kids(p), h) : t.nsyn[x] # 0
      BY <1>6
    <2>2. /\ p[h] \in Reached(Kids(p), p[h]) /\ Reached(Kids(p), p[h]) \in SUBSET Groups
          /\ \A y \in Groups : p[y] \in Reached(Kids(p), p[h]) => y \in Reached(Kids(p), p[h])
      BY KidsFacts
    <2>3. Reached(Kids(p), h) \subseteq Reached(Kids(p), p[h])
      BY <2>2, KidsFacts
    <2> QED BY <1>6, <2>1, <2>3
  <1>10. \A h \in Groups : Filled(t)[h] = {x \in Groups : p[x] = h /\ HasSynths(t, x)}
    BY <1>1, <1>3, NodeFacts DEF Filled, FitsAt, Kin
  <1>11. /\ Root \in Reached(Filled(t), Root) /\ Reached(Filled(t), Root) \subseteq Groups
         /\ \A h \in Reached(Filled(t), Root) : Filled(t)[h] \subseteq Reached(Filled(t), Root)
    <2>1. \A h \in Groups : Filled(t)[h] \subseteq Groups
      BY <1>10
    <2> QED BY <2>1, NodeFacts, ReachedFacts
  <1> DEFINE S == {h \in Groups : HasSynths(t, h) => h \in Reached(Filled(t), Root)}
  <1>12. S \in SUBSET Groups /\ Root \in S
    BY <1>11, NodeFacts
  <1>13. \A h \in Groups : p[h] \in S => h \in S
    <2> SUFFICES ASSUME NEW h \in Groups, p[h] \in S, HasSynths(t, h) PROVE h \in Reached(Filled(t), Root)
      OBVIOUS
    <2>1. p[h] \in Groups /\ HasSynths(t, p[h])
      BY <1>9
    <2>2. p[h] \in Reached(Filled(t), Root)
      BY <2>1
    <2> QED BY <1>10, <1>11, <2>2
  <1>14. Reached(Kids(p), Root) \subseteq S
    <2> HIDE DEF S
    <2> QED BY <1>12, <1>13, NodeFacts, KidsFacts
  <1> QED BY <1>1, <1>2, <1>4, <1>8, <1>14

ItemSet(t) == IF HasSynths(t, Root) THEN UNION {ItemsOf(t, g) : g \in Reached(Filled(t), Root)} ELSE {}
ItemNamed(t, id) == CHOOSE i \in ItemSet(t) : i.id = id

LEMMA GenerateCovers ==
  ASSUME NEW t, Sound(t)
  PROVE  UNION {ToSet(Generate(t).job[i]) : i \in Generate(t).items} = SynthsIn(t)
  <1>1. PICK q : q = Generate(t)
    OBVIOUS
  <1>2. q.items = {i.id : i \in ItemSet(t)} /\ \A id \in q.items : q.job[id] = ItemNamed(t, id).job
    <2>1. q = QueueOf(ItemSet(t), HasParallel(t, Root))
      BY <1>1 DEF Generate, ItemSet
    <2> QED BY <2>1 DEF QueueOf, ItemNamed
  <1>3. \A id \in q.items : ItemNamed(t, id) \in ItemSet(t) /\ ItemNamed(t, id).id = id
    BY <1>2 DEF ItemNamed
  <1>4. \A i \in ItemSet(t) : \E g \in Groups : i \in ItemsOf(t, g)
    <2>1. Reached(Filled(t), Root) \subseteq Groups
      BY DEF Reached
    <2> QED BY <2>1 DEF ItemSet
  <1>5. ASSUME NEW id \in q.items, NEW n \in ToSet(q.job[id]) PROVE n \in SynthsIn(t)
    <2>1. PICK g \in Groups : ItemNamed(t, id) \in ItemsOf(t, g)
      BY <1>3, <1>4
    <2>2. n \in Kin(t.parent, g) \cap Synths
      BY <1>2, <1>5, <2>1, ItemsFacts
    <2> QED BY <2>2, NodeFacts DEF Kin, SynthsIn
  <1>6. ASSUME NEW n \in SynthsIn(t) PROVE \E id \in q.items : n \in ToSet(q.job[id])
    <2>1. PICK g : g = t.parent[n]
      OBVIOUS
    <2>2. HasSynths(t, Root) /\ g \in Reached(Filled(t), Root)
      BY <2>1, FilledReached
    <2>3. g \in Groups /\ n \in Kin(t.parent, g) \cap Synths
      BY <2>1, <2>2, NodeFacts DEF Kin, SynthsIn, Reached
    <2>4. PICK i \in ItemsOf(t, g) : n \in ToSet(i.job)
      BY <2>3, ItemsFacts
    <2>5. i \in ItemSet(t) /\ i.id \in q.items
      BY <1>2, <2>2 DEF ItemSet
    <2>6. PICK j : j = ItemNamed(t, i.id)
      OBVIOUS
    <2>7. j \in ItemSet(t) /\ j.id = i.id
      BY <1>3, <2>5, <2>6
    <2>8. PICK h \in Groups : j \in ItemsOf(t, h)
      BY <1>4, <2>7
    <2>9. i.id \in Kin(t.parent, g)
      BY <2>3, ItemsFacts
    <2>10. j.id \in Kin(t.parent, h)
      BY <2>8, ItemsFacts
    <2>11. h = g
      BY <2>7, <2>9, <2>10 DEF Kin
    <2>12. j.job = i.job
      BY <2>3, <2>7, <2>8, <2>11, ItemsFacts
    <2> QED BY <1>2, <2>4, <2>5, <2>6, <2>12
  <1> QED BY <1>1, <1>5, <1>6

-----------------------------------------------------------------------------
(* What holds of the tree and of the rest of the state, whatever clients   *)
(* and done actions do, as long as nodes move within their group and no    *)
(* group moves below itself.                                               *)
TreeInv ==
    /\ Sound(tree)
    /\ synth_count \in Int
    /\ queued \subseteq Synths /\ fresh \subseteq Synths
    /\ orphans \subseteq queued \cup fresh
    /\ dirty \in BOOLEAN /\ emptied \in BOOLEAN
    /\ phase \in {"commands", "running", "updating", "undefined"}
    /\ done \in Seq(Nodes) /\ freeAll \in Seq(Groups)

LEMMA TreeInvTypes ==
  ASSUME TreeInv
  PROVE  GraphTypeOK /\ tree \in Trees /\ tree.parent \in Parents /\ Hangs(tree.parent)
  <1>1. tree \in Trees /\ tree.parent \in Parents /\ Hangs(tree.parent)
    BY TreeFacts DEF TreeInv, Sound, Parents
  <1>2. (\A n \in ToSet(done) : n \in Nodes) /\ \A g \in ToSet(freeAll) : g \in Groups
    BY DEF TreeInv, ToSet
  <1> QED BY <1>1, <1>2 DEF TreeInv, GraphTypeOK, Parents

LEMMA TreeInvInit ==
  ASSUME GraphInit
  PROVE  TreeInv
  <1>1. PICK p : p = [n \in Nodes |-> Nil]
    OBVIOUS
  <1>2. tree = [kids   |-> [g \in Groups |-> <<>>], parent |-> p,
                nsyn   |-> [g \in Groups |-> 0], groups |-> [g \in Groups |-> {}]]
    BY <1>1 DEF GraphInit
  <1>3. p \in Parents /\ Hangs(p)
    BY <1>1, NodeFacts DEF Parents, Hangs
  <1>4. tree \in Trees
    <2>1. [g \in Groups |-> <<>>] \in [Groups -> Seq(Nodes)]
      OBVIOUS
    <2>2. [g \in Groups |-> 0] \in [Groups -> Int]
      OBVIOUS
    <2>3. [g \in Groups |-> {}] \in [Groups -> SUBSET Groups]
      OBVIOUS
    <2> QED BY <1>2, <1>3, <2>1, <2>2, <2>3, TreeIs
  <1>5. \A g \in Groups : FitsAt(tree, g)
    <2> TAKE g \in Groups
    <2>1. tree.kids[g] = <<>> /\ tree.nsyn[g] = 0 /\ tree.groups[g] = {} /\ tree.parent = p
      BY <1>2
    <2>2. Kin(p, g) = {}
      BY <1>1, NodeFacts DEF Kin
    <2>3. ToSet(<<>>) = {} /\ IsInjective(<<>>)
      BY DEF ToSet, IsInjective
    <2> QED BY <2>1, <2>2, <2>3, FS_EmptySet DEF FitsAt
  <1>6. Sound(tree)
    BY <1>2, <1>3, <1>4, <1>5 DEF Sound
  <1>7. <<>> \in Seq(Nodes) /\ <<>> \in Seq(Groups)
    OBVIOUS
  <1>8. /\ done = <<>> /\ freeAll = <<>> /\ synth_count = 0
        /\ queued = {} /\ fresh = {} /\ orphans = {}
    BY DEF GraphInit
  <1>9. dirty \in BOOLEAN /\ emptied \in BOOLEAN /\ phase = "commands"
    BY DEF GraphInit
  <1>10. /\ synth_count \in Int /\ queued \subseteq Synths /\ fresh \subseteq Synths
         /\ orphans \subseteq queued \cup fresh
    BY <1>8
  <1>11. done \in Seq(Nodes) /\ freeAll \in Seq(Groups)
    BY <1>7, <1>8
  <1> QED BY <1>6, <1>9, <1>10, <1>11 DEF TreeInv

LEMMA CountsOfSynths ==
  ASSUME TreeInv, NEW n \in Nodes
  PROVE  /\ Cardinality(Below(tree, n) \cap Synths) \in Int
         /\ SynthsFrom(n) \in Int
  <1>1. Below(tree, n) \in SUBSET Nodes /\ Below(tree, n) \cup {n} \in SUBSET Nodes
    BY BelowIs, TreeInvTypes, DescFacts DEF TreeInv
  <1>2. /\ Cardinality(Below(tree, n) \cap Synths) \in Nat
        /\ Cardinality((Below(tree, n) \cup {n}) \cap Synths) \in Nat
    BY <1>1, OneMore
  <1> QED BY <1>2 DEF SynthsFrom

(* What a command does to the synths in the tree.                          *)
CommandStep ==
    /\ TreeInv'
    /\ SynthsIn(tree') \subseteq SynthsIn(tree) \cup fresh'
    /\ dirty' \/ SynthsIn(tree') \subseteq SynthsIn(tree)
    /\ dirty => dirty'
    /\ fresh \subseteq fresh'
    /\ UNCHANGED <<queued, done, freeAll, emptied>>
    /\ phase' = phase \/ Undefined

LEMMA ShrunkSynths ==
  ASSUME \A m \in Nodes : tree'.parent[m] # Nil => tree.parent[m] # Nil
  PROVE  SynthsIn(tree') \subseteq SynthsIn(tree)
  BY NodeFacts DEF SynthsIn

LEMMA UndefinedTree ==
  ASSUME TreeInv, Undefined
  PROVE  TreeInv'
  BY DEF TreeInv, Undefined

LEMMA CommandsTree ==
  ASSUME TreeInv, ~CrossMoves, ~CyclicMoves, Commands
  PROVE  CommandStep
  <1>1. Sound(tree) /\ orphans \subseteq Synths /\ queued \cup fresh \subseteq Synths
    BY DEF TreeInv
  <1>2. ASSUME NEW n \in Nodes, NEW target \in Nodes, NEW w \in Into \cup Beside, AddNode(n, target, w)
        PROVE  /\ Sound(tree') /\ synth_count' \in Int
               /\ \A m \in Nodes : tree'.parent[m] # Nil => m = n \/ tree.parent[m] # Nil
               /\ orphans' \subseteq queued \cup fresh
    <2>1. /\ Sound(tree')
          /\ \A m \in Nodes : tree'.parent[m] # Nil => m = n \/ tree.parent[m] # Nil
      BY <1>1, <1>2, AddNodeSound
    <2>2. synth_count \in Int
      BY DEF TreeInv
    <2>3. synth_count' \in Int
      BY <1>2, <2>2 DEF AddNode
    <2>4. orphans' \subseteq queued \cup fresh
      BY <1>2 DEF AddNode, TreeInv
    <2> QED BY <2>1, <2>3, <2>4
  <1>3. ASSUME NEW s \in Synths, NEW n \in Nodes, NEW w \in Into \cup Beside, AddSynth(s, n, w)
        PROVE  CommandStep
    <2>1. s \in Nodes /\ AddNode(s, n, w)
      BY <1>3, NodeFacts DEF AddSynth
    <2>2. /\ Sound(tree') /\ synth_count' \in Int
          /\ \A m \in Nodes : tree'.parent[m] # Nil => m = s \/ tree.parent[m] # Nil
          /\ orphans' \subseteq queued \cup fresh
      BY <1>2, <2>1
    <2>3. SynthsIn(tree') \subseteq SynthsIn(tree) \cup fresh'
      BY <1>3, <2>2, NodeFacts DEF SynthsIn, AddSynth
    <2> QED BY <1>3, <2>2, <2>3 DEF CommandStep, TreeInv, AddSynth, tickVars
  <1>4. ASSUME NEW g \in Groups, NEW n \in Nodes, NEW w \in Into \cup Beside, AddGroup(g, n, w)
        PROVE  CommandStep
    <2>1. g \in Nodes /\ AddNode(g, n, w)
      BY <1>4, NodeFacts DEF AddGroup
    <2>2. /\ Sound(tree') /\ synth_count' \in Int
          /\ \A m \in Nodes : tree'.parent[m] # Nil => m = g \/ tree.parent[m] # Nil
          /\ orphans' \subseteq queued \cup fresh
      BY <1>2, <2>1
    <2>3. SynthsIn(tree') \subseteq SynthsIn(tree)
      BY <2>2, NodeFacts DEF SynthsIn
    <2> QED BY <1>4, <2>2, <2>3 DEF CommandStep, TreeInv, AddGroup, tickVars
  <1>5. ASSUME NEW n \in Nodes, FreeNode(n) PROVE CommandStep
    <2>1. n # Root /\ tree.parent[n] # Nil /\ tree' = Freed(tree, n)
      BY <1>5 DEF FreeNode, TreeInv, Sound, Hangs
    <2>2. Sound(tree') /\ tree'.parent = Without(tree.parent, Gone(tree.parent, n))
      BY <1>1, <2>1, FreedSound
    <2>3. SynthsIn(tree') \subseteq SynthsIn(tree)
      BY <2>2, NodeFacts DEF SynthsIn, Without
    <2>4. synth_count' \in Int
      BY <1>5, CountsOfSynths DEF FreeNode, TreeInv
    <2> QED BY <1>5, <2>2, <2>3, <2>4 DEF CommandStep, TreeInv, FreeNode, tickVars
  <1>6. ASSUME NEW g \in Groups, GroupFreeAll(g) PROVE CommandStep
    <2>1. g \in Nodes /\ tree' = Emptied(tree, g)
      BY <1>6, NodeFacts DEF GroupFreeAll
    <2>2. Sound(tree') /\ tree'.parent = Without(tree.parent, Desc(tree.parent, g))
      BY <1>1, <2>1, EmptiedSound
    <2>3. SynthsIn(tree') \subseteq SynthsIn(tree)
      BY <2>2, NodeFacts DEF SynthsIn, Without
    <2>4. synth_count' \in Int
      BY <1>6, <2>1, CountsOfSynths DEF GroupFreeAll, TreeInv
    <2> QED BY <1>6, <2>2, <2>3, <2>4 DEF CommandStep, TreeInv, GroupFreeAll, tickVars
  <1>7. ASSUME NEW g \in Groups, GroupFreeDeep(g) PROVE CommandStep
    <2>1. Sound(tree') /\ SynthsIn(tree') \subseteq SynthsIn(tree)
      BY <1>1, <1>7, FreeDeepSound, ShrunkSynths
    <2>2. synth_count' \in Int
      <3>1. PICK garbage \in Garbage :
               synth_count' = synth_count - (garbage + Cardinality(Below(tree, g) \cap Synths))
        BY <1>7 DEF GroupFreeDeep
      <3>2. garbage \in Int /\ Cardinality(Below(tree, g) \cap Synths) \in Int /\ synth_count \in Int
        BY CountsOfSynths, GarbageAssumption, NodeFacts DEF TreeInv
      <3> QED BY <3>1, <3>2
    <2> QED BY <1>7, <2>1, <2>2 DEF CommandStep, TreeInv, GroupFreeDeep, tickVars
  <1>8. ASSUME NEW n \in Nodes, NEW g \in Groups, NEW w, MoveInto(n, g, w) PROVE CommandStep
    <2>1. Sound(tree') /\ SynthsIn(tree') \subseteq SynthsIn(tree)
      BY <1>1, <1>8, MoveIntoSound, ShrunkSynths
    <2> QED BY <1>8, <2>1 DEF CommandStep, TreeInv, MoveInto, tickVars
  <1>9. ASSUME NEW n \in Nodes, NEW m \in Nodes, NEW w, MoveBeside(n, m, w) PROVE CommandStep
    <2>1. Sound(tree') /\ SynthsIn(tree') \subseteq SynthsIn(tree)
      BY <1>1, <1>9, MoveBesideSound, ShrunkSynths
    <2> QED BY <1>9, <2>1 DEF CommandStep, TreeInv, MoveBeside, tickVars
  <1>10. ASSUME NEW n \in Nodes, NEW m \in Nodes, NEW w, Order(n, m, w) PROVE CommandStep
    <2>1. Sound(tree') /\ SynthsIn(tree') \subseteq SynthsIn(tree)
      BY <1>1, <1>10, OrderSound, ShrunkSynths
    <2> QED BY <1>10, <2>1 DEF CommandStep, TreeInv, Order, tickVars
  <1>11. ASSUME Undefined PROVE CommandStep
    <2>1. TreeInv'
      BY <1>11, UndefinedTree
    <2> QED BY <1>11, <2>1 DEF CommandStep, Undefined
  <1> QED BY <1>3, <1>4, <1>5, <1>6, <1>7, <1>8, <1>9, <1>10, <1>11
          DEF Commands, AddBesideNone, MoveNone, OrderNone

(* The tick.                                                               *)
LEMMA RunTree ==
  ASSUME TreeInv, Run
  PROVE  TreeInv'
  BY DEF TreeInv, Run

(* What a done action names.                                               *)
NamedBy(s, action) ==
  LET g == tree.parent[s] IN
  \/ action = 2 /\ done' = done \o <<s>> /\ freeAll' = freeAll
  \/ /\ action = 3 /\ g # Nil /\ freeAll' = freeAll
     /\ \/ done' = done \o <<s>>
        \/ \E m \in Nodes : tree.parent[m] = g /\ done' = done \o <<s, m>>
  \/ action = 14 /\ g # Nil /\ done' = done \o <<g>> /\ freeAll' = freeAll
  \/ action = 13 /\ g # Nil /\ done' = done /\ freeAll' = Append(freeAll, g)
  \/ action # 2 /\ done' = done /\ freeAll' = freeAll

LEMMA DoneActionNames ==
  ASSUME TreeInv, NEW s \in Synths, NEW action, DoneAction(s, action)
  PROVE  NamedBy(s, action) /\ TreeInv'
  <1>1. PICK g : g = tree.parent[s]
    OBVIOUS
  <1>2. PICK at : at = SelectInSeq(tree.kids[g], LAMBDA m : m = s)
    OBVIOUS
  <1>3. /\ done' = done \o
              (IF action = 2 THEN <<s>>
               ELSE IF action = 3
               THEN IF g \in SeqGroups /\ at > 1 THEN <<s, tree.kids[g][at - 1]>> ELSE <<s>>
               ELSE IF action = 14 THEN <<g>> ELSE <<>>)
        /\ freeAll' = IF action = 13 THEN Append(freeAll, g) ELSE freeAll
        /\ g = Nil => action = 2
        /\ UNCHANGED <<tree, synth_count, queued, fresh, dirty, orphans, phase, emptied>>
    BY <1>1, <1>2 DEF DoneAction
  <1>4. done \in Seq(Nodes) /\ freeAll \in Seq(Groups) /\ Sound(tree) /\ s \in Nodes
    BY NodeFacts DEF TreeInv
  <1>5. done \o <<>> = done
    BY <1>4
  <1>6. g \in Groups \cup {Nil}
    BY <1>1, <1>4, TreeInvTypes DEF Parents
  <1>7. ASSUME g \in SeqGroups, at > 1
        PROVE  tree.kids[g][at - 1] \in Nodes /\ tree.parent[tree.kids[g][at - 1]] = g
    <2>1. g \in Groups /\ g # Nil
      BY <1>7, NodeFacts DEF Groups
    <2>2. tree.kids[g] \in Seq(Nodes) /\ Len(tree.kids[g]) \in Nat /\ at \in 1 .. Len(tree.kids[g])
      BY <1>1, <1>2, <1>4, <2>1, PositionIn
    <2>3. at - 1 \in 1 .. Len(tree.kids[g])
      BY <1>7, <2>2
    <2>4. tree.kids[g][at - 1] \in ToSet(tree.kids[g])
      BY <2>2, <2>3 DEF ToSet
    <2> QED BY <1>4, <2>1, <2>4 DEF Sound, FitsAt, Kin
  <1>8. NamedBy(s, action)
    <2>1. CASE action = 2
      <3>1. done' = done \o <<s>> /\ freeAll' = freeAll
        BY <1>3, <2>1
      <3> QED BY <2>1, <3>1 DEF NamedBy
    <2>2. CASE action = 3 /\ g # Nil
      <3>1. CASE g \in SeqGroups /\ at > 1
        <4>1. done' = done \o <<s, tree.kids[g][at - 1]>> /\ freeAll' = freeAll
          BY <1>3, <2>2, <3>1
        <4> QED BY <1>1, <1>7, <2>2, <3>1, <4>1 DEF NamedBy
      <3>2. CASE ~(g \in SeqGroups /\ at > 1)
        <4>1. done' = done \o <<s>> /\ freeAll' = freeAll
          BY <1>3, <2>2, <3>2
        <4> QED BY <1>1, <2>2, <4>1 DEF NamedBy
      <3> QED BY <3>1, <3>2
    <2>3. CASE action = 14 /\ g # Nil
      BY <1>1, <1>3, <2>3 DEF NamedBy
    <2>4. CASE action = 13 /\ g # Nil
      <3>1. done' = done \o <<>> /\ freeAll' = Append(freeAll, g)
        BY SMTT(40), <1>3, <2>4
      <3> QED BY <1>1, <1>5, <2>4, <3>1 DEF NamedBy
    <2>5. CASE action \notin {2, 3, 13, 14}
      BY <1>1, <1>3, <1>5, <2>5 DEF NamedBy
    <2> QED BY <1>3, <2>1, <2>2, <2>3, <2>4, <2>5
  <1>9. done' \in Seq(Nodes) /\ freeAll' \in Seq(Groups)
    <2>1. \A n, m \in Nodes : done \o <<n>> \in Seq(Nodes) /\ done \o <<n, m>> \in Seq(Nodes)
      BY <1>4
    <2>2. g # Nil => g \in Nodes /\ Append(freeAll, g) \in Seq(Groups)
      BY <1>4, <1>6, NodeFacts
    <2> QED BY <1>1, <1>4, <1>8, <2>1, <2>2 DEF NamedBy
  <1> QED BY <1>3, <1>8, <1>9 DEF TreeInv

LEMMA FreeDoneTree ==
  ASSUME TreeInv, FreeDone
  PROVE  /\ TreeInv'
         /\ Head(done) \in Nodes
         /\ \/ tree' = tree /\ dirty' = dirty /\ emptied' = emptied
            \/ /\ dirty' /\ tree'.parent = Without(tree.parent, Gone(tree.parent, Head(done)))
               /\ emptied' = (emptied \/ Head(done) \in Groups)
  <1>1. PICK n : n = Head(done)
    OBVIOUS
  <1>2. /\ done # <<>> /\ done' = Tail(done) /\ phase' = "updating"
        /\ UNCHANGED <<queued, fresh, orphans, freeAll>>
    BY <1>1 DEF FreeDone
  <1>3. done \in Seq(Nodes) /\ Sound(tree)
    BY DEF TreeInv
  <1>4. n \in Nodes /\ done' \in Seq(Nodes)
    BY <1>1, <1>2, <1>3
  <1>5. CASE tree.parent[n] = Nil
    <2>1. UNCHANGED <<tree, synth_count, dirty, emptied>>
      BY <1>1, <1>5 DEF FreeDone
    <2> QED BY <1>1, <1>2, <1>4, <2>1 DEF TreeInv
  <1>6. CASE tree.parent[n] # Nil
    <2>1. /\ tree' = Freed(tree, n) /\ synth_count' = synth_count - SynthsFrom(n) /\ dirty' = TRUE
          /\ emptied' = (emptied \/ n \in Groups)
      BY <1>1, <1>6 DEF FreeDone
    <2>4. n # Root
      BY <1>3, <1>6 DEF Sound, Hangs
    <2>2. Sound(tree') /\ tree'.parent = Without(tree.parent, Gone(tree.parent, n))
      BY <1>3, <1>4, <1>6, <2>1, <2>4, FreedSound
    <2>3. synth_count' \in Int
      <3>1. synth_count \in Int /\ SynthsFrom(n) \in Int
        BY <1>4, CountsOfSynths DEF TreeInv
      <3> QED BY <2>1, <3>1
    <2> QED BY <1>1, <1>2, <1>4, <2>1, <2>2, <2>3 DEF TreeInv
  <1> QED BY <1>5, <1>6

LEMMA FreeAllDoneTree ==
  ASSUME TreeInv, FreeAllDone
  PROVE  TreeInv' /\ dirty' /\ emptied' /\ SynthsIn(tree') \subseteq SynthsIn(tree)
  <1>1. PICK g : g = Head(freeAll)
    OBVIOUS
  <1>2. /\ freeAll # <<>> /\ freeAll' = Tail(freeAll) /\ phase' = "updating"
        /\ emptied' = TRUE /\ UNCHANGED <<queued, fresh, orphans, done>>
        /\ tree' = Emptied(tree, g) /\ dirty' = TRUE
        /\ synth_count' = synth_count - Cardinality(Below(tree, g) \cap Synths)
    BY <1>1 DEF FreeAllDone
  <1>3. freeAll \in Seq(Groups) /\ Sound(tree)
    BY DEF TreeInv
  <1>4. g \in Groups /\ g \in Nodes /\ freeAll' \in Seq(Groups)
    BY <1>1, <1>2, <1>3, NodeFacts
  <1>5. Sound(tree') /\ tree'.parent = Without(tree.parent, Desc(tree.parent, g))
    BY <1>2, <1>3, <1>4, EmptiedSound
  <1>6. synth_count' \in Int
    <2>1. synth_count \in Int /\ Cardinality(Below(tree, g) \cap Synths) \in Int
      BY <1>4, CountsOfSynths DEF TreeInv
    <2> QED BY <1>2, <2>1
  <1>7. SynthsIn(tree') \subseteq SynthsIn(tree)
    BY <1>5, NodeFacts DEF SynthsIn, Without
  <1> QED BY <1>2, <1>4, <1>5, <1>6, <1>7 DEF TreeInv

LEMMA StartTickTree ==
  ASSUME TreeInv, StartTick
  PROVE  TreeInv' /\ queued' = IF dirty THEN SynthsIn(tree) ELSE queued
  <1>1. queued' = IF dirty THEN SynthsIn(tree) ELSE queued
    BY GenerateCovers DEF StartTick, TreeInv
  <1>2. queued' \subseteq Synths
    BY <1>1 DEF TreeInv, SynthsIn
  <1>3. orphans' \subseteq queued' \cup fresh'
    BY DEF StartTick
  <1> QED BY <1>1, <1>2, <1>3 DEF TreeInv, StartTick

LEMMA NextTree ==
  ASSUME TreeInv, ~CrossMoves, ~CyclicMoves, [GraphNext]_graphVars
  PROVE  TreeInv'
  <1>1. ASSUME Commands PROVE TreeInv'
    BY <1>1, CommandsTree DEF CommandStep
  <1>2. ASSUME NEW s \in Synths, NEW a \in DoneActions, DoneAction(s, a) PROVE TreeInv'
    BY <1>2, DoneActionNames
  <1>3. CASE UNCHANGED graphVars
    BY <1>3 DEF TreeInv, graphVars
  <1>4. ASSUME Undefined PROVE TreeInv'
    BY <1>4, UndefinedTree
  <1> QED BY <1>1, <1>2, <1>3, <1>4, RunTree, FreeDoneTree, FreeAllDoneTree, StartTickTree
          DEF GraphNext, DoneNone, CarryOutNone, Over

LEMMA TreeInvariance ==
  ASSUME ~CrossMoves, ~CyclicMoves
  PROVE  GraphSpec => []TreeInv
  <1>1. TreeInv /\ [GraphNext]_graphVars => TreeInv'
    BY NextTree
  <1> QED BY <1>1, TreeInvInit, PTL DEF GraphSpec

LEMMA TreeInvLists ==
  ASSUME TreeInv
  PROVE  ListsAgree
  <1>1. GraphTypeOK /\ tree.parent \in Parents /\ Hangs(tree.parent)
    BY TreeInvTypes
  <1>2. \A g \in Groups : FitsAt(tree, g)
    BY DEF TreeInv, Sound
  <1>3. ASSUME NEW g \in Groups
        PROVE  /\ \A n \in Nodes : n \in ToSet(tree.kids[g]) <=> tree.parent[n] = g
               /\ IsInjective(tree.kids[g])
               /\ tree.nsyn[g] = Cardinality(ToSet(tree.kids[g]) \cap Synths)
               /\ tree.groups[g] = ToSet(tree.kids[g]) \cap Groups
    <2>1. FitsAt(tree, g)
      BY <1>2
    <2>2. ToSet(tree.kids[g]) = Kin(tree.parent, g)
      BY <2>1 DEF FitsAt
    <2> QED BY <2>1, <2>2 DEF FitsAt, Kin
  <1>4. {n \in Nodes : tree.parent[n] # Nil} = Below(tree, Root)
    <2>1. Below(tree, Root) = {m \in Nodes : tree.parent[m] \in Reached(Kids(tree.parent), Root)}
      BY BelowIs, NodeFacts DEF TreeInv, Desc
    <2>2. Reached(Kids(tree.parent), Root) \subseteq Groups
      BY KidsFacts, NodeFacts
    <2> QED BY <1>1, <2>1, <2>2, NodeFacts DEF Hangs
  <1> QED BY <1>1, <1>3, <1>4 DEF ListsAgree

(* As long as /n_before and /n_after move nodes within their group and no  *)
(* group is moved into or below itself, parents, lists and counters agree  *)
(* after any other commands and done actions.                              *)
THEOREM ListsStayRight ==
  ASSUME ~CrossMoves, ~CyclicMoves
  PROVE  GraphSpec => []ListsAgree
  <1>1. TreeInv => ListsAgree
    BY TreeInvLists
  <1> QED BY <1>1, TreeInvariance, PTL

(* What is named beside the tree.  Synths live until the queue is replaced *)
(* at the start of the next tick, when nothing is named any more; groups   *)
(* stay in the tree until a done action frees or empties one.              *)
Held(n) == IF n \in Synths THEN n \in queued \cup fresh ELSE emptied \/ InTree(n)
NamedHeld ==
    /\ phase = "commands" => done = <<>> /\ freeAll = <<>>
    /\ \A i \in 1 .. Len(done) : Held(done[i])
    /\ \A i \in 1 .. Len(freeAll) : emptied \/ InTree(freeAll[i])
HeldInv ==
    /\ TreeInv
    /\ SynthsIn(tree) \subseteq queued \cup fresh
    /\ dirty \/ SynthsIn(tree) \subseteq queued
    /\ NamedHeld

LEMMA NothingNamed ==
  ASSUME done' = <<>>, freeAll' = <<>>
  PROVE  NamedHeld'
  <1>1. Len(<<>>) = 0 /\ \A i : i \notin 1 .. 0
    OBVIOUS
  <1> QED BY <1>1 DEF NamedHeld

LEMMA HeldUndefined ==
  ASSUME HeldInv, Undefined
  PROVE  HeldInv'
  <1>1. TreeInv'
    BY UndefinedTree DEF HeldInv
  <1> QED BY <1>1 DEF HeldInv, NamedHeld, Held, InTree, Undefined

LEMMA HeldDoneAction ==
  ASSUME HeldInv, NEW s \in Synths, NEW action, DoneAction(s, action)
  PROVE  HeldInv'
  <1>1. PICK g : g = tree.parent[s]
    OBVIOUS
  <1>2. TreeInv' /\ NamedBy(s, action)
    BY DoneActionNames DEF HeldInv
  <1>3. /\ s \in queued /\ phase = "running"
        /\ UNCHANGED <<tree, synth_count, queued, fresh, dirty, orphans, phase, emptied>>
    BY DEF DoneAction
  <1>4. /\ done \in Seq(Nodes) /\ freeAll \in Seq(Groups) /\ Sound(tree) /\ NamedHeld
        /\ SynthsIn(tree) \subseteq queued \cup fresh
    BY DEF HeldInv, TreeInv
  <1>5. s \in Nodes /\ g \in Groups \cup {Nil}
    BY <1>1, <1>4, TreeInvTypes, NodeFacts DEF HeldInv, Parents
  <1>6. g # Nil => InTree(g) /\ g \notin Synths
    <2> HAVE g # Nil
    <2>1. tree.parent[s] # Nil /\ Hangs(tree.parent)
      BY <1>1, <1>4 DEF Sound
    <2>2. g \in Groups /\ (g = Root \/ tree.parent[g] # Nil)
      BY <1>1, <1>5, <2>1, ParentInTree
    <2> QED BY <2>2, NodeFacts DEF InTree
  <1>7. /\ Held(s) /\ (g # Nil => Held(g))
        /\ \A m \in Nodes : tree.parent[m] = g /\ g # Nil => Held(m)
    BY <1>3, <1>4, <1>6 DEF Held, InTree, SynthsIn
  <1>9. \A i \in 1 .. Len(done') : Held(done'[i])
    <2>1. \A i \in 1 .. Len(done) : Held(done[i])
      BY <1>4 DEF NamedHeld
    <2>2. ASSUME NEW n, Held(n), done' = done \o <<n>>
          PROVE  \A i \in 1 .. Len(done') : Held(done'[i])
      <3>1. \A i \in 1 .. Len(done') : (i \in 1 .. Len(done) /\ done'[i] = done[i]) \/ done'[i] = n
        BY <1>4, <2>2
      <3> QED BY <2>1, <2>2, <3>1
    <2>3. ASSUME NEW n, Held(n), NEW m, Held(m), done' = done \o <<n, m>>
          PROVE  \A i \in 1 .. Len(done') : Held(done'[i])
      <3>1. \A i \in 1 .. Len(done') :
                (i \in 1 .. Len(done) /\ done'[i] = done[i]) \/ done'[i] = n \/ done'[i] = m
        BY <1>4, <2>3
      <3> QED BY <2>1, <2>3, <3>1
    <2>4. \/ done' = done
          \/ done' = done \o <<s>>
          \/ g # Nil /\ done' = done \o <<g>>
          \/ g # Nil /\ \E m \in Nodes : tree.parent[m] = g /\ done' = done \o <<s, m>>
      BY <1>1, <1>2 DEF NamedBy
    <2>5. CASE g # Nil /\ \E m \in Nodes : tree.parent[m] = g /\ done' = done \o <<s, m>>
      BY <1>7, <2>3, <2>5
    <2> QED BY <1>7, <2>1, <2>2, <2>4, <2>5
  <1>10. \A i \in 1 .. Len(freeAll') : emptied \/ InTree(freeAll'[i])
    <2>1. freeAll' = freeAll \/ (g # Nil /\ freeAll' = Append(freeAll, g))
      BY <1>1, <1>2 DEF NamedBy
    <2>2. CASE freeAll' = freeAll
      BY <1>4, <2>2 DEF NamedHeld
    <2>3. CASE g # Nil /\ freeAll' = Append(freeAll, g)
      <3>1. g \in Groups
        BY <1>5, <2>3
      <3>2. \A i \in 1 .. Len(freeAll') :
                (i \in 1 .. Len(freeAll) /\ freeAll'[i] = freeAll[i]) \/ freeAll'[i] = g
        BY <1>4, <2>3, <3>1
      <3> QED BY <1>4, <1>6, <2>3, <3>2 DEF NamedHeld
    <2> QED BY <2>1, <2>2, <2>3
  <1>11. NamedHeld'
    BY <1>3, <1>9, <1>10 DEF NamedHeld, Held, InTree
  <1> QED BY <1>2, <1>3, <1>11 DEF HeldInv

LEMMA HeldCommands ==
  ASSUME HeldInv, ~CrossMoves, ~CyclicMoves, Commands, ~Undefined
  PROVE  HeldInv'
  <1>1. TreeInv /\ CommandStep
    BY CommandsTree DEF HeldInv
  <1>2. phase = "commands"
    <2>1. \A s \in Synths, n \in Nodes, w \in Into \cup Beside : AddSynth(s, n, w) => phase = "commands"
      BY DEF AddSynth, AddNode
    <2>2. \A g \in Groups, n \in Nodes, w \in Into \cup Beside : AddGroup(g, n, w) => phase = "commands"
      BY DEF AddGroup, AddNode
    <2>3. \A n \in Nodes : FreeNode(n) => phase = "commands"
      BY DEF FreeNode
    <2>4. \A g \in Groups : GroupFreeAll(g) \/ GroupFreeDeep(g) => phase = "commands"
      BY DEF GroupFreeAll, GroupFreeDeep
    <2>5. \A n \in Nodes, g \in Groups, w \in Into : MoveInto(n, g, w) => phase = "commands"
      BY DEF MoveInto, Movable
    <2>6. \A n, m \in Nodes, w \in Beside : MoveBeside(n, m, w) => phase = "commands"
      BY DEF MoveBeside, Movable
    <2>7. \A n, m \in Nodes, w \in Into \cup Beside : Order(n, m, w) => phase = "commands"
      BY DEF Order, Movable
    <2> QED BY <2>1, <2>2, <2>3, <2>4, <2>5, <2>6, <2>7
            DEF Commands, AddBesideNone, MoveNone, OrderNone
  <1>3. done' = <<>> /\ freeAll' = <<>>
    BY <1>1, <1>2 DEF HeldInv, NamedHeld, CommandStep
  <1>4. NamedHeld'
    BY <1>3, NothingNamed
  <1>5. SynthsIn(tree') \subseteq queued' \cup fresh'
    BY <1>1 DEF CommandStep, HeldInv
  <1>6. dirty' \/ SynthsIn(tree') \subseteq queued'
    BY <1>1 DEF CommandStep, HeldInv
  <1> QED BY <1>1, <1>4, <1>5, <1>6 DEF CommandStep, HeldInv

LEMMA HeldFreeDone ==
  ASSUME HeldInv, FreeDone
  PROVE  HeldInv'
  <1> DEFINE InNext(x) == x = Root \/ tree'.parent[x] # Nil
             HeldNext(x) == IF x \in Synths THEN x \in queued' \cup fresh' ELSE emptied' \/ InNext(x)
  <1>1. PICK n : n = Head(done)
    OBVIOUS
  <1>2. /\ TreeInv /\ TreeInv' /\ n \in Nodes
        /\ \/ tree' = tree /\ dirty' = dirty /\ emptied' = emptied
           \/ /\ dirty' /\ tree'.parent = Without(tree.parent, Gone(tree.parent, n))
              /\ emptied' = (emptied \/ n \in Groups)
    BY <1>1, FreeDoneTree DEF HeldInv
  <1>3. /\ done # <<>> /\ done' = Tail(done) /\ phase' = "updating"
        /\ UNCHANGED <<queued, fresh, freeAll>>
    BY <1>1 DEF FreeDone
  <1>4. done \in Seq(Nodes) /\ freeAll \in Seq(Groups)
    BY <1>2 DEF TreeInv
  <1>5. \A i \in 1 .. Len(done') : i + 1 \in 1 .. Len(done) /\ done'[i] = done[i + 1]
    BY <1>3, <1>4
  <1>6. \A m \in Nodes : m \notin Synths /\ InTree(m) => emptied' \/ InNext(m)
    <2>1. CASE tree' = tree
      BY <2>1 DEF InTree
    <2>2. CASE n \in Groups /\ emptied'
      BY <2>2
    <2>3. CASE n \in Synths /\ tree'.parent = Without(tree.parent, Gone(tree.parent, n))
      <3>1. Gone(tree.parent, n) = {n}
        BY <2>3, NodeFacts DEF Gone, Desc
      <3>2. \A m \in Nodes : m # n => tree'.parent[m] = tree.parent[m]
        BY <2>3, <3>1 DEF Without
      <3> QED BY <2>3, <3>2 DEF InTree
    <2> QED BY <1>2, <2>1, <2>2, <2>3 DEF Nodes
  <1>7. emptied => emptied'
    BY <1>2
  <1>8. \A m \in Nodes : Held(m) => HeldNext(m)
    BY <1>3, <1>6, <1>7 DEF Held
  <1>9. \A i \in 1 .. Len(done') : HeldNext(done'[i])
    <2> TAKE i \in 1 .. Len(done')
    <2>1. i + 1 \in 1 .. Len(done) /\ done'[i] = done[i + 1] /\ done[i + 1] \in Nodes
      BY <1>4, <1>5
    <2>2. Held(done[i + 1])
      BY <2>1 DEF HeldInv, NamedHeld
    <2> QED BY <1>8, <2>1, <2>2
  <1>10. \A i \in 1 .. Len(freeAll') : emptied' \/ InNext(freeAll'[i])
    <2> TAKE i \in 1 .. Len(freeAll')
    <2>1. freeAll'[i] = freeAll[i] /\ freeAll[i] \in Groups /\ i \in 1 .. Len(freeAll)
      BY <1>3, <1>4
    <2>2. emptied \/ InTree(freeAll[i])
      BY <2>1 DEF HeldInv, NamedHeld
    <2>3. freeAll[i] \in Nodes /\ freeAll[i] \notin Synths
      BY <2>1, NodeFacts
    <2> QED BY <1>6, <1>7, <2>1, <2>2, <2>3
  <1>11. NamedHeld'
    <2>1. phase' # "commands"
      BY <1>3
    <2> QED BY <1>9, <1>10, <2>1 DEF NamedHeld, Held, InTree
  <1>12. SynthsIn(tree') \subseteq SynthsIn(tree) /\ (dirty' \/ dirty' = dirty)
    <2>1. CASE tree' = tree /\ dirty' = dirty
      BY <2>1
    <2>2. CASE dirty' /\ tree'.parent = Without(tree.parent, Gone(tree.parent, n))
      BY <2>2, NodeFacts DEF SynthsIn, Without
    <2> QED BY <1>2, <2>1, <2>2
  <1>13. /\ SynthsIn(tree) \subseteq queued \cup fresh
         /\ dirty \/ SynthsIn(tree) \subseteq queued
    BY DEF HeldInv
  <1>14. SynthsIn(tree') \subseteq queued' \cup fresh'
    BY <1>3, <1>12, <1>13
  <1>15. dirty' \/ SynthsIn(tree') \subseteq queued'
    BY <1>3, <1>12, <1>13
  <1> QED BY <1>2, <1>11, <1>14, <1>15 DEF HeldInv

LEMMA HeldFreeAllDone ==
  ASSUME HeldInv, FreeAllDone
  PROVE  HeldInv'
  <1>1. TreeInv' /\ dirty' /\ emptied' /\ SynthsIn(tree') \subseteq SynthsIn(tree)
    BY FreeAllDoneTree DEF HeldInv
  <1>2. done = <<>> /\ done' = <<>> /\ phase' = "updating" /\ UNCHANGED <<queued, fresh>>
    BY DEF FreeAllDone
  <1>3. NamedHeld'
    <2>1. Len(<<>>) = 0 /\ \A i : i \notin 1 .. 0
      OBVIOUS
    <2> QED BY <1>1, <1>2, <2>1 DEF NamedHeld
  <1> QED BY <1>1, <1>2, <1>3 DEF HeldInv

LEMMA HeldStartTick ==
  ASSUME HeldInv, StartTick
  PROVE  HeldInv'
  <1>1. TreeInv' /\ queued' = IF dirty THEN SynthsIn(tree) ELSE queued
    BY StartTickTree DEF HeldInv
  <1>2. done' = <<>> /\ freeAll' = <<>> /\ tree' = tree
    BY DEF StartTick
  <1>3. SynthsIn(tree) \subseteq queued'
    BY <1>1 DEF HeldInv
  <1>4. NamedHeld'
    BY <1>2, NothingNamed
  <1> QED BY <1>1, <1>2, <1>3, <1>4 DEF HeldInv

LEMMA HeldRun ==
  ASSUME HeldInv, Run
  PROVE  HeldInv'
  <1>1. /\ phase = "commands"
        /\ UNCHANGED <<tree, queued, fresh, dirty, done, freeAll>>
    BY DEF Run
  <1>2. done' = <<>> /\ freeAll' = <<>>
    BY <1>1 DEF HeldInv, NamedHeld
  <1>3. NamedHeld'
    BY <1>2, NothingNamed
  <1> QED BY <1>1, <1>3, RunTree DEF HeldInv

LEMMA HeldInvariance ==
  ASSUME ~CrossMoves, ~CyclicMoves
  PROVE  GraphSpec => []HeldInv
  <1>1. ASSUME GraphInit PROVE HeldInv
    <2>1. SynthsIn(tree) = {}
      BY <1>1, NodeFacts DEF GraphInit, SynthsIn
    <2>2. done = <<>> /\ freeAll = <<>>
      BY <1>1 DEF GraphInit
    <2>3. Len(<<>>) = 0 /\ \A i : i \notin 1 .. 0
      OBVIOUS
    <2>4. NamedHeld
      BY <2>2, <2>3 DEF NamedHeld
    <2> QED BY <1>1, <2>1, <2>4, TreeInvInit DEF HeldInv
  <1>2. ASSUME HeldInv, [GraphNext]_graphVars PROVE HeldInv'
    <2>1. ASSUME NEW s \in Synths, NEW a \in DoneActions, DoneAction(s, a) PROVE HeldInv'
      BY <1>2, <2>1, HeldDoneAction
    <2>2. CASE UNCHANGED graphVars
      BY <1>2, <2>2 DEF HeldInv, TreeInv, NamedHeld, Held, InTree, graphVars
    <2>3. CASE Undefined
      BY <1>2, <2>3, HeldUndefined
    <2> QED BY <1>2, <2>1, <2>2, <2>3, HeldCommands, HeldRun, HeldFreeDone, HeldFreeAllDone,
               HeldStartTick
            DEF GraphNext, DoneNone, CarryOutNone, Over
  <1> QED BY <1>1, <1>2, PTL DEF GraphSpec

(* As long as /n_before and /n_after move nodes within their group and no  *)
(* group is moved into or below itself, synths that the tree holds and     *)
(* synths that done actions have named are held by the queue or by the     *)
(* list of synths to prepare, and the groups named are in the tree until   *)
(* update_nodegraph has freed or emptied one.                              *)
THEOREM NamedNodesStayHeld ==
  ASSUME ~CrossMoves, ~CyclicMoves
  PROVE  GraphSpec => []NamedNodesHeld
  <1>1. ASSUME HeldInv PROVE NamedNodesHeld
    <2>1. \A s \in Synths : InTree(s) => s \in queued \cup fresh
      BY <1>1, NodeFacts DEF HeldInv, SynthsIn, InTree
    <2>2. \A n \in ToSet(done) : Held(n)
      BY <1>1 DEF HeldInv, NamedHeld, ToSet, TreeInv
    <2>3. \A g \in ToSet(freeAll) : emptied \/ InTree(g)
      BY <1>1 DEF HeldInv, NamedHeld, ToSet, TreeInv
    <2>4. \A g \in Groups : g \notin Synths
      BY NodeFacts
    <2> QED BY <2>1, <2>2, <2>3, <2>4 DEF NamedNodesHeld, Held, Alive
  <1> QED BY <1>1, HeldInvariance, PTL

-----------------------------------------------------------------------------
(* An empty group that is added changes neither the synths nor their order. *)
LEMMA UnderIs ==
  ASSUME NEW t, Sound(t), NEW x \in Groups
  PROVE  Under(t, x) = {s \in Synths : t.parent[s] \in Reached(Kids(t.parent), x)}
  <1>1. x \in Nodes /\ x \notin Synths
    BY NodeFacts
  <1>2. Below(t, x) = Desc(t.parent, x)
    BY <1>1, BelowIs
  <1>3. Desc(t.parent, x) = {m \in Nodes : t.parent[m] \in Reached(Kids(t.parent), x)}
    BY DEF Desc
  <1>4. Under(t, x) = Below(t, x) \cap Synths
    BY <1>1 DEF Under
  <1> QED BY <1>2, <1>3, <1>4, NodeFacts

LEMMA UnderGrown ==
  ASSUME NEW t, Sound(t), NEW n \in Groups, n # Root, t.parent[n] = Nil,
         NEW g \in Groups, g = Root \/ t.parent[g] # Nil,
         NEW u, Sound(u), \A m \in Nodes : u.parent[m] = IF m = n THEN g ELSE t.parent[m]
  PROVE  Under(u, n) = {} /\ \A x \in Nodes : x # n => Under(u, x) = Under(t, x)
  <1>1. PICK p : p = t.parent
    OBVIOUS
  <1>2. PICK q : q = u.parent
    OBVIOUS
  <1>3. /\ p \in Parents /\ Hangs(p) /\ n # g
        /\ \A m \in Nodes : q[m] = IF m = n THEN g ELSE p[m]
    BY <1>1, <1>2 DEF Sound, Hangs
  <1>4. \A m \in Nodes : p[m] # n
    BY <1>1, <1>3, ParentInTree, NodeFacts
  <1>5. Under(u, n) = {}
    <2>1. {n} \in SUBSET Groups /\ n \in {n} /\ \A h \in Groups : q[h] \in {n} => h \in {n}
      BY <1>3, <1>4, NodeFacts
    <2>2. Reached(Kids(q), n) \subseteq {n}
      BY <2>1, KidsFacts
    <2>3. \A s \in Synths : q[s] # n
      BY <1>3, <1>4, NodeFacts
    <2> QED BY <1>2, <2>2, <2>3, UnderIs
  <1>6. ASSUME NEW x \in Groups, x # n PROVE Under(u, x) = Under(t, x)
    <2>1. /\ x \in Reached(Kids(p), x) /\ Reached(Kids(p), x) \in SUBSET Groups
          /\ \A h \in Groups : p[h] \in Reached(Kids(p), x) => h \in Reached(Kids(p), x)
      BY KidsFacts
    <2>2. /\ x \in Reached(Kids(q), x) /\ Reached(Kids(q), x) \in SUBSET Groups
          /\ \A h \in Groups : q[h] \in Reached(Kids(q), x) => h \in Reached(Kids(q), x)
      BY KidsFacts
    <2>3. Reached(Kids(p), x) \subseteq Reached(Kids(q), x)
      <3>1. \A h \in Groups : p[h] \in Reached(Kids(q), x) => h \in Reached(Kids(q), x)
        BY <1>1, <1>3, <2>2, NodeFacts
      <3> QED BY <2>2, <3>1, KidsFacts
    <2>4. Reached(Kids(q), x) \subseteq Reached(Kids(p), x) \cup {n}
      <3> DEFINE S == Reached(Kids(p), x) \cup {n}
      <3>1. S \in SUBSET Groups /\ x \in S
        BY <2>1
      <3>2. \A h \in Groups : q[h] \in S => h \in S
        BY <1>3, <1>4, <2>1, NodeFacts
      <3> HIDE DEF S
      <3>3. Reached(Kids(q), x) \subseteq S
        BY <3>1, <3>2, KidsFacts
      <3> QED BY <3>3 DEF S
    <2>5. \A s \in Synths : q[s] = p[s] /\ q[s] # n
      BY <1>3, <1>4, NodeFacts
    <2>6. \A s \in Synths : q[s] \in Reached(Kids(q), x) <=> p[s] \in Reached(Kids(p), x)
      BY <2>3, <2>4, <2>5
    <2> QED BY <1>1, <1>2, <2>6, UnderIs
  <1>7. \A x \in Synths : Under(u, x) = Under(t, x)
    BY DEF Under
  <1> QED BY <1>5, <1>6, <1>7 DEF Nodes

LEMMA WantedKept ==
  ASSUME NEW t, Sound(t), NEW n \in Groups, n # Root, t.parent[n] = Nil,
         NEW g \in Groups, g = Root \/ t.parent[g] # Nil,
         NEW i \in 1 .. Len(t.kids[g]) + 1, NEW u, u = Linked(t, n, g, i)
  PROVE  Under(u, Root) = Under(t, Root) /\ \A a, b : Earlier(u, a, b) <=> Earlier(t, a, b)
  <1>1. /\ n \in Nodes /\ Sound(u)
        /\ \A m \in Nodes : u.parent[m] = IF m = n THEN g ELSE t.parent[m]
        /\ \A x \in Groups : u.kids[x] = IF x = g THEN InsertAt(t.kids[g], i, n) ELSE t.kids[x]
    BY LinkedSound, NodeFacts
  <1>2. Under(u, n) = {} /\ \A x \in Nodes : x # n => Under(u, x) = Under(t, x)
    BY <1>1, UnderGrown
  <1>3. PICK s \in Seq(Nodes) : s = t.kids[g]
    BY TreeFacts DEF Sound
  <1>4. PICK r : r = InsertAt(s, i, n)
    OBVIOUS
  <1>5. PICK len \in Nat : len = Len(s)
    BY <1>3
  <1>6. /\ i \in 1 .. len + 1 /\ DOMAIN s = 1 .. len /\ DOMAIN r = 1 .. len + 1
        /\ \A k \in 1 .. i - 1 : r[k] = s[k]
        /\ r[i] = n
        /\ \A k \in i .. len : r[k + 1] = s[k]
    <2>1. i \in 1 .. Len(s) + 1
      BY <1>3
    <2>2. r \in Seq(Nodes) /\ Len(r) = Len(s) + 1
      BY <1>1, <1>4, <2>1, Inserted
    <2>3. \A k \in 1 .. i - 1 : r[k] = s[k]
      BY <1>1, <1>4, <2>1, Inserted
    <2>4. r[i] = n
      BY <1>1, <1>4, <2>1, Inserted
    <2>5. \A k \in i .. Len(s) : r[k + 1] = s[k]
      BY <1>1, <1>4, <2>1, Inserted
    <2> QED BY <1>3, <1>5, <2>1, <2>2, <2>3, <2>4, <2>5
  <1>7. \A k \in 1 .. len : s[k] \in Nodes /\ s[k] # n
    <2>1. n \notin ToSet(s)
      <3>1. FitsAt(t, g) /\ g # Nil
        BY NodeFacts DEF Sound
      <3> QED BY <1>3, <3>1 DEF FitsAt, Kin
    <2> QED BY <1>3, <1>5, <2>1 DEF ToSet
  <1> DEFINE Parted(l, v, a, b) ==
                 \E j \in DOMAIN l : \E k \in 1 .. j - 1 : a \in Under(v, l[k]) /\ b \in Under(v, l[j])
  <1>8. ASSUME NEW a, NEW b, Parted(s, t, a, b) PROVE Parted(r, u, a, b)
    <2>1. PICK j \in 1 .. len : \E k \in 1 .. j - 1 : a \in Under(t, s[k]) /\ b \in Under(t, s[j])
      BY <1>6, <1>8
    <2>2. PICK k \in 1 .. j - 1 : a \in Under(t, s[k]) /\ b \in Under(t, s[j])
      BY <2>1
    <2>3. k \in 1 .. len
      BY <1>5, <2>1
    <2>4. a \in Under(u, s[k]) /\ b \in Under(u, s[j])
      BY <1>2, <1>7, <2>2, <2>3
    <2>5. PICK f : f = [x \in 1 .. len |-> IF x < i THEN x ELSE x + 1]
      OBVIOUS
    <2>6. \A x \in 1 .. len : f[x] \in 1 .. len + 1 /\ r[f[x]] = s[x]
      BY <1>6, <2>5
    <2>7. f[j] \in DOMAIN r /\ f[k] \in 1 .. f[j] - 1
      BY <1>5, <1>6, <2>1, <2>2, <2>3, <2>5
    <2> QED BY <2>1, <2>3, <2>4, <2>6, <2>7
  <1>9. ASSUME NEW a, NEW b, Parted(r, u, a, b) PROVE Parted(s, t, a, b)
    <2>1. PICK j \in 1 .. len + 1 : \E k \in 1 .. j - 1 : a \in Under(u, r[k]) /\ b \in Under(u, r[j])
      BY <1>6, <1>9
    <2>2. PICK k \in 1 .. j - 1 : a \in Under(u, r[k]) /\ b \in Under(u, r[j])
      BY <2>1
    <2>3. k \in 1 .. len + 1 /\ k < j /\ k # i /\ j # i
      BY <1>2, <1>5, <1>6, <2>1, <2>2
    <2>4. PICK f : f = [x \in 1 .. len + 1 |-> IF x < i THEN x ELSE x - 1]
      OBVIOUS
    <2>5. \A x \in 1 .. len + 1 : x # i => f[x] \in 1 .. len /\ r[x] = s[f[x]]
      <3> SUFFICES ASSUME NEW x \in 1 .. len + 1, x # i PROVE f[x] \in 1 .. len /\ r[x] = s[f[x]]
        OBVIOUS
      <3>1. CASE x < i
        BY <1>5, <1>6, <2>4, <3>1
      <3>2. CASE ~(x < i)
        <4>1. x - 1 \in i .. len /\ (x - 1) + 1 = x /\ f[x] = x - 1
          BY <1>5, <1>6, <2>4, <3>2
        <4> QED BY <1>6, <4>1
      <3> QED BY <3>1, <3>2
    <2>6. f[k] \in 1 .. f[j] - 1
      BY <1>5, <1>6, <2>1, <2>3, <2>4
    <2>7. a \in Under(t, s[f[k]]) /\ b \in Under(t, s[f[j]])
      BY <1>2, <1>7, <2>1, <2>2, <2>3, <2>5
    <2> QED BY <1>6, <2>1, <2>3, <2>5, <2>6, <2>7
  <1>10. ASSUME NEW x \in Groups, x # g, NEW a, NEW b
         PROVE  Parted(u.kids[x], u, a, b) <=> Parted(t.kids[x], t, a, b)
    <2>1. PICK l \in Seq(Nodes) : l = t.kids[x] /\ l = u.kids[x]
      BY <1>1, <1>10, TreeFacts DEF Sound
    <2>2. n \notin ToSet(l)
      <3>1. FitsAt(t, x) /\ x # Nil
        BY NodeFacts DEF Sound
      <3> QED BY <2>1, <3>1 DEF FitsAt, Kin
    <2>3. \A k \in 1 .. Len(l) : l[k] \in Nodes /\ l[k] # n
      BY <2>2 DEF ToSet
    <2>4. \A k \in 1 .. Len(l) : Under(u, l[k]) = Under(t, l[k])
      BY <1>2, <2>3
    <2>5. DOMAIN l = 1 .. Len(l) /\ \A j \in 1 .. Len(l) : \A k \in 1 .. j - 1 : k \in 1 .. Len(l)
      OBVIOUS
    <2> QED BY <2>1, <2>4, <2>5, ZenonT(60)
  <1>11. \A a, b : Parted(u.kids[g], u, a, b) <=> Parted(t.kids[g], t, a, b)
    <2>1. u.kids[g] = r /\ t.kids[g] = s
      BY <1>1, <1>3, <1>4
    <2> HIDE DEF Parted
    <2> QED BY <1>8, <1>9, <2>1
  <1>12. \A v, a, b : Earlier(v, a, b) <=> \E x \in SeqGroups : Parted(v.kids[x], v, a, b)
    BY DEF Earlier
  <1> HIDE DEF Parted
  <1>13. \A a, b : Earlier(u, a, b) <=> Earlier(t, a, b)
    BY <1>10, <1>11, <1>12 DEF Groups
  <1>14. Under(u, Root) = Under(t, Root)
    BY <1>2, NodeFacts
  <1> QED BY <1>13, <1>14

LEMMA NewGroupUnseen ==
  ASSUME TreeInv, NEW g \in Groups, NEW n \in Nodes, NEW w \in Into \cup Beside, w # "replace",
         AddGroup(g, n, w)
  PROVE  Wanted' = Wanted
  <1>1. PICK home : home = IF w \in Into THEN n ELSE tree.parent[n]
    OBVIOUS
  <1>2. PICK i : i = Place(tree, home, n, w)
    OBVIOUS
  <1>3. /\ ~Alive(g) /\ InTree(n)
        /\ w \in Into => n \in Groups
        /\ w \in Beside => n # Root
        /\ tree' = Linked(tree, g, home, i)
    <2>1. /\ ~Alive(g) /\ Found(n)
          /\ w \in Into => n \in Groups
          /\ w \in Beside => tree.parent[n] # Nil
          /\ tree' = Linked(tree, g, home, i)
      BY <1>1, <1>2 DEF AddGroup, AddNode
    <2>2. Sound(tree) /\ orphans \subseteq Synths
      BY DEF TreeInv
    <2>3. InTree(n) /\ (w \in Beside => n # Root)
      BY <2>1, <2>2, ReachesTarget
    <2> QED BY <2>1, <2>3
  <1>4. g # Root /\ tree.parent[g] = Nil /\ Sound(tree)
    BY <1>3 DEF Alive, InTree, TreeInv
  <1>5. home \in Groups /\ (home = Root \/ tree.parent[home] # Nil) /\ i \in 1 .. Len(tree.kids[home]) + 1
    BY <1>1, <1>2, <1>3, <1>4, PlaceFacts DEF InTree
  <1>6. Under(tree', Root) = Under(tree, Root) /\ \A a, b : Earlier(tree', a, b) <=> Earlier(tree, a, b)
    BY <1>3, <1>4, <1>5, WantedKept
  <1>7. PICK S : S = Under(tree, Root)
    OBVIOUS
  <1>8. {p \in S \X S : Earlier(tree', p[1], p[2])} = {p \in S \X S : Earlier(tree, p[1], p[2])}
    BY <1>6
  <1>9. Wanted = [synths |-> S, order |-> {p \in S \X S : Earlier(tree, p[1], p[2])}]
    BY <1>7 DEF Wanted
  <1>10. Wanted' = [synths |-> S, order |-> {p \in S \X S : Earlier(tree', p[1], p[2])}]
    BY <1>6, <1>7 DEF Wanted
  <1> QED BY <1>8, <1>9, <1>10

LEMMA StepSeen ==
  ASSUME TreeInv, ~CrossMoves, ~CyclicMoves, [GraphNext]_graphVars
  PROVE  Wanted' = Wanted \/ dirty' \/ Forgetful
  <1>1. SUFFICES ASSUME ~dirty', ~Forgetful PROVE Wanted' = Wanted
    OBVIOUS
  <1>2. ASSUME tree' = tree PROVE Wanted' = Wanted
    BY <1>2 DEF Wanted
  <1>3. ASSUME Commands, ~Undefined PROVE Wanted' = Wanted
    <2>1. \A s \in Synths, n \in Nodes, w \in Into \cup Beside : ~AddSynth(s, n, w)
      BY <1>1 DEF AddSynth
    <2>2. ASSUME NEW g \in Groups, NEW n \in Nodes, NEW w \in Into \cup Beside, AddGroup(g, n, w)
          PROVE  Wanted' = Wanted
      <3>1. w # "replace"
        BY <1>1, <2>2 DEF Forgetful
      <3> QED BY <2>2, <3>1, NewGroupUnseen
    <2>3. \A n \in Nodes : ~FreeNode(n)
      BY <1>1 DEF FreeNode
    <2>4. \A g \in Groups : ~GroupFreeAll(g) /\ ~GroupFreeDeep(g)
      BY <1>1 DEF GroupFreeAll, GroupFreeDeep
    <2>5. \A n, m \in Nodes, w \in Into \cup Beside : ~Order(n, m, w)
      BY SMTT(40), <1>1 DEF Order
    <2> QED BY <1>1, <1>3, <2>1, <2>2, <2>3, <2>4, <2>5
            DEF Commands, Forgetful, AddBesideNone, MoveNone, OrderNone
  <1>4. ASSUME NEW s \in Synths, NEW a \in DoneActions, DoneAction(s, a) PROVE tree' = tree
    BY <1>4 DEF DoneAction
  <1>5. ASSUME FreeDone PROVE tree' = tree
    BY <1>1, <1>5, FreeDoneTree
  <1>6. ~FreeAllDone
    BY <1>1 DEF FreeAllDone
  <1>7. ASSUME Run \/ StartTick \/ Undefined \/ UNCHANGED graphVars PROVE tree' = tree
    BY <1>7 DEF Run, StartTick, Undefined, graphVars
  <1> QED BY <1>2, <1>3, <1>4, <1>5, <1>6, <1>7 DEF GraphNext, DoneNone, CarryOutNone, Over

(* A step that changes which synths are to run, or in which order, has the *)
(* queue generated anew, unless it is one of the forgetful ones.           *)
THEOREM ChangesStaySeen ==
  ASSUME ~CrossMoves, ~CyclicMoves
  PROVE  GraphSpec => ChangesAreSeen
  <1>1. TreeInv /\ [GraphNext]_graphVars => [\/ dirty'
                                             \/ UNCHANGED tree
                                             \/ Wanted' = Wanted
                                             \/ Forgetful]_graphVars
    BY StepSeen
  <1> QED BY <1>1, TreeInvariance, PTL DEF GraphSpec, ChangesAreSeen
=============================================================================
