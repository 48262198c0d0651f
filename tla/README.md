# A verification project for iSuperColliderKit

iSuperColliderKit packs SuperCollider for iOS: the synthesis server `scsynth`
(`src/server/scsynth`), the language `sclang` (`src/lang`), their class library
and a little Objective-C glue (`src/iSCKit`); the repository also holds
`supernova`, the parallel server (`src/server/supernova`). The servers are where several
threads share state without locks, so most of the project is about them; of the language
it has the garbage collector.
Sources are named below as in the repository, without the leading `src/`.

All modules are plain TLA+. `tlc -config X.cfg MCModule` repeats a run, `tlapm
DriverProofs.tla` (and the other `*Proofs` modules) the proofs; `PROJECT.json` lists components, runs, the source
lines of every definition, hazards and theorems.

## 1. The system

### Threads

- The **audio thread** is called back by the host for every block
  (`SC_iCoreAudioDriver::Run`). It performs client packets and messages of the
  other thread, runs the node tree, and must never wait or allocate.
- The **non-real-time (NRT) thread** (`SC_AudioDriver::RunThread`) waits for the
  audio thread's signal and does what takes time: files, memory, replies.
- **Network threads** (UDP, TCP) parse packets and hand them to the audio thread
  under `mDriverLock`.
- The **main thread** waits for `/quit` and takes the server down.
- In `supernova` the audio callback shares each block with **helper threads**
  (`dsp_thread`), which run the items of a dsp queue.
- In the language one thread at a time holds the interpreter; what interleaves there
  is the program and the steps of its **incremental collector**.

### Components

| Component | State | Operations | Interacts through | What makes it correct | Model |
|---|---|---|---|---|---|
| Message fifos (`MsgFifo.h`) | three cursors, N slots | `Write`, `Perform`, `Free` | shared by two threads without a lock | no live slot is overwritten, order kept, refused only when full | `MsgFifo`, `MsgQueue` |
| Node tree (`SC_Node.cpp`, `SC_Group.cpp`) | parent, prev, next, head, tail links | add, remove, move, replace, free | calls from commands and done actions | one tree, links agree, the order asked for | `NodeTree`, `NodeOrder` |
| Node commands (`SC_MiscCmds.cpp`) | locals of the loops over ids | `/s_new`, `/g_new`, `/n_free`, `/g_head`, `/n_before`, `/n_order`, `/g_freeAll`, `/g_deepFree` | node tree | every sequence keeps the tree | `NodeCommands` |
| Block and done actions (`SC_Graph.cpp`, `Unit_DoneAction`) | calc function of each node, C++ stack | `World_Run`, `Group_Calc`, `Graph_FirstCalc`, `Node_SetRun`, done actions 1 to 14 | changes the tree it is traversing | no frame is left with a freed node, ended nodes are freed | `NodeCalc` |
| Sequenced commands (`SC_SequencedCommand.cpp`) | stage, completion message, owner | four stages, deletion | two fifos, both threads | one owner, stages on the right thread, `/synced` last | `SequencedCommands` |
| Buffers (same file, `SC_World.cpp`) | two descriptors per buffer, heap, files | `/b_alloc`, `/b_allocRead`, `/b_free`, `/b_gen`, `/b_zero`, `/b_read`, `/b_write`, `/b_close` | stages 2, 3 and 4 of a command | the audio thread never has freed data, nothing leaks | `BufferCommands` |
| Synth definitions (`SC_GraphDef.cpp`) | table, counts, deletion fifo | `/d_recv`, `/d_loadDir`, `/d_free`, `/d_freeAll`, `/s_new`, end of a synth | both threads | freed once, and only when unused | `GraphDefs` |
| Driver thread and end of the server (`SC_CoreAudio.mm`, `SC_SyncCondition.h`) | two counters, a condition variable, flags | `WaitNext`, `Signal`, `RunThread`, `World_Cleanup` | signal without a mutex | messages get performed, `/quit` ends | `DriverThread` |
| Scheduler (`PriorityQueue.h`, `SC_CoreAudio.mm`) | heap of bundles, two fifos, time | `Add`, `Remove`, `Perform`, `/clearSched` | network threads, callback, driver thread | due bundles in time and in order; each packet has one owner | `Scheduler`, `PriorityQueue`, `BundleQueue` |
| supernova: dsp threads (`dsp_thread_queue`) | counters, lock-free stack, semaphores | `reset_queue`, `init_tick`, `run_item`, `wait_for_end`, `terminate` | callback and helpers share the queue | items run once and in order; a tick ends clean | `DspQueue`, `DspThreads` |
| supernova: node graph (`node_graph`, `group.hpp`, `nova_server`) | lists, counters, dirty flag, done nodes | add, free, move, `/n_order`, done actions, `rebuild_dsp_queue` | tick of the callback | the queue realises the tree; what plain pointers name exists | `DependencyGraph`, `NodeGraph` |
| `sclang`: collector (`GC.cpp`) | object colours, partial scan, stacks | allocate, barrier, scan, flip, thread switch | the interpreter between its steps | no live object freed; garbage found | `Collector` |
| Clients (`/notify`) and node messages | table, fifos | add, remove, send | both threads | each client told once | planned |
| Hash tables (`HashTable.h`) | probed array | `Add`, `Remove`, `Get` | definitions, units, nodes | implements a partial function | planned |
| Real-time allocator (`SC_AllocPool.cpp`) | chunks, bins | alloc, free, realloc | audio thread only | chunks disjoint, merged | later |
| `sclang`: clocks (`PyrSched.cpp`), interpreter | queues, tempo | schedule, run, stop | language mutex | no wake lost | later |

Not modelled, with the reason in `PROJECT.json`: controls and buses, OSC dispatch
and sockets, non-real-time rendering, other audio backends, unit generators,
the class library, iSCKit itself, documentation, editors and vendored
code.

### What is hard here

- Two threads share descriptors, definitions and commands with no lock but the
  order of fifos, and several commands on the same thing are under way at once.
- Every `Write` to a fifo can fail and no caller looks at the result.
- The tree is traversed while its nodes free, pause and empty one another.
- Information is kept in a function pointer (`mCalcFunc`) that several actors
  overwrite.
- Signals are sent without a mutex, so some are lost by design; all but the last
  are made good by the next callback.
- In supernova nothing tells a helper that a tick is over but a counter, and a helper may
  oversleep whole ticks; counters must be right again before the next one begins.
- supernova keeps counters and group lists beside its child lists, and derives from them how
  many predecessors an item waits for.
- The collector relies on a barrier at every store of the interpreter, and on a scan of the
  stack that nothing may follow before the flip.

## 2. Modules

`MC*` modules only give constants their values. Definitions marked "faulty
variant" are deliberately wrong versions of the definition that follows them; the
specifications never use them, and each serves to confirm that a property
notices that mistake.

### MsgQueue, MsgFifo

`MsgFifo` is the ring buffer with a step for each access to a cursor: a producer
takes the lock, frees performed items, stores, publishes; the consumer
performs an item and then advances. `MsgQueue` is the bounded queue it
promises; `ImplementsQueue` is the refinement. A performed item takes
up room until a later `Write` frees it, which is why both have a "spent" part.
`MsgFifo` is the fifo of client packets, which has several producers; the others
have one, which is the special case `Producers = {p}`.

### NodeTree, NodeOrder, NodeCommands

`NodeTree` is a library of functions on a record of links: one operator per
function of `SC_Node.cpp` and `SC_Group.cpp`. `NodeCommands` makes a state
machine of the OSC commands. A command that names several nodes is a loop, and
one step is one round of it, because what the code carries from a round to the next
matters: `/n_before` and `/n_after` move a pair only when they read the next.
`Idle` and `Loop` hold those locals. `NodeOrder` is the tree clients think of
(each group has a sequence), and `ImplementsOrder` shows that the links implement it.

`Careful = TRUE` restricts clients: no place next to the root, and none
inside the subtree that is moved. The code checks neither (section 6). `Group_Insert`
is left out, as no registered command reaches it. A command whose id does not exist
has no effect and is no step.

### NodeCalc

One block of audio, on top of `NodeCommands`. `stack` is the C++ stack of the
traversal: in a group, the local `child` that is read before the call that may delete
the node it was read from. `mCalcFunc` is the function pointer. Commands come only between
blocks (`stack = <<>>`), as in the callback. `session` says which
done actions units perform while they calculate (`done`) and in their constructors (`ctor`),
whether clients send `/n_run` (`pausing`), `/n_trace` and `/g_dumpTree` (`tracing`), and which
nodes there may be; it is chosen from `Sessions` once, so that one run covers several kinds of use.

### SequencedCommands, BufferCommands

A command object alternates between the threads. Stages 2 and 4 run in the NRT thread
(`PerformStage`), stage 3 and the deletion in the callback. The fifos are
used as `MsgQueue` describes them, with a limited `Capacity`: `Write` loses what
does not fit, as the code does. Commands are numbered in the order of their
arrival, so that nothing else has to remember it. Completion messages
carry one command without a completion message of its own. `kind` tells `/sync`, a
command of the server and a plug-in's command apart. A stage touches no
state of the other thread, so that it is one step; the fifo's own steps
are in `MsgFifo`.

`BufferCommands` adds what stages 2, 3 and 4 of the buffer commands do to the mirror
(`mSndBufsNonRealTimeMirror`), to the audio thread's `mSndBufs`, to the heap and to open
files. Sample data and files are named after the command that made them. The operation is chosen in
stage 2, the first stage that depends on it. `bufAlloc` fails in two ways (`Allocates`): with no samples asked for it
leaves the mirror alone; without memory it has already taken the data from the mirror, while frames, samples and channels
(`room`) stay those of the old data, which stage 4 then frees. Memory may run out at any allocation. `EmptyReallocs` says
whether a buffer that has data may be allocated anew with no samples. What reads, fills or zeroes a buffer through the null
pointer is not modelled further.

### GraphDefs

Definitions are read in stage 2 (`Read`), entered in the table one by one in
stage 3 (`Define`, `DefineOne`; the audio thread does nothing else meanwhile), used
by synths, and freed by the NRT thread (`PerformDelete`). `DefineOne` and `EndSynth`
send the definition back when its count says so. `GraphDef_DeleteMsg` is two steps: `DeleteMsg` writes to the fifo, and
`SendRemoved` reads the name once more (`inDef`) after the other thread may have freed it. `refused` and `dropped`
record what the full table and the full fifo lost; only properties read them. A variant is a
second GraphDef with its own count in the memory of its original. A step that would read
freed memory is not taken: the behaviour after it is undefined.

### DriverThread

`RunThread`, `WaitNext` and `Signal` with a step for each access, and the end of the
server from the last stage of `/quit` to `pthread_join`. Of the counters `read` and `write` only
their equality matters and only that is kept (`signalled`). `pthread_cond_wait` may also wake for
no reason (`SpuriousWakeup`); nothing relies on it.

### PriorityQueue, BundleQueue, Scheduler

`PriorityQueue` has the heap. Each of its loops moves a free position through the tree: `Up` and `Down` say where
a step goes, `Trail` which positions the loop is at (the least set with the start that is closed under the
step), and `Sift` what it leaves there. `Scheduler` follows every packet: `Send`
(`ProcessOSCPacket` under the lock), the callback in the order of the code (`Callback`, messages of
the other thread with their completion messages, packets, then block by block what is due), and
`FreeOSCPacket` in the driver's thread. A slot of a fifo `owns` its packet until it is freed or the
scheduler takes it over. The callback's time comes from a clock, so it may
jitter around the end of the last block. `BundleQueue` is what a client may rely on:
bundles are performed in the order of their times and no block is computed while one that is due by its
end waits.

### DspQueue, DspThreads

A queue is a set of items with successors and activation limits. `DspThreads` has one step for each
access to an atomic: load `node_count`, pop, decrement a successor's counter, reset the own counter, subtract
the chain. `ResetQueue` may come between any two ticks, whatever the helpers do, as in
`rebuild_dsp_queue`. `Queues` are what `DependencyGraph` generates from three kinds of trees.

### DependencyGraph, NodeGraph

`DependencyGraph` is the generator (`dependency_graph_generator.hpp`) as operators on a tree, with
`Realises`, the reference it is checked against: the items run the synths of the tree, each once, and before
one another exactly where a sequential group says so. The recursion of the code does two things at once. On its way
down it passes successors and an activation limit to each group that has synths: `Arguments`, a recursive function from a
group's arguments to those of the groups in it. On its way up it returns the items that what comes before has to have
as successors: `Heads`, which takes them from the groups that `BeginsIn` reaches. Walks that only ask whether or how much
there is below a group (`HasSynths`, `HasParallel`, `TailNodes`, `Below`) look at `Reached`, the least set that holds the group
and what is below its members. `NodeGraph` builds the trees by commands, and has one
tick of `nova_server`: commands, `Run`, done actions, `update_nodegraph`, and the generation of the
next queue. A node goes away with its last reference (`Alive`), and is found by its id until then if it was replaced
(`orphans`: the replace branch of `add_node` does not release the id).

No handler looks where the nodes it finds are. What uses a null parent or a freed node is an action of its own
(`AddBesideNone`, `MoveNone`, `OrderNone`, `DoneNone`, `CarryOutNone`), which ends in the phase `undefined`, where the model
stays (`Over`): nothing is claimed after it. `CyclicMoves` lets clients move groups into or below themselves, and
`CrossMoves` lets them move nodes next to nodes of other groups; the code refuses neither.

### Collector

The objects of the language with their slots and colours; a step for each object the collector scans, or
part of one, between any two steps of the interpreter. `New`, `Load`, `Store`, `Pop`, `RemoveAt` and
`SwitchTo` are the ways a program changes slots: through the stack of the running thread, which has no barrier, and
through stores, which have one. `doomed` records what was unreachable when a cycle began.

## 3. What the runs show

| Run | Instance | Shows |
|---|---|---|
| `fifo` | 4 slots, two network threads, two kinds of message | the ring buffer implements the bounded queue, which refuses only when full; live slots never change; every call returns |
| `nodes` | 3 groups, 2 synths, all commands of careful clients | links agree, one tree, a walk meets every child once; pairs and `/n_order` place nodes as asked; the ordered tree is implemented |
| `calc` | 2 groups with 2 synths and every done action, also in constructors, pausing, tracing; and with 3 synths, where done actions end nodes only | the traversal never holds a freed node and calls each child once, in order; constructors run at most once, and before the units; a node that was ended is freed (second kind of session) |
| `calc_dtor` | one synth, pausing | **violated**: destructors without constructors |
| `commands` | 3 commands of all kinds, room for 2 messages | one owner, right stages, no double answer, `/synced` after all before it, and everything that no fifo refused completes |
| `buffers` | 3 commands of all 9 kinds on one buffer, room for 2, memory that may run out | the audio thread's data is allocated; freed once; descriptors agree when all is quiet; files are open exactly while the mirror names them |
| `driver` | one message at a time | messages are performed although signals are lost; only one thread signals |
| `graphdefs` | 3 definitions, 2 names, 2 synths, table and fifo for 2 | originals outlive their use, are deleted once, counts are exact, the unused are freed |
| `scheduler` | 2 packets and 4 completion messages, fifos for 1, heap for 4 | each packet has one owner and is freed by the right thread; the abstract queue is implemented; each accepted packet is performed or dropped where a limit says so |
| `dsp_threads` | 3 threads, 3 queues of up to 5 items, 2 wake-ups in advance | items run once and in order, ticks end clean and end, helpers join |
| `node_graph` | 3 synths, 2 groups and a parallel one, 4 kinds of done action, 2 a tick | lists and counters agree, the generated queue is right, changes are seen, the nodes that plain pointers name are held |
| `collector` | 2 arrays of 3 slots, 2 threads with 2 stack slots | nothing in use is freed, the barrier's invariant holds, garbage is found |

### Bounds, and why they are enough

- *Fifo.* Four slots let three items be live, spent and pending at once, and each cursor wraps. The proofs
  of section 5 remove the bound.
- *Nodes.* Five nodes give a group of three children (first, middle, last), groups in groups,
  and a subtree of three to free. Every link function touches at most four nodes.
- *Calc.* A done action reaches a synth, its two neighbours and its group. With two
  groups and two or three synths each of these exists, may be missing, and may be a group or a synth.
- *Commands.* Three commands are the first that can wait in the two fifos and a callback at the same time.
  Room for two is enough for undisturbed passage and small enough for every
  write to be refused sometime. In the code a fifo takes 1023 messages (`EngineFifo`, the slots less one); the capacity matters
  to a command only by refusing it.
- *Buffers.* Commands on different buffers share nothing but fifos. Three commands on one buffer have stages 2,
  3 and 4 in every overlap.
- *Definitions.* Three definitions for two names: two redefinitions of a name, or one and another name that
  the table for two refuses.

- *Scheduler.* Four events fill a heap of three levels, so that both loops go down and up two steps; three times
  (before, in and after a block) with a callback that is early, late or on time.
- *Dsp threads.* Three threads: the callback, and two helpers that can hold each other's successors. The queues have a
  chain, a fork and join, and two parallel groups after one another.
- *Node graph.* Three synths on either side of, and inside, a parallel group; a sequential group to nest. Two nodes named by
  done actions in a tick let one be freed with the other, and commands may free either before. `synth_count_` up to 4 lets
  it run ahead of the synths. `CrossMoves` and `CyclicMoves` are `FALSE`: with either, lists and parents part (section 6).
- *Collector.* An object is missed when its only reference moves from a place that is not scanned to one
  that is: two arrays and a stack are the places. Three slots let a partial scan stop between two.

Deadlock is checked in `nodes`, `calc`, `commands`, `buffers`, `fifo`, `scheduler`, `dsp_threads`, `node_graph` and `collector`, whose systems always have something to do (at least
the host's next callback). `graphdefs` and `driver` turn it off: when all definitions are used up, or the
server has been cleaned up, nothing is left to do.

### Fairness

- The host calls the audio callback for ever: weak fairness of the audio thread's own steps
  (`Traverse`, `AudioThread`). A callback ends, since a synth has finitely many units.
- The operating system schedules the NRT and the main thread: weak fairness of `NRTThread`, `MainThread`.
- Clients are never obliged to send anything, and spurious wakeups cannot be counted on.
- In `MsgFifo`, producers that hold the lock go on (`CallsReturn`).
- In `DspThreads` every thread that can run is scheduled, each by itself; nothing obliges the driver to call again
  or the server to end.

## 4. Hazards and the properties aimed at them

`PROJECT.json` lists each hazard at its line. The properties we would argue about in a review of the code:

- `RtDataLive`, `FreedOnce`: why may stage 4 free what stage 2 replaced? Because the fifo to the audio thread
  is in order, a later command's stage 2 cannot name data of an earlier command's stage 4; this
  must hold when any message in between is refused.
- `MirrorsAgree`: stage 3 installs the mirror also when stage 2 found no memory and the mirror has lost its data, and stage 4
  frees the old data all the same; in the end both descriptors must be the same, without data, and nothing may be left over.
- `SyncedAfterAllBefore`: `/synced` takes the same two round trips as any command and overtakes none, whatever
  completion messages start in between.
- `FramesStayValid`: done actions never delete at once (they set `Node_Delete`), except `Group_DeleteAll` and
  deep free of a *neighbouring* group; that these never hit a frame of the stack is not obvious.
- `EndedNodesFreed`: an ended node is freed only by a later call of its calc function, which needs all groups above to
  run and nobody to overwrite the function. It holds without pausing, tracing and done
  actions in constructors (`Undisturbed`), and fails with each of them (section 6).
- `MessagesPerformed`: signals are lost between the steps of `WaitNext`; the next callback makes up for it. At the
  end of the server there is no next callback.
- `PacketsHaveOneOwner`: a packet passes through up to four hands in three threads, and each of the full queues on its way
  treats it differently.
- `TicksEndClean`: the callback replaces the queue without asking the helpers. Why is none of them inside an item? Because
  a helper takes its whole chain off `node_count` only after it has reset the last counter.
- `NamedNodesHeld`: plain pointers name nodes in `done_nodes` and between `remove_child` and `add_child` of `/n_order`. Synths
  survive because the queue that runs them, or the list of synths to prepare, holds them until the next tick; nothing holds
  groups but the tree.
- `GeneratedQueueRight`: the generator never looks at more than the previous siblings and `tail_nodes`, yet must count
  predecessors exactly.
- `NoDangling`, `BlackToWhiteCheck`: the argument for a barrier that greys the stored object rather than the container, with
  partial scans, minor flips and stacks that change colour when threads are switched.
- `GarbageIsFound`: the same barriers must not keep alive what was dead when the cycle began.

## 5. What is proved

Eight modules prove results for every value of the constants, about the specifications as TLC runs
them; a proof module only adds definitions and lemmas.

| Module | Theorem | States |
|---|---|---|
| `DriverProofs` | `TypeCorrect` | `Spec => []TypeOK` |
| | `CursorSafety` | `Spec => []CursorsInOrder`: free <= read <= write around the ring |
| | `NoOverwrite` | no step changes a slot that holds a live item (`LiveSlotsStable`) |
| | `Refinement` | the ring buffer implements the bounded queue (`ImplementsQueue`); these four of `MsgFifo` |
| | `SignalledByOne` | `DriverSpec => []OneSignaller`, of `DriverThread` |
| | `CleanedUpAlone` | `World_Cleanup` comes after the end of both threads |
| `CommandProofs` | `CommandsStayIntact` | `Spec => []CommandsIntact`: one owner, stages alternate, one answer |
| | `StagesOwnTheirCommand` | what a thread is to perform is neither answered nor deleted |
| | `SyncedComesLast` | `Spec => []SyncedAfterAllBefore`; these three of `SequencedCommands` |
| | `RtDataStaysLive` | `~EmptyReallocs => (BufSpec => []RtDataLive)`, of `BufferCommands` |
| | `NothingFreedTwice` | the same for `FreedOnce` |
| | `NoFileForgotten` | the same for `FilesAccountedFor` |
| | `MirrorsComeToAgree` | the same for `MirrorsAgree` |
| `NodeProofs` | `Invariance` | `Careful => (Spec => []IInv)`, of `NodeCommands` |
| | `LinksStayInAgreement` | the same for `LinksAgree`, which includes `TypeOK` |
| | `NodesStayInTree` | the same for `EveryNodeInTree` |
| | `MovesGoWhereAsked` | `Careful => (Spec => PlacedWhereAsked)`, an action property |
| | `OrderIsImplemented` | `Careful => (Spec => ImplementsOrder)`: the links implement `NodeOrder` |
| | `TreeStaysOne` | `Careful => (CalcSpec => []TreeStaysSound)`, of `NodeCalc` |
| | `NoFrameDangles` | the same for `FramesStayValid` |
| | `CalledInOrder` | the same for `VisitedArePrefix` |
| | `ConstructedOnlyOnce` | the same for `ConstructedOnce` |
| `GraphDefsProofs` | `OriginalsOutliveTheirUse` | `Careful => (Spec => []OriginalsOutliveUse)` |
| | `SentOnceToBeFreed` | the same for `DeletedOnce` |
| | `CountsAreExact` | the same for `RefCountExact`, which includes `TypeOK` |
| `SchedulerProofs` | `PacketsKeepOneOwner` | `Spec => []PacketsHaveOneOwner` |
| | `SchedulerIsBundleQueue` | `Spec => ImplementsBundleQueue`: heap, fifos and callback implement `BundleQueue` |
| `ParallelProofs` | `TypeCorrect` | `Spec => []TypeOK` |
| | `ItemsRunInOrder` | `Spec => []RunsInOrder`: each item once, after all its predecessors |
| | `TicksClean` | `Spec => []TicksEndClean`; these three of `DspThreads` |
| | `ListsStayRight` | `~CrossMoves /\ ~CyclicMoves => (GraphSpec => []ListsAgree)`, of `NodeGraph` |
| | `ChangesStaySeen` | the same for `ChangesAreSeen`, an action property |
| | `NamedNodesStayHeld` | the same for `NamedNodesHeld` |
| `GeneratorProofs` | `QueueRealisesTree` | `~CrossMoves /\ ~CyclicMoves =>` the generated queue realises every tree without a hollow tail that `GraphSpec` reaches |
| | `QueueStaysRight` | `~CrossMoves /\ ~CyclicMoves /\ (\A c \in Garbage : c <= 0) => (GraphSpec => []GeneratedQueueRight)` |
| `CollectorProofs` | `TypeCorrect` | `LastTwo => (Spec => []TypeOK)` |
| | `NothingDangles` | `LastTwo => (Spec => []NoDangling)` |
| | `NoBlackToWhite` | `LastTwo => (Spec => []BlackToWhiteCheck)` |

Each is proved from an inductive invariant `IInv` (in `CommandProofs` also `BufInv`, `MirrorInv` and
`OrderInv`, in `NodeProofs` `CInv` for `NodeCalc`, in `ParallelProofs` `TreeInv` and `HeldInv`, in `GeneratorProofs` `CountInv`), which TLC has also checked on the instances of section 3, and from the `ASSUME`s of the module. What each adds to the properties, and why:

- `MsgFifo`: a producer may have tested for room before it publishes, and the consumer may be inside an item. `IInv`
  says who holds the lock (`LockHeld`), that the consumer has an item (`PerformingHasData`) and that the slot about to be
  published is free (`PublishingHasRoom`). Lemmas on the distance of cursors modulo `N` carry the arithmetic.
- `SequencedCommands`: a command is in one place, in a packet or in one of the two fifos (`Once`), its place tells its next stage
  (`Stages`), and a command in a completion message has not begun before the one that carries it reaches
  stage 3 (`Completions`). Lemmas say what a full fifo lets through. For the order of answers `OrderInv` follows a command
  that arrived before a `/sync`: until it is answered or lost it is at no earlier stage than the `/sync`, and behind it in no
  fifo, whatever completion messages start in between.
- `BufferCommands` builds on that `IInv`. The audio thread's descriptor may be older than the mirror; it stays live because
  what a waiting stage 3 is to install is freed only by a command later in the same fifo (`NextData`, `OldData`). Memory may
  run out at any allocation: the mirror then has no data, and that is what stage 3 installs. The condition
  `~EmptyReallocs` excludes an allocation with no samples for a buffer that has data, after which stage 4 frees what the mirror
  still names and the properties are false (`SC_World.cpp:1070`, `MCBufferCommandsAllocFails.cfg`). For `MirrorsAgree`, `MirrorInv` says which waiting command each difference between the two
  descriptors of a buffer is due to, the last one to install something, and which one each piece of data outside of them.
- `GraphDefs`: a definition goes one way, from unread over a command's list to its name or its refusal, then to the fifo and to
  its end (`OneWay`); with the exact count (`Counted`) and lists without repetition this is inductive. Originals only:
  for variants the property is false (`MCGraphDefsVariant.cfg`), and so it is without `Careful` (`MCGraphDefsFreeAll.cfg`).
- `DriverThread`: the callback has stopped before the flag is cleared (`Stopped`), and the thread leaves its loop only
  after that (`Ended`).
- `DspThreads`: an item's activation count is the number of predecessors that have not yet reported to it (`Pending`), until it
  is reset after the item ran (`Counts`); an item is in one place at most (`Apart`) and only when nothing is pending (`Ready`).
- `Collector`: only stacks, threads and arrays refer to what they may (`KindsKept`), the running stack is black
  (`RootsColored`), a partial scan is of a live black object (`PartialLive`), and what `ScanStack` has found stays found until the
  interpreter goes on (`StackSeen`). `LastTwo` restricts `removeAt` to the last two positions of an array. All three theorems have it
  as a hypothesis: further in front `removeAt` moves slots the barrier does not look at, and `NoDangling` and
  `BlackToWhiteCheck` are false (`MCCollectorRemoveAt.cfg`).
- `PriorityQueue`: the positions on a trail lie on one line from the root, and the step is one to one on them, so `Sift` puts
  every old event and the new one at one position each. It keeps the heap in order, since only neighbours on the trail change,
  and so the first position has the earliest time.
- `Scheduler`: a packet that arrived is in exactly one of five places: owned by a slot of `inbox` or of `outbox`, in the heap,
  freed or forgotten (`Ownership`). The sets tell the places apart; that each counts for one needs more: slots that were
  performed come first in a fifo, one that was not owns its packet and no two own the same (`Queues`), and a packet is freed
  once, by its allocator's thread (`Allocators`, `FreedAtMostOnce`). What waits has not been performed (`Waiting`), and the time
  of a block stays in bounds (`Clock`). In the refinement `Head(heap)` is the earliest event, a message that clears
  the queue is a `PerformNext` or `PerformAtOnce` that empties it, and a full heap or the steps of the fifos are stutters.
  The capacities, the lengths and the number of blocks, and the times of packets are arbitrary.
- `NodeCommands`: that the links agree locally is not enough, since two rings of siblings or two groups inside one another
  agree as well. `KeptTree` adds that no set of siblings is closed under `mPrev` (`NoRing`) and that every set that holds the
  root and the children of what it holds is everything (`Rooted`); freeing a subtree, replacing a node and moving one
  keep both. `MsgKept` adds that the place of a waiting pair is not below the node that is to move there. With `Careful = FALSE` it
  is false (section 6).
- `NodeOrder`: the list of a group is the one sequence without repetition that holds its children and follows `mNext`
  (`Listed`, `OneList`), and it is what the walk finds (`WalkListed`). So it is enough to say what a change of links does to a
  sequence that has these properties: a node is inserted, removed or replaced (`ListInserted`, `ListRemoved`, `ListHandedOver`), or
  the lists of what is freed become empty (`ForgetKids`). Every command is then one step of `NodeOrder`, or none.
- `NodeCalc`: a frame of the traversal is inside the one before it, and in its list the children before the next one have been
  called and the others not. `Progress` says this link by link, so that it survives a node cut out anywhere in the list; that
  nothing below a neighbour of the innermost synth has a frame (`NoneBelow`) is why done actions may empty that neighbour.
  `FuncInv` relates calc functions, constructors and frames.

- `NodeGraph`: the parents are taken as the tree (`Sound`): every node that has one has a group that hangs below the root, and a
  group's list, counter and set of groups fit what says it is their parent (`FitsAt`). Linking, removing with all that is below,
  freeing and moving keep that, whatever the order in which a group's children are removed (`RemovedAllSound`). Which
  synths are to run, and in which order, changes only in steps that set the flag or are left out (`StepSeen`). That
  the nodes plain pointers name are held takes three more facts: the synths of the tree are in the queue or about to be
  prepared, and in the queue unless the flag is set; what done actions have named is held by one of the two, and the groups by
  the tree until a done action has freed or emptied one (`NamedHeld`); and the queue that is generated has exactly the synths of
  the tree (`GenerateCovers`). The steps that use a null parent or a freed node change no tree (`UndefinedTree`), and the
  theorems say nothing of what follows them. `~CrossMoves` leaves out moves next to a node of another group, after which lists
  and parents differ, and `~CyclicMoves` those of a group into or below itself, which then no longer hangs below the root.
  For both `ListsAgree` is false (section 6).
- `DependencyGraph`: nested blocks in an order, a plan, are compared three times. `Whole` has all nodes of the tree,
  `PlanOf` the groups the generator visits and the runs of synths it makes one item of, and the queue what is left of
  them. The successors and the limit a visited group is handed are `Follow` and `Lead` of its block, the first and the
  last leaves next to it (`ArgumentsAre`). Leaves that can be reached along `Follow` are those that come later
  (`AheadReached`), and `Lead` is the inverse of `Follow`, so the limit counts the predecessors (`FitsLeads`). `RunsOrder` and
  `EarlierIs` show that `PlanOf` and `Whole` order synths alike, and as `Realises` asks. A hollow tail is where
  `TailNodes` differs from the size of `Lead`. That the items fit needs `CountInv`: `synth_count_` is no less than the
  synths of the tree. It may be more, since those of a group that another node replaces stay counted. The counter of
  `/g_deepFree` is uninitialized, so that `QueueStaysRight` supposes it does not start above zero; otherwise the property is false (section 6).
  The order and the limits are right whatever it holds, which `QueueRealisesTree` states.

What a recursive function computes (`Walk`, the fold in `FreeGraphs`) is proved without an induction rule: a set of
counterexamples has a least member (`LeastNat`, `MinSubset`). Every safety invariant that a run checks is so stated by a theorem.
Only model-checked is liveness: the prover cannot do liveness under fairness (`CallsReturn`,
`EndedNodesFreed`, `EveryCommandCompletes`, `UnusedDefsFreed`, `MessagesPerformed`, `EveryPacketEnds`, `TickEnds`,
`HelpersJoin`, `GarbageIsFound`) or `ENABLED`. Those stay with TLC.

## 6. Disagreements between the code and its documentation

One is listed as a finding, with a run: `calc_dtor`. The others end in a counterexample when a
configuration below is run, or when a constant of a listed one is changed; none is in the list of runs.

| How to see it | What happens |
|---|---|
| `MCBufferCommandsAllocFails.cfg` | a `/b_alloc` with no samples, for a buffer that has data, frees what both descriptors still name (`SC_World.cpp:1070`, `SC_SequencedCommand.cpp:309`). |
| `MCGraphDefsVariant.cfg` | removing a definition frees the variant a synth still uses (`SC_GraphDef.cpp:495`). |
| `MCGraphDefs.cfg`, `RemovedNameLive` | the name in `/d_removed` is read from a definition the other thread may have freed by then (`SC_GraphDef.cpp:512`, after the `Write` in 505). |
| `MCDriverThreadQuit.cfg` | the one signal that ends the driver's thread can be lost; the server then never exits (`SC_CoreAudio.mm:421`). |
| `MCSequencedCommandsPlugIn.cfg` | a plug-in command's completion message is freed twice (`SC_SequencedCommand.cpp:1595`). |
| `MCBufferCommandsRates.cfg` | `/b_read` without room in the buffer installs an uninitialized sample rate (`SC_SequencedCommand.cpp:638`). |
| `MCBufferCommandsCopy.cfg` | `/b_gen copy` reads the audio thread's descriptor, older than the mirror (`OscUGens.cpp:3866`). |
| `MCGraphDefsFreeAll.cfg` | `/d_freeAll` frees definitions that synths use (`SC_World.cpp:793`). |
| `MCNodeGraphStale.cfg` | supernova: a move changes the order, and the queue is not generated anew (`sc_osc_handler.cpp:1458`). |
| `MCNodeGraph.cfg`, `Synths <- TwoSynths`, `SeqGroups <- ThreeGroups`, `LimitsCountPredecessors` | supernova: a group that ends in an empty group gives a wrong activation limit (`group.hpp:377`). |
| `MCCollectorRemoveAt.cfg` | `removeAt` moves two slots past the point a partial scan has reached; the barrier sees one (`PyrArrayPrimitives.cpp:243`). |
| `MCNodeCommands.cfg`, `Careful = FALSE`, `EveryNodeInTree` | `/s_new` or `/g_new` next to the root: the node is made, `/n_go` is sent, and it is in no group (`SC_Node.cpp:111`). A group moved into itself is cut off as a cycle. |
| `MCNodeCalc.cfg`, `EndedNodesAlwaysFreed`, `CalcFairSpec` | a done action in a constructor, in a traced block, or 14 in the root group, is overwritten or stops everything, and the node is not freed (`SC_Graph.cpp:467` and `:559`, `SC_Node.cpp:448`). |
| `MCNodeCalcDtor.cfg`, `ConstructedOnce` without its last disjunct | `/n_run 0` twice and `/n_run 1` before the first block: units run that were never constructed (`SC_Node.cpp:243`). |
| `MCSequencedCommands.cfg`, `EveryCommandReplies` | a command refused by a full fifo is never answered (`SC_SequencedCommand.cpp:191`). |
| `MCBufferCommands.cfg`, 4 commands, `FileOps`, `CleanupClosesOpenFiles` | `World_Cleanup` closes a file that `/b_close` closed already (`SC_World.cpp:981`). |
| `MCScheduler.cfg`, `NothingForgotten` | a full scheduler, `/clearSched` and a refused `World_SendPacket` leak the packet (`SC_ComPort.cpp:315`). |
| `MCNodeGraph.cfg`, `CrossMoves = TRUE`, `ListsAgree` | supernova: `/n_before` next to a node of another group parts list and parent (`group.hpp:264`). |
| `MCNodeGraph.cfg`, `CyclicMoves = TRUE`, `ListsAgree` | supernova: `/g_head` or `/n_before` moves a group into or below itself, and both hang in a cycle the root does not reach (`sc_osc_handler.cpp:1477` and `:1458`, `group.hpp:230`). |
| `MCNodeGraph.cfg`, `NothingUndefined` | supernova: a new node before, after or in place of the root is added through a null parent (`node_graph.cpp:43`, `:61`). The invariant also fails, one action left out after the other, for moves of the root or next to it (`MoveNone`), for a synth that was replaced, which has no parent but keeps its id while the queue holds it (`node_graph.cpp:61`), for `/n_order` of a group, which is freed before it is linked again, or next to the node itself (`OrderNone`, `sc_osc_handler.cpp:1543`), and for done actions 3, 13 and 14 of a synth freed in the same tick (`DoneNone`, `sc_plugin_interface.cpp:81`). |
| `MCNodeGraph.cfg`, `HeldThroughout` | supernova: a done action names a group that another one has freed in the same update (`CarryOutNone`, `sc_plugin_interface.cpp:720`). |
| `MCNodeGraph.cfg`, `Garbage = {0, 1}`, `GeneratedQueueRight` | supernova: `/g_deepFree` counts from an uninitialized number (`node_graph.hpp:147`). |

Two more need no model: `/n_run 1` does not resume a synth that was paused before its first block
(`SC_Node.cpp:234`), and `/d_load` reads every file twice and forgets the second result
(`SC_GraphDef.cpp:547`).

## 7. Limits

- Memory is sequentially consistent. The fifos' barriers are taken to provide that.
- Real-time memory never runs out (`World_Alloc` results are not tested in the code).
- Control mapping is not modelled, nor what units compute.
- Completion messages are one level deep and start one command in `SequencedCommands`; those that are bundles for later are
  in `Scheduler`, without the commands they contain.
- A command's id of a node that exists already has no effect in the model; `/g_new` with such an id next to the
  root reads through a null pointer in the code (`SC_MiscCmds.cpp:954`).
- That the callback has ended when `DriverStop` returns is assumed of the host.
- In `GraphDefs` the table is a partial function with a limit on its size; probing is left to the hash table module.
- The buffer number of a command is one that exists; `World_GetBuf` compares with `>` where `>=` is meant
  (`SC_World.h:114`).
- `World_Cleanup` deletes `mDriverLock` while it holds it (`SC_World.cpp:962`); the network threads that may wait for it are
  not in `DriverThread`.
- In `DriverThread` that holds for CoreAudio; with PortAudio the callback may still tick while `DspThreads.Terminate` runs,
  which `DspThreads` leaves out: it has no tick after `Terminate`.
- In `DspThreads` the abort after 50000 fruitless polls is left out, and the lock-free stack is a set.
- In `NodeGraph` pausing, the choice of node ids, and done actions other than 2, 3, 13 and 14 are left out; a queue item is freed
  with its queue. After a null pointer or a freed node was used nothing is modelled, nor is it with groups in a cycle,
  which the code walks without end. `fill_notification` of a node without a parent (`/n_query`) reads through a null pointer
  as well, and changes nothing.
- In `GraphDefs` the name that `SendRemoved` reads from freed memory only ends up in a reply, so that the model goes on.
- In `Collector` a partial scan begins only in an array. In the code it may also begin in a large stack of a thread that is not
  running (`GC.cpp:566`); the stacks of the model are scanned at once.
- In `Collector` finalizers, frames, size classes and permanent objects are left out, and a thread's stack keeps its contents
  when the thread is done, where the code empties it.

## 8. Plan

Done, in this order: `MsgFifo` with proofs; `NodeTree`, `NodeOrder`, `NodeCommands`; `NodeCalc`;
`SequencedCommands`; `BufferCommands`; `DriverThread`; `GraphDefs`; `Scheduler`; `DspThreads`;
`DependencyGraph`, `NodeGraph`; `Collector`; proofs about `DriverThread`, `Collector`, `DspThreads`, `SequencedCommands`,
`BufferCommands` and `GraphDefs`, then about `NodeCommands`, `NodeCalc` and `NodeOrder`, about `Scheduler` with its heap, and about
`NodeGraph` and the queue that `DependencyGraph` generates.

Left, most important first:

1. `Clock`: the queue and the waits of `SystemClock` and `TempoClock` (`PyrSched.cpp`): no missed wake-up, tasks awakened in order
   of their times also after the tempo changed, every scheduled task awakened or cleared.
2. `Clients`: `/notify`, `mUsers`, node messages through `mNodeEnds` with a small fifo; each client is told of the end of
   each node at most once, in order, and of all if the fifo has room.
3. `HashTable`: open addressing with `FixCollisionsFrom`, refining a partial function; bounds: 8 slots, 4 keys, all
   hash functions.
4. `AllocPool`: chunks of a small area, split and merge; no two chunks overlap, no two free neighbours.

### Not modelled

The unit generators compute signals: state and order between them is the node tree's, and their arithmetic has no
protocol. The compiler, the class library, the editors and the vendored libraries are most of the repository's lines and
none of its coordination. `PROJECT.json` has the reason for each part.
