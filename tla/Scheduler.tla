----------------------------- MODULE Scheduler ------------------------------
(***************************************************************************)
(* The way of an OSC packet through scsynth: a network thread puts it into *)
(* mOscPacketsToEngine, the audio callback performs it or hands a bundle   *)
(* with a time to mScheduler, performs it in the block its time falls      *)
(* into, and sends its memory back through mFromEngine.  A completion      *)
(* message arrives in the audio thread itself (mToEngine) and is freed     *)
(* there.  Both fifos are used as MsgQueue describes them: a slot that has *)
(* been performed is taken until its producer frees it.                    *)
(***************************************************************************)
EXTENDS PriorityQueue, FiniteSets

CONSTANTS
    NetPackets,   \* packets that network threads receive, in this order
    Completions,  \* completion messages of asynchronous commands, likewise
    Timeless,     \* the packets that are no bundle, or have the time 0 or 1
    Clearing,     \* the packets that contain /clearSched
    InboxSize, OutboxSize, \* the room in the two fifos
    Limit,        \* N, the room in the scheduler
    oscInc,       \* the length of a block (mOSCincrement)
    NumBufs,      \* blocks per callback
    Jitter,       \* bound: by how much a callback's time is off the last one's end
    MaxTime       \* bound: times of bundles and of callbacks

Packets == NetPackets \cup Completions

ASSUME MaxTimeAssumption == MaxTime \in Nat \ {0}
ASSUME JitterAssumption == Jitter \in Nat /\ oscInc * NumBufs > Jitter
ASSUME RoomAssumption == {InboxSize, OutboxSize, Limit} \subseteq Nat
ASSUME BlocksAssumption == oscInc \in Nat \ {0} /\ NumBufs \in Nat \ {0}
ASSUME PacketsAssumption ==
    /\ Packets \subseteq Nat /\ NetPackets \cap Completions = {}
    /\ Timeless \cup Clearing \subseteq Packets

VARIABLES
    stamp,    \* the time of each bundle
    fate,     \* "unsent", "sent", "performed", "refused" or "dropped"
    inbox,    \* slots of mOscPacketsToEngine, oldest first
    heap,     \* mScheduler
    outbox,   \* slots of mFromEngine that carry packets to be freed
    freedBy,  \* history: the threads that have freed each packet
    leaked,   \* history: packets nobody refers to any more
    phase,    \* where the audio callback is
    oscTime,  \* start of the current block
    left,     \* blocks the callback has yet to compute
    blockEnd  \* history: the end of the block computed last

memory == <<freedBy, leaked>>
clock == <<oscTime, left, blockEnd>>
vars == <<stamp, fate, inbox, heap, outbox, memory, phase, clock>>

\* A slot owns its packet until Free, or until the scheduler takes it.
Slot(p) == [packet |-> p, owns |-> TRUE, done |-> FALSE]
Undone(fifo) == SelectInSeq(fifo, LAMBDA s : ~s.done)
Performed(fifo) == {i \in DOMAIN fifo : fifo[i].done}
Reclaimed(fifo) ==
    IF Undone(fifo) = 0 THEN <<>> ELSE SubSeq(fifo, Undone(fifo), Len(fifo))

\* Packets arrive in the order of their numbers, bundles with any time.
Arrives(p, S, t) ==
    /\ fate[p] = "unsent"
    /\ \A q \in S : q < p => fate[q] # "unsent"
    /\ p \in Timeless => t = 1
    /\ stamp' = [stamp EXCEPT ![p] = t]

FreedIn(thread, S) ==
    [p \in Packets |-> IF p \in S THEN Append(freedBy[p], thread) ELSE freedBy[p]]

----------------------------------------------------------------------------
Init ==
    /\ stamp = [p \in Packets |-> 1]
    /\ fate = [p \in Packets |-> "unsent"]
    /\ inbox = <<>> /\ heap = <<>> /\ outbox = <<>>
    /\ freedBy = [p \in Packets |-> <<>>] /\ leaked = {}
    /\ phase = "out"
    /\ oscTime = 0 /\ left = 0 /\ blockEnd = 0

\* ProcessOSCPacket under mDriverLock: free what the audio thread is done with,
\* then write.  A refused packet is freed by a network thread, but not by a
\* caller of World_SendPacket.
Send(p, t, caller) ==
    LET spent == {inbox[i].packet : i \in {j \in Performed(inbox) : inbox[j].owns}}
        rest  == Reclaimed(inbox)
        full  == Len(rest) >= InboxSize
    IN /\ Arrives(p, NetPackets, t)
       /\ fate' = [fate EXCEPT ![p] = IF full THEN "refused" ELSE "sent"]
       /\ inbox' = IF full THEN rest ELSE Append(rest, Slot(p))
       /\ freedBy' = FreedIn("network", spent \cup (IF full /\ caller = "port" THEN {p} ELSE {}))
       /\ leaked' = IF full /\ caller # "port" THEN leaked \cup {p} ELSE leaked
       /\ UNCHANGED <<heap, outbox, phase, clock>>

\* The beginning of Run.  The wall clock gives the time, so it may lag behind
\* the blocks already computed, or be ahead of them.
Callback(t) ==
    /\ phase = "out"
    /\ t \in oscTime - Jitter .. oscTime + Jitter \/ (oscTime > MaxTime /\ t = MaxTime)
    /\ oscTime' = t
    /\ left' = NumBufs
    /\ outbox' = Reclaimed(outbox)
    /\ phase' = "toEngine"
    /\ UNCHANGED <<stamp, fate, inbox, heap, memory, blockEnd>>

\* The packets in a scheduler that is emptied are forgotten, not freed.
Contents(h) == {h[i].packet : i \in DOMAIN h}

\* What the messages of packet p do to the heap h: nothing, or /clearSched.
Effect(p, h) ==
    /\ heap' = IF p \in Clearing THEN <<>> ELSE h
    /\ fate' = [q \in Packets |-> IF q = p THEN "performed"
                                  ELSE IF p \in Clearing /\ q \in Contents(h) THEN "dropped"
                                  ELSE fate[q]]
ClearedBy(p, h) == IF p \in Clearing THEN Contents(h) ELSE {}

\* SC_AudioDriver::AddEvent; nobody looks at the result of Add.
AddEvent(p, t, freeFunc) ==
    LET full == Len(heap) >= Limit IN
    /\ heap' = IF full THEN heap
               ELSE HeapAdd(heap, [time |-> t, packet |-> p, free |-> freeFunc])
    /\ fate' = [fate EXCEPT ![p] = IF full THEN "dropped" ELSE "sent"]
    /\ leaked' = IF full THEN leaked \cup {p} ELSE leaked

\* A stage 3 in mToEngine performs the completion message of its command
\* (SEND_COMPLETION_MSG); unless it was scheduled, the command frees it.
Complete(p, t) ==
    /\ phase = "toEngine" /\ Arrives(p, Completions, t)
    /\ \/ /\ p \in Timeless
          /\ Effect(p, heap)
          /\ leaked' = leaked \cup ClearedBy(p, heap)
          /\ freedBy' = FreedIn("audio", {p})
       \/ /\ p \notin Timeless
          /\ AddEvent(p, t, "FreeInRT")
          /\ UNCHANGED freedBy
    /\ UNCHANGED <<inbox, outbox, phase, clock>>

ToEngineDone ==
    /\ phase = "toEngine"
    /\ phase' = "packets"
    /\ UNCHANGED <<stamp, fate, inbox, heap, outbox, memory, clock>>

\* Perform_ToEngine_Msg: a packet that has been scheduled is no longer the
\* message's to free.
\* (faulty variant: the ownership is not transferred)
StillOwns(p) == TRUE
Keeps(p) == p \in Timeless

\* mOscPacketsToEngine.Perform(), the next packet.
PerformPacket ==
    LET i == Undone(inbox)
        p == inbox[i].packet
    IN /\ phase = "packets" /\ i # 0
       /\ inbox' = [inbox EXCEPT ![i].done = TRUE, ![i].owns = Keeps(p)]
       /\ \/ /\ p \in Timeless
             /\ Effect(p, heap)
             /\ leaked' = leaked \cup ClearedBy(p, heap)
          \/ /\ p \notin Timeless
             /\ AddEvent(p, stamp[p], "FreeInNRT")
       /\ UNCHANGED <<stamp, outbox, freedBy, phase, clock>>

PacketsDone ==
    /\ phase = "packets" /\ Undone(inbox) = 0
    /\ phase' = "due"
    /\ UNCHANGED <<stamp, fate, inbox, heap, outbox, memory, clock>>

\* The first event is due in the current block; the boundary belongs to the
\* block that ends there, and a late bundle to the next one there is.
\* (faulty variant: what is late is left where it is)
DueIfNotLate(e) == oscTime <= e.time /\ e.time <= oscTime + oscInc
Due(e) == e.time <= oscTime + oscInc

\* The loop before each block (event.Perform()).
PerformDue ==
    LET e == Head(heap)
        rest == HeapRemove(heap)
        full == Len(outbox) >= OutboxSize
        back == e.free = "FreeInNRT"
    IN /\ phase = "due" /\ heap # <<>>
       /\ Due(e)
       /\ Effect(e.packet, rest)
       /\ freedBy' = IF back THEN freedBy ELSE FreedIn("audio", {e.packet})
       /\ outbox' = IF back /\ ~full THEN Append(outbox, Slot(e.packet)) ELSE outbox
       /\ leaked' = leaked \cup ClearedBy(e.packet, rest)
                           \cup (IF back /\ full THEN {e.packet} ELSE {})
       /\ UNCHANGED <<stamp, inbox, phase, clock>>

\* World_Run, and the time goes on by one block.
RunBlock ==
    /\ phase = "due"
    /\ heap # <<>> => ~Due(Head(heap))
    /\ oscTime' = oscTime + oscInc
    /\ blockEnd' = oscTime + oscInc
    /\ left' = left - 1
    /\ phase' = IF left = 1 THEN "out" ELSE "due"
    /\ UNCHANGED <<stamp, fate, inbox, heap, outbox, memory>>

\* RunThread: FreeOSCPacket is what the message of FreeInNRT performs.
FreeOSCPacket ==
    LET i == Undone(outbox) IN
    /\ i # 0
    /\ outbox' = [outbox EXCEPT ![i].done = TRUE, ![i].owns = FALSE]
    /\ freedBy' = FreedIn("driver", {outbox[i].packet})
    /\ UNCHANGED <<stamp, fate, inbox, heap, leaked, phase, clock>>

Audio ==
    \/ \E t \in 0 .. MaxTime : Callback(t)
    \/ ToEngineDone \/ PerformPacket \/ PacketsDone \/ PerformDue \/ RunBlock

Next ==
    \/ \E p \in NetPackets, t \in 1 .. MaxTime, c \in {"port", "process"} : Send(p, t, c)
    \/ \E p \in Completions, t \in 1 .. MaxTime : Complete(p, t)
    \/ Audio
    \/ FreeOSCPacket

\* The host keeps calling back, and the thread of the driver is woken
\* (DriverThread shows that it is).
Spec == Init /\ [][Next]_vars /\ WF_vars(Audio) /\ WF_vars(FreeOSCPacket)

----------------------------------------------------------------------------
Owned(fifo, p) == Cardinality({i \in DOMAIN fifo : fifo[i].packet = p /\ fifo[i].owns})

TypeOK ==
    /\ stamp \in [Packets -> 1 .. MaxTime]
    /\ fate \in [Packets -> {"unsent", "sent", "performed", "refused", "dropped"}]
    /\ Len(inbox) <= InboxSize /\ Len(outbox) <= OutboxSize /\ Len(heap) <= Limit
    /\ phase \in {"out", "toEngine", "packets", "due"}
    /\ oscTime \in Nat /\ left \in 0 .. NumBufs

\* The memory of a packet is handed from the network thread to the fifo, to the
\* scheduler, to the other fifo and to the thread that frees it, and never has
\* two owners or none: it is freed at most once, and by a thread that may use
\* the allocator it came from.  It is forgotten only where a full queue or
\* /clearSched drops it.
PacketsHaveOneOwner ==
    /\ TypeOK
    /\ \A p \in Packets :
           /\ Owned(inbox, p) + Owned(outbox, p)
                + Cardinality({i \in DOMAIN heap : heap[i].packet = p})
                + Len(freedBy[p]) + Cardinality({p} \cap leaked)
              = IF fate[p] = "unsent" THEN 0 ELSE 1
           /\ \A i \in DOMAIN freedBy[p] : (freedBy[p][i] = "audio") <=> p \in Completions

\* The heap, the two fifos and the callback together do what BundleQueue says:
\* order by time, nothing due left behind by a block, nothing added to a full
\* queue that would displace what waits.
Abstract == INSTANCE BundleQueue WITH
    Bundles <- Packets,
    Times <- 0 .. MaxTime + NumBufs * oscInc,
    waiting <- {[time |-> heap[i].time, packet |-> heap[i].packet] : i \in DOMAIN heap},
    performed <- {p \in Packets : fate[p] = "performed"}
ImplementsBundleQueue == Abstract!Spec

\* A packet the fifo has accepted is performed, now or when its time comes, or
\* falls victim to a full scheduler or to /clearSched, however the callbacks'
\* times jitter.
EveryPacketEnds ==
    \A p \in Packets : fate[p] = "sent" ~> fate[p] \in {"performed", "dropped"}

\* "Removes all bundles from the scheduling queue" (/clearSched in the server
\* command reference): their memory too.
NothingForgotten == leaked = {}
=============================================================================
