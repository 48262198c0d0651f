------------------------------- MODULE MsgFifo -------------------------------
(***************************************************************************)
(* The lock-free ring buffer MsgFifo<MsgType, N> of                        *)
(* include/common/MsgFifo.h, with its callers in SC_CoreAudio.mm: a         *)
(* producer takes mDriverLock, reclaims performed items, writes one item    *)
(* and releases the lock (ProcessOSCPacket, SendOscPacketMsgToEngine); one  *)
(* consumer performs the items (Perform, called by the audio callback or by *)
(* the NRT thread).  With a single producer the lock is never contended,    *)
(* which is the use SendMsgToEngine makes of the fifo.                      *)
(*                                                                          *)
(* One TLA+ step is one access to a cursor the other thread reads or        *)
(* writes; the barriers in the code make the interleaving of these accesses *)
(* the only thing that matters.                                             *)
(***************************************************************************)
EXTENDS Integers, FiniteSets

CONSTANTS N,          \* number of slots, the template parameter
          Msg,        \* the messages that can be written
          Producers,  \* threads that send to this fifo
          NoOne,      \* the lock is free
          NoMsg       \* the FifoMsg a slot is constructed with

ASSUME NAssumption == N \in Nat /\ N > 1
ASSUME NoOneAssumption == NoOne \notin Producers
ASSUME MsgAssumption == NoMsg \notin Msg

VARIABLES mReadHead, mWriteHead, mFreeHead, mItems,
          lock,       \* who holds mDriverLock
          pc,         \* where each producer is in its call
          performing  \* the consumer is inside mItems[next].Perform()

cursors == <<mReadHead, mWriteHead, mFreeHead>>
vars == <<mReadHead, mWriteHead, mFreeHead, mItems, lock, pc, performing>>

Slots == 0 .. N - 1

(* (inPos + 1) & (N - 1): N is a power of two in every instance.           *)
NextPos(p) == IF p = N - 1 THEN 0 ELSE p + 1

(* How many steps forward from cursor a to cursor b.                       *)
Dist(a, b) == IF a <= b THEN b - a ELSE b - a + N

(* The slots after cursor a up to and including cursor b.                  *)
Between(a, b) == {s \in Slots : 0 < Dist(a, s) /\ Dist(a, s) <= Dist(a, b)}

(* Slots holding a message that is waiting, being performed or not yet     *)
(* given back.                                                             *)
Occupied == Between(mFreeHead, mWriteHead)

HasData == mReadHead # mWriteHead
NeedsFree == mFreeHead # mReadHead

(* Write refuses when the next slot is the one the free cursor stands on.  *)
IsFull == NextPos(mWriteHead) = mFreeHead

-----------------------------------------------------------------------------
Init == /\ mReadHead = 0 /\ mWriteHead = 0 /\ mFreeHead = 0
        /\ mItems = [s \in Slots |-> NoMsg]
        /\ lock = NoOne
        /\ pc = [p \in Producers |-> "idle"]
        /\ performing = FALSE

Goto(p, from, to) == pc[p] = from /\ pc' = [pc EXCEPT ![p] = to]

\* (faulty variant: no lock)
AcquireUnlocked(p) ==
    /\ Goto(p, "idle", "free")
    /\ lock' = p
    /\ UNCHANGED <<cursors, mItems, performing>>

(* inWorld->mDriverLock->Lock()                                            *)
Acquire(p) ==
    /\ lock = NoOne
    /\ Goto(p, "idle", "free")
    /\ lock' = p
    /\ UNCHANGED <<cursors, mItems, performing>>

(* One round of the loop in Free.                                          *)
FreeItem(p) ==
    /\ pc[p] = "free" /\ NeedsFree
    /\ mFreeHead' = NextPos(mFreeHead)
    /\ UNCHANGED <<mReadHead, mWriteHead, mItems, lock, pc, performing>>

FreeDone(p) ==
    /\ ~NeedsFree
    /\ Goto(p, "free", "write")
    /\ UNCHANGED <<cursors, mItems, lock, performing>>

(* Write returns false.                                                    *)
WriteRefused(p) ==
    /\ IsFull
    /\ Goto(p, "write", "idle")
    /\ lock' = NoOne
    /\ UNCHANGED <<cursors, mItems, performing>>

\* (faulty variant: stores where the write cursor stands)
WriteStoreBehind(p) ==
    /\ ~IsFull
    /\ Goto(p, "write", "publish")
    /\ \E m \in Msg : mItems' = [mItems EXCEPT ![mWriteHead] = m]
    /\ UNCHANGED <<cursors, lock, performing>>

(* mItems[next] = data: the slot is not yet visible to the consumer.       *)
WriteStore(p) ==
    /\ ~IsFull
    /\ Goto(p, "write", "publish")
    /\ \E m \in Msg : mItems' = [mItems EXCEPT ![NextPos(mWriteHead)] = m]
    /\ UNCHANGED <<cursors, lock, performing>>

(* The barrier and the store to mWriteHead; Write returns true.            *)
WritePublish(p) ==
    /\ Goto(p, "publish", "idle")
    /\ mWriteHead' = NextPos(mWriteHead)
    /\ lock' = NoOne
    /\ UNCHANGED <<mReadHead, mFreeHead, mItems, performing>>

\* (faulty variant: no HasData test)
PerformBeginUnchecked ==
    /\ ~performing
    /\ performing' = TRUE
    /\ UNCHANGED <<cursors, mItems, lock, pc>>

PerformBegin ==
    /\ ~performing /\ HasData
    /\ performing' = TRUE
    /\ UNCHANGED <<cursors, mItems, lock, pc>>

PerformEnd ==
    /\ performing
    /\ performing' = FALSE
    /\ mReadHead' = NextPos(mReadHead)
    /\ UNCHANGED <<mWriteHead, mFreeHead, mItems, lock, pc>>

Produce(p) == \/ Acquire(p) \/ FreeItem(p) \/ FreeDone(p)
              \/ WriteRefused(p) \/ WriteStore(p) \/ WritePublish(p)

Consume == PerformBegin \/ PerformEnd

Next == (\E p \in Producers : Produce(p)) \/ Consume

(* The consumer is driven by the audio hardware; nothing obliges a         *)
(* producer to send, but a call that took the lock returns.                 *)
Fairness == /\ WF_vars(Consume)
            /\ \A p \in Producers : WF_vars(pc[p] # "idle" /\ Produce(p))

Spec == Init /\ [][Next]_vars /\ Fairness

-----------------------------------------------------------------------------
(* Every cursor is a slot number and every slot holds a message.           *)
TypeOK == /\ mReadHead \in Slots /\ mWriteHead \in Slots /\ mFreeHead \in Slots
          /\ mItems \in [Slots -> Msg \cup {NoMsg}]
          /\ lock \in Producers \cup {NoOne}
          /\ pc \in [Producers -> {"idle", "free", "write", "publish"}]
          /\ performing \in BOOLEAN

(* Walking forward from the free cursor one meets the read cursor no later *)
(* than the write cursor, although all three wrap around: the producer     *)
(* never reclaims a message the consumer has not finished, and the consumer *)
(* never runs past what was published (MsgFifo.h, the three loops).         *)
CursorsInOrder == Dist(mFreeHead, mReadHead) <= Dist(mFreeHead, mWriteHead)

(* No step changes the message of a slot that is waiting, being performed  *)
(* or not reclaimed: Write's `mItems[next] = data` never lands on a message *)
(* the other thread may be using, whichever producers call it.             *)
LiveSlotsStable == [][\A s \in Occupied : mItems'[s] = mItems[s]]_vars

(* Every call to send returns.  Free loops until it has caught up with the    *)
(* read cursor, which the consumer is moving away from it all the while; it   *)
(* catches up because nobody else can write under the lock.                   *)
CallsReturn == \A p \in Producers : pc[p] = "free" ~> pc[p] = "idle"

-----------------------------------------------------------------------------
(* The slot i places after cursor a, and the messages from a to b.           *)
Ahead(a, i) == IF a + i < N THEN a + i ELSE a + i - N

Contents(a, b) == [i \in 1 .. Dist(a, b) |-> mItems[Ahead(a, i)]]

Queue == INSTANCE MsgQueue WITH Capacity <- N - 1,
                                pending <- Contents(mReadHead, mWriteHead),
                                spent <- Contents(mFreeHead, mReadHead)

(* The ring buffer implements the bounded queue: accepted messages are        *)
(* performed in order, each once, and reclaimed in order afterwards.          *)
ImplementsQueue == Queue!Init /\ [][Queue!Next]_Queue!qvars
=============================================================================
