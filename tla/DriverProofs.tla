---------------------------- MODULE DriverProofs ----------------------------
(***************************************************************************)
(* Proofs about the two things the driver consists of between its threads. *)
(* First the fifos, MsgFifo, for every number of slots, every set of       *)
(* messages and every set of producers.  Then the thread that reads one of *)
(* them, DriverThread: its condition has one signaller at a time, and the  *)
(* server is not cleaned up under a thread that still runs.                *)
(***************************************************************************)
EXTENDS MsgFifo, DriverThread, Sequences, TLAPS

(* What a step needs to know beyond the cursor order: the consumer is       *)
(* inside an item only if there is one, the lock admits one producer, and    *)
(* the slot a producer is about to publish is free.                          *)
LockHeld == \A p \in Producers : pc[p] # "idle" <=> lock = p
PerformingHasData == performing => HasData
PublishingHasRoom == \A p \in Producers : pc[p] = "publish" => ~IsFull

IInv == TypeOK /\ CursorsInOrder /\ LockHeld /\ PerformingHasData /\ PublishingHasRoom

-----------------------------------------------------------------------------
(* Cursor arithmetic.                                                       *)

(* A cursor stays a slot number when it advances.                           *)
LEMMA NextPosType == ASSUME NEW a \in Slots PROVE NextPos(a) \in Slots
  BY NAssumption DEF NextPos, Slots

(* Advancing the far cursor adds one to the distance, unless it meets the   *)
(* near one.                                                                 *)
LEMMA DistGrows ==
  ASSUME NEW a \in Slots, NEW b \in Slots, NextPos(b) # a
  PROVE  Dist(a, NextPos(b)) = Dist(a, b) + 1
  BY NAssumption DEF NextPos, Dist, Slots

(* Advancing the near cursor takes one from the distance.                   *)
LEMMA DistShrinks ==
  ASSUME NEW a \in Slots, NEW b \in Slots, a # b
  PROVE  Dist(NextPos(a), b) = Dist(a, b) - 1
  BY NAssumption DEF NextPos, Dist, Slots

(* A distance is a number below N, zero only between equal cursors, and the  *)
(* cursors at the same distance are equal.                                   *)
LEMMA DistType ==
  ASSUME NEW a \in Slots, NEW b \in Slots
  PROVE  Dist(a, b) \in Slots /\ (Dist(a, b) = 0 <=> a = b)
  BY NAssumption DEF Dist, Slots

LEMMA DistInjective ==
  ASSUME NEW a \in Slots, NEW b \in Slots, NEW c \in Slots, Dist(a, b) = Dist(a, c)
  PROVE  b = c
  BY NAssumption DEF Dist, Slots

-----------------------------------------------------------------------------
(* The constructor establishes the invariant.                               *)
LEMMA InitIInv == Init => IInv
<1> SUFFICES ASSUME Init PROVE IInv
  OBVIOUS
<1>1. 0 \in Slots
  BY NAssumption DEF Slots
<1>2. TypeOK
  BY <1>1 DEF Init, TypeOK
<1>3. CursorsInOrder
  BY DEF Init, CursorsInOrder, Dist
<1>4. LockHeld /\ PublishingHasRoom /\ PerformingHasData
  BY NoOneAssumption DEF Init, LockHeld, PublishingHasRoom, PerformingHasData
<1> QED BY <1>2, <1>3, <1>4 DEF IInv

(* Every access to a cursor preserves it.                                   *)
LEMMA NextIInv == IInv /\ [Next]_vars => IInv'
<1> SUFFICES ASSUME IInv, [Next]_vars PROVE IInv'
  OBVIOUS
<1> USE NoOneAssumption DEF IInv, LockHeld, PerformingHasData, PublishingHasRoom,
                            Goto, cursors, HasData, IsFull
<1>t. /\ mReadHead \in Slots /\ mWriteHead \in Slots /\ mFreeHead \in Slots
      /\ NextPos(mReadHead) \in Slots /\ NextPos(mWriteHead) \in Slots
      /\ NextPos(mFreeHead) \in Slots
  BY NextPosType DEF TypeOK
<1>1. ASSUME NEW p \in Producers, Acquire(p) PROVE IInv'
  BY <1>1 DEF Acquire, TypeOK, CursorsInOrder
<1>2. ASSUME NEW p \in Producers, FreeItem(p) PROVE IInv'
  <2>1. TypeOK'
    BY <1>2, <1>t DEF FreeItem, TypeOK
  <2>2. mFreeHead # mReadHead /\ mFreeHead # mWriteHead
    BY <1>2, <1>t, DistType DEF FreeItem, NeedsFree, CursorsInOrder, Slots
  <2>3. CursorsInOrder'
    <3>1. /\ Dist(NextPos(mFreeHead), mReadHead) = Dist(mFreeHead, mReadHead) - 1
          /\ Dist(NextPos(mFreeHead), mWriteHead) = Dist(mFreeHead, mWriteHead) - 1
      BY <1>t, <2>2, DistShrinks
    <3>2. Dist(mFreeHead, mReadHead) \in Int /\ Dist(mFreeHead, mWriteHead) \in Int
      BY <1>t, DistType, NAssumption DEF Slots
    <3> QED BY <1>2, <3>1, <3>2 DEF FreeItem, CursorsInOrder
  <2> QED BY <1>2, <2>1, <2>3 DEF FreeItem
<1>3. ASSUME NEW p \in Producers, FreeDone(p) PROVE IInv'
  BY <1>3 DEF FreeDone, TypeOK, CursorsInOrder
<1>4. ASSUME NEW p \in Producers, WriteRefused(p) PROVE IInv'
  BY <1>4 DEF WriteRefused, TypeOK, CursorsInOrder
<1>5. ASSUME NEW p \in Producers, WriteStore(p) PROVE IInv'
  <2>1. TypeOK'
    BY <1>5, <1>t DEF WriteStore, TypeOK
  <2> QED BY <1>5, <2>1 DEF WriteStore, CursorsInOrder
<1>6. ASSUME NEW p \in Producers, WritePublish(p) PROVE IInv'
  <2>1. TypeOK'
    BY <1>6, <1>t DEF WritePublish, TypeOK
  <2>2. CursorsInOrder'
    <3>1. Dist(mFreeHead, NextPos(mWriteHead)) = Dist(mFreeHead, mWriteHead) + 1
      BY <1>6, <1>t, DistGrows DEF WritePublish
    <3>2. Dist(mFreeHead, mReadHead) \in Int /\ Dist(mFreeHead, mWriteHead) \in Int
      BY <1>t, DistType, NAssumption DEF Slots
    <3> QED BY <1>6, <3>1, <3>2 DEF WritePublish, CursorsInOrder
  <2>3. mReadHead # NextPos(mWriteHead)
    \* otherwise the read cursor would be further than the write cursor
    <3>1. SUFFICES ASSUME mReadHead = NextPos(mWriteHead) PROVE FALSE
      OBVIOUS
    <3>2. Dist(mFreeHead, mReadHead) = Dist(mFreeHead, mWriteHead) + 1
      BY <1>6, <1>t, <3>1, DistGrows DEF WritePublish
    <3>3. Dist(mFreeHead, mReadHead) \in Int /\ Dist(mFreeHead, mWriteHead) \in Int
      BY <1>t, DistType, NAssumption DEF Slots
    <3> QED BY <3>2, <3>3 DEF CursorsInOrder
  <2>4. LockHeld' /\ PublishingHasRoom'
    BY <1>6 DEF WritePublish, TypeOK
  <2> QED BY <1>6, <2>1, <2>2, <2>3, <2>4 DEF WritePublish
<1>7. CASE PerformBegin
  BY <1>7 DEF PerformBegin, TypeOK, CursorsInOrder
<1>8. CASE PerformEnd
  <2>1. TypeOK'
    BY <1>8, <1>t DEF PerformEnd, TypeOK
  <2>2. CursorsInOrder'
    <3>1. mReadHead # mWriteHead
      BY <1>8 DEF PerformEnd
    <3>2. /\ Dist(mFreeHead, mReadHead) \in Nat /\ Dist(mFreeHead, mWriteHead) \in Nat
          /\ Dist(mFreeHead, mReadHead) # Dist(mFreeHead, mWriteHead)
      BY <1>t, <3>1, DistType, DistInjective, NAssumption DEF Slots
    <3>3. Dist(mFreeHead, mReadHead) + 1 <= Dist(mFreeHead, mWriteHead)
      BY <3>2 DEF CursorsInOrder
    <3>4. CASE NextPos(mReadHead) = mFreeHead
      <4>1. Dist(mFreeHead, NextPos(mReadHead)) = 0
        BY <1>t, <3>4, DistType
      <4> QED BY <1>8, <4>1, <3>2 DEF PerformEnd, CursorsInOrder
    <3>5. CASE NextPos(mReadHead) # mFreeHead
      <4>1. Dist(mFreeHead, NextPos(mReadHead)) = Dist(mFreeHead, mReadHead) + 1
        BY <1>t, <3>5, DistGrows
      <4> QED BY <1>8, <4>1, <3>3 DEF PerformEnd, CursorsInOrder
    <3> QED BY <3>4, <3>5
  <2> QED BY <1>8, <2>1, <2>2 DEF PerformEnd
<1>9. CASE UNCHANGED vars
  BY <1>9 DEF vars, TypeOK, CursorsInOrder
<1> QED
  BY <1>1, <1>2, <1>3, <1>4, <1>5, <1>6, <1>7, <1>8, <1>9 DEF Next, Produce, Consume

THEOREM Invariance == Spec => []IInv
  BY InitIInv, NextIInv, PTL DEF Spec

(* The cursors and the lock always have their types.                        *)
THEOREM TypeCorrect == Spec => []TypeOK
<1>1. IInv => TypeOK
  BY DEF IInv
<1> QED BY <1>1, Invariance, PTL

(* The free cursor never passes the read cursor, nor the read cursor the    *)
(* write cursor, for every N.                                                *)
THEOREM CursorSafety == Spec => []CursorsInOrder
<1>1. IInv => CursorsInOrder
  BY DEF IInv
<1> QED BY <1>1, Invariance, PTL

(* No message that is waiting, being performed or waiting to be reclaimed   *)
(* is ever overwritten.                                                      *)
THEOREM NoOverwrite == Spec => LiveSlotsStable
<1>1. IInv /\ [Next]_vars => [\A s \in Occupied : mItems'[s] = mItems[s]]_vars
  <2> SUFFICES ASSUME IInv, Next, NEW s \in Occupied PROVE mItems'[s] = mItems[s]
    OBVIOUS
  <2>1. CASE \E p \in Producers : WriteStore(p)
    <3>1. PICK p \in Producers : WriteStore(p)
      BY <2>1
    <3>t. mFreeHead \in Slots /\ mWriteHead \in Slots /\ s \in Slots
          /\ mItems \in [Slots -> Msg \cup {NoMsg}]
      BY DEF IInv, TypeOK, Occupied, Between
    <3>2. Dist(mFreeHead, NextPos(mWriteHead)) = Dist(mFreeHead, mWriteHead) + 1
      BY <3>1, <3>t, DistGrows DEF WriteStore, IsFull
    <3>3. Dist(mFreeHead, s) <= Dist(mFreeHead, mWriteHead)
      BY DEF Occupied, Between
    <3>4. Dist(mFreeHead, s) \in Int /\ Dist(mFreeHead, mWriteHead) \in Int
      BY <3>t, DistType, NAssumption DEF Slots
    <3>5. s # NextPos(mWriteHead)
      BY <3>2, <3>3, <3>4
    <3> QED BY <3>1, <3>5, <3>t DEF WriteStore
  <2>2. CASE ~ \E p \in Producers : WriteStore(p)
    BY <2>2 DEF Next, Produce, Consume, Acquire, FreeItem, FreeDone, WriteRefused,
                WritePublish, PerformBegin, PerformEnd
  <2> QED BY <2>1, <2>2
<1> QED BY <1>1, Invariance, PTL DEF Spec, LiveSlotsStable

-----------------------------------------------------------------------------
(* The refinement: every step of the ring buffer is a step of the bounded    *)
(* queue or leaves it unchanged.                                             *)

(* A published slot holds a message, not the value it was constructed with. *)
PublishingStored ==
    \A p \in Producers : pc[p] = "publish" => mItems[NextPos(mWriteHead)] \in Msg

RInv == IInv /\ PublishingStored

LEMMA NextRInv == RInv /\ [Next]_vars => RInv'
<1> SUFFICES ASSUME RInv, [Next]_vars PROVE PublishingStored'
  BY NextIInv DEF RInv
<1> USE DEF RInv, IInv, PublishingStored, LockHeld, Goto, cursors
<1>1. CASE \E p \in Producers : WriteStore(p)
  <2>1. PICK p \in Producers : WriteStore(p)
    BY <1>1
  <2>2. NextPos(mWriteHead) \in Slots
    BY NextPosType DEF TypeOK
  <2> QED BY <2>1, <2>2 DEF WriteStore, TypeOK
<1>2. CASE \E p \in Producers : WritePublish(p)
  BY <1>2 DEF WritePublish, TypeOK
<1>3. CASE UNCHANGED vars
  BY <1>3 DEF vars
<1>4. CASE \E p \in Producers : \/ Acquire(p) \/ FreeItem(p) \/ FreeDone(p)
                                \/ WriteRefused(p)
  BY <1>4 DEF TypeOK, Acquire, FreeItem, FreeDone, WriteRefused
<1>5. CASE Consume
  BY <1>5 DEF Consume, PerformBegin, PerformEnd
<1> QED BY <1>1, <1>2, <1>3, <1>4, <1>5 DEF Next, Produce

(* Contents(a, b) is a sequence as long as the distance from a to b.         *)
LEMMA ContentsSeq ==
  ASSUME NEW a \in Slots, NEW b \in Slots, NEW M, mItems \in [Slots -> M]
  PROVE  /\ Contents(a, b) \in Seq(M)
         /\ Len(Contents(a, b)) = Dist(a, b)
         /\ \A i \in 1 .. Dist(a, b) :
               Ahead(a, i) \in Slots /\ Contents(a, b)[i] = mItems[Ahead(a, i)]
<1>1. Dist(a, b) \in Nat /\ Dist(a, b) < N
  BY DistType, NAssumption DEF Slots
<1>2. \A i \in 1 .. Dist(a, b) : Ahead(a, i) \in Slots
  BY <1>1, NAssumption DEF Ahead, Slots
<1> QED BY <1>1, <1>2 DEF Contents

(* Walking one step from the near cursor shifts the positions by one.        *)
LEMMA AheadShift ==
  ASSUME NEW a \in Slots, NEW i \in 1 .. N - 1
  PROVE  /\ Ahead(a, 1) = NextPos(a)
         /\ i < N - 1 => Ahead(NextPos(a), i) = Ahead(a, i + 1)
  BY NAssumption DEF Ahead, NextPos, Slots

(* Walking the whole distance arrives at the far cursor.                     *)
LEMMA AheadArrives ==
  ASSUME NEW a \in Slots, NEW b \in Slots
  PROVE  /\ a # b => Ahead(a, Dist(a, b)) = b
         /\ \A i \in 1 .. N - 1 : Ahead(a, i) \in Slots /\ Dist(a, Ahead(a, i)) = i
  BY NAssumption DEF Ahead, Dist, Slots

(* Moving the near cursor drops the first element.                           *)
LEMMA ContentsTail ==
  ASSUME NEW a \in Slots, NEW b \in Slots, a # b, NEW M, mItems \in [Slots -> M]
  PROVE  /\ Contents(a, b) # << >>
         /\ Contents(NextPos(a), b) = Tail(Contents(a, b))
         /\ Head(Contents(a, b)) = mItems[NextPos(a)]
<1> DEFINE s == Contents(a, b)
           t == Contents(NextPos(a), b)
<1>1. NextPos(a) \in Slots
  BY NextPosType
<1>2. Dist(NextPos(a), b) = Dist(a, b) - 1 /\ Dist(a, b) \in 1 .. N - 1
  <2>1. Dist(a, b) \in Slots /\ Dist(a, b) # 0
    BY DistType
  <2>2. Dist(NextPos(a), b) = Dist(a, b) - 1
    BY DistShrinks
  <2> QED BY <2>1, <2>2, NAssumption DEF Slots
<1>3. s \in Seq(M) /\ Len(s) = Dist(a, b)
      /\ \A i \in 1 .. Dist(a, b) : s[i] = mItems[Ahead(a, i)]
  BY ContentsSeq
<1>4. t \in Seq(M) /\ Len(t) = Dist(a, b) - 1
      /\ \A i \in 1 .. Dist(a, b) - 1 : t[i] = mItems[Ahead(NextPos(a), i)]
  BY <1>1, <1>2, ContentsSeq
<1>5. \A i \in 1 .. Dist(a, b) - 1 : t[i] = s[i + 1]
  <2> TAKE i \in 1 .. Dist(a, b) - 1
  <2>1. Ahead(NextPos(a), i) = Ahead(a, i + 1)
    BY <1>2, AheadShift, NAssumption
  <2> QED BY <2>1, <1>2, <1>3, <1>4
<1>6. s[1] = mItems[NextPos(a)]
  BY <1>2, <1>3, AheadShift, NAssumption
<1> HIDE DEF s, t
<1>7. s # << >> /\ Head(s) = s[1]
  BY <1>2, <1>3
<1>8. t = Tail(s)
  <2>1. Tail(s) \in Seq(M) /\ Len(Tail(s)) = Dist(a, b) - 1
        /\ \A i \in 1 .. Dist(a, b) - 1 : Tail(s)[i] = s[i + 1]
    BY <1>2, <1>3, <1>7
  <2> QED BY <1>2, <1>4, <1>5, <2>1
<1> QED BY <1>6, <1>7, <1>8 DEF s, t

(* Moving the far cursor onto a free slot appends that slot's message.       *)
LEMMA ContentsAppend ==
  ASSUME NEW a \in Slots, NEW b \in Slots, NextPos(b) # a, NEW M,
         mItems \in [Slots -> M]
  PROVE  Contents(a, NextPos(b)) = Append(Contents(a, b), mItems[NextPos(b)])
<1> DEFINE s == Contents(a, b)
           t == Contents(a, NextPos(b))
           n == Dist(a, b)
<1>1. NextPos(b) \in Slots /\ mItems[NextPos(b)] \in M
  BY NextPosType
<1>2. Dist(a, NextPos(b)) = n + 1 /\ n \in 0 .. N - 2
  <2>1. Dist(a, NextPos(b)) \in Slots /\ n \in Slots
    BY <1>1, DistType
  <2>2. Dist(a, NextPos(b)) = n + 1
    BY DistGrows
  <2> QED BY <2>1, <2>2, NAssumption DEF Slots
<1>3. s \in Seq(M) /\ Len(s) = n /\ \A i \in 1 .. n : s[i] = mItems[Ahead(a, i)]
  BY ContentsSeq
<1>4. t \in Seq(M) /\ Len(t) = n + 1
      /\ \A i \in 1 .. n + 1 : t[i] = mItems[Ahead(a, i)]
  BY <1>1, <1>2, ContentsSeq
<1>5. Ahead(a, n + 1) = NextPos(b)
  BY <1>1, <1>2, AheadArrives
<1> HIDE DEF s, t, n
<1>6. Append(s, mItems[NextPos(b)]) \in Seq(M)
      /\ Len(Append(s, mItems[NextPos(b)])) = n + 1
      /\ Append(s, mItems[NextPos(b)])[n + 1] = mItems[NextPos(b)]
      /\ \A i \in 1 .. n : Append(s, mItems[NextPos(b)])[i] = s[i]
  BY <1>1, <1>2, <1>3
<1>7. t = Append(s, mItems[NextPos(b)])
  <2>1. \A i \in 1 .. n + 1 : t[i] = Append(s, mItems[NextPos(b)])[i]
    <3> TAKE i \in 1 .. n + 1
    <3>1. CASE i = n + 1
      BY <3>1, <1>2, <1>4, <1>5, <1>6
    <3>2. CASE i # n + 1
      <4>1. i \in 1 .. n
        BY <3>2, <1>2
      <4> QED BY <4>1, <1>3, <1>4, <1>6
    <3> QED BY <3>1, <3>2
  <2> QED BY <2>1, <1>2, <1>4, <1>6
<1> QED BY <1>7 DEF s, t

(* The initial state is the empty queue.                                     *)
LEMMA InitRefines == Init => Queue!Init
<1> SUFFICES ASSUME Init PROVE Contents(0, 0) = << >>
  BY DEF Init, Queue!Init
<1>1. Dist(0, 0) = 0
  BY DEF Dist
<1> QED BY <1>1 DEF Contents

(* Publishing is Put, reclaiming is Reclaim, finishing an item is            *)
(* PerformHead; every other step leaves the queue as it was.                 *)
LEMMA StepRefines == RInv /\ [Next]_vars => [Queue!Next]_Queue!qvars
<1> DEFINE M == Msg \cup {NoMsg}
           pending == Contents(mReadHead, mWriteHead)
           spent == Contents(mFreeHead, mReadHead)
<1> SUFFICES ASSUME RInv, [Next]_vars
             PROVE  Queue!Next \/ (pending' = pending /\ spent' = spent)
  BY DEF Queue!qvars
<1>t. /\ mReadHead \in Slots /\ mWriteHead \in Slots /\ mFreeHead \in Slots
      /\ mItems \in [Slots -> M]
  BY DEF RInv, IInv, TypeOK
<1>d. /\ Dist(mFreeHead, mReadHead) \in 0 .. N - 1
      /\ Dist(mReadHead, mWriteHead) \in 0 .. N - 1
      /\ Dist(mFreeHead, mWriteHead) \in 0 .. N - 1
  BY <1>t, DistType DEF Slots
<1>sum. Dist(mFreeHead, mReadHead) + Dist(mReadHead, mWriteHead)
          = Dist(mFreeHead, mWriteHead)
  BY <1>t, NAssumption DEF RInv, IInv, CursorsInOrder, Dist, Slots
<1>len. Len(pending) = Dist(mReadHead, mWriteHead) /\ Len(spent) = Dist(mFreeHead, mReadHead)
  BY <1>t, ContentsSeq
<1>1. CASE \E p \in Producers : FreeItem(p)
  <2>1. mFreeHead # mReadHead /\ mFreeHead' = NextPos(mFreeHead)
        /\ UNCHANGED <<mReadHead, mWriteHead, mItems>>
    BY <1>1 DEF FreeItem, NeedsFree
  <2>2. spent # << >> /\ Contents(NextPos(mFreeHead), mReadHead) = Tail(spent)
    BY <1>t, <2>1, ContentsTail
  <2>3. spent' = Contents(NextPos(mFreeHead), mReadHead) /\ pending' = pending
    BY <2>1 DEF Contents
  <2>4. Queue!Reclaim
    BY <2>2, <2>3 DEF Queue!Reclaim
  <2> QED BY <2>4 DEF Queue!Next
<1>2. CASE \E p \in Producers : WriteStore(p)
  <2>1. PICK p \in Producers : WriteStore(p)
    BY <1>2
  <2>2. /\ \A s \in Slots : s # NextPos(mWriteHead) => mItems'[s] = mItems[s]
        /\ UNCHANGED <<mReadHead, mWriteHead, mFreeHead>>
        /\ NextPos(mWriteHead) # mFreeHead
    BY <2>1, <1>t DEF WriteStore, IsFull, cursors
  <2>3. Dist(mFreeHead, NextPos(mWriteHead)) = Dist(mFreeHead, mWriteHead) + 1
    BY <1>t, <2>2, DistGrows
  <2>4. NextPos(mWriteHead) \in Slots
    BY <1>t, NextPosType
  <2>5. \A i \in 1 .. Dist(mFreeHead, mReadHead) :
           mItems'[Ahead(mFreeHead, i)] = mItems[Ahead(mFreeHead, i)]
    <3> TAKE i \in 1 .. Dist(mFreeHead, mReadHead)
    <3>1. i \in 1 .. N - 1 /\ i <= Dist(mFreeHead, mWriteHead)
      BY <1>d, <1>sum, NAssumption
    <3>2. Ahead(mFreeHead, i) \in Slots /\ Dist(mFreeHead, Ahead(mFreeHead, i)) = i
      BY <1>t, <3>1, AheadArrives
    <3>3. Ahead(mFreeHead, i) # NextPos(mWriteHead)
      BY <3>1, <3>2, <2>3, <1>d
    <3> QED BY <2>2, <3>2, <3>3
  <2>6. \A i \in 1 .. Dist(mReadHead, mWriteHead) :
           mItems'[Ahead(mReadHead, i)] = mItems[Ahead(mReadHead, i)]
    <3> TAKE i \in 1 .. Dist(mReadHead, mWriteHead)
    <3>1. i \in 1 .. N - 1 /\ i <= Dist(mReadHead, mWriteHead)
      BY <1>d, NAssumption
    <3>2. Ahead(mReadHead, i) \in Slots /\ Dist(mReadHead, Ahead(mReadHead, i)) = i
      BY <1>t, <3>1, AheadArrives
    <3>3. CASE NextPos(mWriteHead) = mReadHead
      <4>1. Dist(mReadHead, mReadHead) = 0
        BY <1>t, DistType
      <4> QED BY <2>2, <3>1, <3>2, <3>3, <4>1
    <3>4. CASE NextPos(mWriteHead) # mReadHead
      <4>1. Dist(mReadHead, NextPos(mWriteHead)) = Dist(mReadHead, mWriteHead) + 1
        BY <1>t, <3>4, DistGrows
      <4>2. Ahead(mReadHead, i) # NextPos(mWriteHead)
        BY <3>1, <3>2, <4>1, <1>d
      <4> QED BY <2>2, <3>2, <4>2
    <3> QED BY <3>3, <3>4
  <2>7. pending' = pending /\ spent' = spent
    BY <2>2, <2>5, <2>6 DEF Contents
  <2> QED BY <2>7
<1>3. CASE \E p \in Producers : WritePublish(p)
  <2>1. PICK p \in Producers : WritePublish(p)
    BY <1>3
  <2>2. /\ NextPos(mWriteHead) # mFreeHead
        /\ mItems[NextPos(mWriteHead)] \in Msg
    BY <2>1 DEF WritePublish, Goto, RInv, IInv, PublishingHasRoom, PublishingStored, IsFull
  <2>3. mWriteHead' = NextPos(mWriteHead) /\ UNCHANGED <<mReadHead, mFreeHead, mItems>>
    BY <2>1 DEF WritePublish
  <2>4. Dist(mFreeHead, NextPos(mWriteHead)) = Dist(mFreeHead, mWriteHead) + 1
    BY <1>t, <2>2, DistGrows
  <2>5. NextPos(mWriteHead) \in Slots /\ Dist(mFreeHead, NextPos(mWriteHead)) \in Slots
    BY <1>t, NextPosType, DistType
  <2>6. Len(pending) + Len(spent) < N - 1
    BY <1>d, <1>sum, <1>len, <2>4, <2>5, NAssumption DEF Slots
  <2>7. NextPos(mWriteHead) # mReadHead
    \* the read cursor is no further than the write cursor
    BY <1>d, <1>sum, <2>4
  <2>8. Contents(mReadHead, NextPos(mWriteHead)) = Append(pending, mItems[NextPos(mWriteHead)])
    BY <1>t, <2>7, ContentsAppend
  <2>9. pending' = Contents(mReadHead, NextPos(mWriteHead)) /\ spent' = spent
    BY <2>3 DEF Contents
  <2>10. Queue!Put(mItems[NextPos(mWriteHead)])
    BY <2>6, <2>8, <2>9 DEF Queue!Put
  <2> QED BY <2>2, <2>10 DEF Queue!Next
<1>4. CASE PerformEnd
  <2>1. mReadHead # mWriteHead /\ mReadHead' = NextPos(mReadHead)
        /\ UNCHANGED <<mWriteHead, mFreeHead, mItems>>
    BY <1>4 DEF PerformEnd, RInv, IInv, PerformingHasData, HasData
  <2>2. pending # << >> /\ Contents(NextPos(mReadHead), mWriteHead) = Tail(pending)
        /\ Head(pending) = mItems[NextPos(mReadHead)]
    BY <1>t, <2>1, ContentsTail
  <2>3. NextPos(mReadHead) # mFreeHead
    <3>1. SUFFICES ASSUME NextPos(mReadHead) = mFreeHead PROVE FALSE
      OBVIOUS
    <3>2. Dist(mFreeHead, mReadHead) = N - 1
      BY <1>t, <3>1, NAssumption DEF NextPos, Dist, Slots
    <3>3. Dist(mReadHead, mWriteHead) # 0
      BY <1>t, <2>1, DistType
    <3> QED BY <1>d, <1>sum, <3>2, <3>3
  <2>4. Contents(mFreeHead, NextPos(mReadHead)) = Append(spent, mItems[NextPos(mReadHead)])
    BY <1>t, <2>3, ContentsAppend
  <2>5. /\ pending' = Contents(NextPos(mReadHead), mWriteHead)
        /\ spent' = Contents(mFreeHead, NextPos(mReadHead))
    BY <2>1 DEF Contents
  <2>6. Queue!PerformHead
    BY <2>2, <2>4, <2>5 DEF Queue!PerformHead
  <2> QED BY <2>6 DEF Queue!Next
<1>5. CASE \/ \E p \in Producers : Acquire(p) \/ FreeDone(p) \/ WriteRefused(p)
           \/ PerformBegin
           \/ UNCHANGED vars
  <2>1. UNCHANGED <<mReadHead, mWriteHead, mFreeHead, mItems>>
    BY <1>5 DEF Acquire, FreeDone, WriteRefused, PerformBegin, cursors, vars
  <2> QED BY <2>1 DEF Contents
<1> QED
  BY <1>1, <1>2, <1>3, <1>4, <1>5 DEF Next, Produce, Consume

(* For every N, the ring buffer performs the accepted messages in order,     *)
(* each once, and gives each back only afterwards.                           *)
THEOREM Refinement == Spec => ImplementsQueue
<1>1. Init => RInv
  BY InitIInv DEF Init, RInv, PublishingStored
<1> QED BY <1>1, NextRInv, InitRefines, StepRefines, PTL DEF Spec, ImplementsQueue

-----------------------------------------------------------------------------
(* From the end of DriverStop on there is no callback any more.            *)
Stopped == main \in {"clear", "count", "signal", "join", "cleaned"} => callback = "stopped"

(* The thread leaves its loop when it finds the flag cleared, which        *)
(* ~SC_AudioDriver does, and it is joined before World_Cleanup goes on.    *)
Ended ==
    /\ thread = "ended" => ~mRunThreadFlag
    /\ ~mRunThreadFlag => main \in {"count", "signal", "join", "cleaned"}
    /\ main = "cleaned" => thread = "ended"

DriverInv == Stopped /\ Ended

LEMMA DriverInvariance == DriverSpec => []DriverInv
<1>1. DriverInit => DriverInv
  BY DEF DriverInit, DriverInv, Stopped, Ended
<1>2. DriverInv /\ [DriverNext]_driverVars => DriverInv'
  <2> SUFFICES ASSUME DriverInv, [DriverNext]_driverVars PROVE DriverInv'
    OBVIOUS
  <2> USE DEF DriverInv, Stopped, Ended
  <2>1. CASE AudioThread
    BY <2>1 DEF AudioThread, Callback, CallbackCounts, CallbackSignals, CondSignal
  <2>2. CASE NRTThread
    BY <2>2 DEF NRTThread, LoopTest, Enter, Test, CondWait, Perform, Thread
  <2>3. CASE SpuriousWakeup
    BY <2>3 DEF SpuriousWakeup, Thread
  <2>4. CASE MainThread
    BY <2>4 DEF MainThread, WaitForQuit, DriverStop, ClearFlag, MainCounts, MainSignals, Join,
                Main, CondSignal
  <2>5. CASE UNCHANGED driverVars
    BY <2>5 DEF driverVars
  <2> QED BY <2>1, <2>2, <2>3, <2>4, <2>5 DEF DriverNext
<1> QED BY <1>1, <1>2, PTL DEF DriverSpec

(* mAudioSync.Signal is called by one thread at a time: by the audio       *)
(* callback, and by ~SC_AudioDriver when the driver has stopped.           *)
THEOREM SignalledByOne == DriverSpec => []OneSignaller
<1>1. DriverInv => OneSignaller
  BY DEF DriverInv, Stopped, OneSignaller
<1> QED BY <1>1, DriverInvariance, PTL

(* World_Cleanup goes on to free the world only when neither the callback  *)
(* nor the non-real-time thread can use it any more, and the thread does   *)
(* not end before ~SC_AudioDriver has told it to.                          *)
NobodyLeft ==
    /\ main = "cleaned" => thread = "ended" /\ callback = "stopped"
    /\ thread = "ended" => main \notin {"run", "stopping", "clear"}

THEOREM CleanedUpAlone == DriverSpec => []NobodyLeft
<1>1. DriverInv => NobodyLeft
  BY DEF DriverInv, Stopped, Ended, NobodyLeft
<1> QED BY <1>1, DriverInvariance, PTL
=============================================================================
