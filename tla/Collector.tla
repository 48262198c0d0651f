----------------------------- MODULE Collector ------------------------------
(***************************************************************************)
(* The incremental garbage collector of the language (PyrGC).  Objects are *)
(* white (not reached yet), grey (reached, to be scanned) or black         *)
(* (scanned).  The collector works a little at a time, inside calls that   *)
(* allocate; in between the interpreter changes objects, and a write       *)
(* barrier greys what it stores into a black one.  The stack of the        *)
(* running thread is black and has no barrier: it is scanned before a      *)
(* flip, which makes the white objects free and starts the next cycle.     *)
(*                                                                         *)
(* Colours are relative to mBlackColor, mWhiteColor and mGreyColor, which  *)
(* a major flip advances; the treadmill lists are left out but for the set *)
(* of objects behind mFree, whose colour is stale after a minor flip.      *)
(* Frames are left out: they are scanned together with the stack.  The     *)
(* threads are held by the process for good.  How much one call scans is   *)
(* left open: the interpreter may go on after any step of the collector.   *)
(***************************************************************************)
EXTENDS Integers

CONSTANTS
    Arrays,       \* the objects that come and go
    Size,         \* their slots
    Depth,        \* the slots of a stack
    Threads, Main, Stacks, StackOf(_), \* each thread has a stack
    Process,      \* the root
    Nil,
    Removable,    \* bound: where elements are removed from arrays
    MinorFlips    \* minor flips after each major one (3)

Objects == Arrays \cup Threads \cup Stacks \cup {Process}
Slots(o) == IF o \in Arrays THEN 1 .. Size
            ELSE IF o \in Stacks THEN 1 .. Depth
            ELSE IF o \in Threads THEN {1}   \* PyrThread::stack, nil while it runs
            ELSE Threads                     \* the process holds the threads

ASSUME KindsAssumption ==
    /\ Arrays \cap (Threads \cup Stacks \cup {Process}) = {}
    /\ Threads \cap (Stacks \cup {Process}) = {}
    /\ Process \notin Stacks /\ Nil \notin Objects /\ Main \in Threads
ASSUME StackAssumption ==
    /\ Stacks = {StackOf(t) : t \in Threads}
    /\ \A t, u \in Threads : StackOf(t) = StackOf(u) => t = u
ASSUME SizeAssumption == Size \in Nat /\ Depth \in Nat /\ MinorFlips \in Nat
ASSUME RemovableAssumption == Removable \subseteq 1 .. Size

VARIABLES
    slots,        \* of every object
    color,        \* "white", "grey", "black", or "free" when it was made free
    freeList,     \* the objects from mFree on, or not allocated yet
    current,      \* g->thread; mStack is its stack
    partial,      \* mPartialScanObj, or Nil
    scanned,      \* mPartialScanSlot: the first so many slots are scanned
    stackScanned, \* nothing but the collector has run since ScanStack
    flips,        \* mFlips, as far as it matters
    doomed        \* history: what nothing could reach at the last major flip

collector == <<partial, scanned, stackScanned, flips, doomed>>
vars == <<slots, color, freeList, current, collector>>

mStack == StackOf(current)
Grey == {o \in Objects \ freeList : color[o] = "grey"}
Live == Objects \ freeList

----------------------------------------------------------------------------
\* GCWrite: nothing is stored into a black object that the collector could miss
\* (faulty variant: no barrier)
GCWriteNothing(c, parent, child) == c
GCWrite(c, parent, child) ==
    IF child # Nil /\ c[parent] = "black" /\ c[child] = "white"
    THEN [c EXCEPT ![child] = "grey"] ELSE c

\* ScanSlots
Scan(c, children) ==
    [o \in Objects |-> IF o \in children /\ c[o] = "white" THEN "grey" ELSE c[o]]
Children(o) == {slots[o][k] : k \in Slots(o)} \ {Nil}
Between(o, from, upTo) == {slots[o][k] : k \in from + 1 .. upTo} \ {Nil}

Init ==
    /\ slots = [o \in Objects |-> [k \in Slots(o) |->
                   IF o = Process THEN k
                   ELSE IF o \in Threads \ {Main} THEN StackOf(o) ELSE Nil]]
    /\ color = [o \in Objects |-> IF o = Process THEN "grey"
                                  ELSE IF o = StackOf(Main) THEN "black"
                                  ELSE IF o \in Arrays THEN "free" ELSE "white"]
    /\ freeList = Arrays
    /\ current = Main
    /\ partial = Nil /\ scanned = 0
    /\ stackScanned = FALSE /\ flips = 0 /\ doomed = {}

----------------------------------------------------------------------------
\* The interpreter.  It knows objects through the slots of its stack, which it
\* overwrites as it likes.

\* New, after the collection it may begin with; the new object is on the stack.
New(o, i) ==
    /\ o \in freeList
    /\ freeList' = freeList \ {o}
    /\ color' = [color EXCEPT ![o] = "white"]
    /\ slots' = [slots EXCEPT ![o] = [k \in 1 .. Size |-> Nil], ![mStack][i] = o]
    /\ stackScanned' = FALSE
    /\ UNCHANGED <<current, partial, scanned, flips, doomed>>

\* a slot of an array is pushed
Load(i, j, k) ==
    LET o == slots[mStack][j] IN
    /\ o \in Arrays
    /\ slots' = [slots EXCEPT ![mStack][i] = slots[o][k]]
    /\ stackScanned' = FALSE
    /\ UNCHANGED <<color, freeList, current, partial, scanned, flips, doomed>>

Pop(i) ==
    /\ slots' = [slots EXCEPT ![mStack][i] = Nil]
    /\ stackScanned' = FALSE
    /\ UNCHANGED <<color, freeList, current, partial, scanned, flips, doomed>>

\* a slot of an array is assigned, with the barrier (putIndexedSlot)
Store(i, j, k) ==
    LET o == slots[mStack][j] IN
    /\ o \in Arrays
    /\ slots' = [slots EXCEPT ![o][k] = slots[mStack][i]]
    /\ color' = GCWrite(color, o, slots[mStack][i])
    /\ stackScanned' = FALSE
    /\ UNCHANGED <<freeList, current, partial, scanned, flips, doomed>>

\* basicRemoveAt: the element is returned on the stack and those behind it move
\* down; the barrier is for the one that is then at index, and no other.
RemoveAt(j, index) ==
    LET o == slots[mStack][j]
        moved == [k \in 1 .. Size |-> IF k < index THEN slots[o][k]
                                      ELSE IF k < Size THEN slots[o][k + 1] ELSE Nil]
    IN /\ o \in Arrays
       /\ slots' = [slots EXCEPT ![o] = moved, ![mStack][j] = slots[o][index]]
       /\ color' = GCWrite(color, o, moved[index])
       /\ stackScanned' = FALSE
       /\ UNCHANGED <<freeList, current, partial, scanned, flips, doomed>>

\* switchToThread: the stack left behind becomes white, or grey if the thread it
\* now belongs to is black; the other stack becomes black and is scanned before
\* the next flip.
SwitchTo(t) ==
    LET whitened == [color EXCEPT ![mStack] = "white"]
        barred == GCWrite(GCWrite(whitened, current, mStack), Process, t)
    IN /\ t # current
       /\ color' = [barred EXCEPT ![StackOf(t)] = "black"]
       /\ slots' = [slots EXCEPT ![current] = [k \in {1} |-> mStack],
                                 ![t] = [k \in {1} |-> Nil]]
       /\ current' = t
       /\ stackScanned' = FALSE
       /\ UNCHANGED <<freeList, partial, scanned, flips, doomed>>

----------------------------------------------------------------------------
\* The collector

\* ScanOneObj: a grey object becomes black and is scanned ...
ScanOneObj(o) ==
    /\ partial = Nil /\ o \in Grey
    /\ color' = Scan([color EXCEPT ![o] = "black"], Children(o))
    /\ UNCHANGED <<slots, freeList, current, partial, scanned, stackScanned, flips, doomed>>

\* ... or, if it is large, its first slots only
BeginPartialScan(o, upTo) ==
    /\ partial = Nil /\ o \in Grey \cap Arrays
    /\ color' = Scan([color EXCEPT ![o] = "black"], Between(o, 0, upTo))
    /\ partial' = o
    /\ scanned' = upTo
    /\ UNCHANGED <<slots, freeList, current, stackScanned, flips, doomed>>

\* DoPartialScan
DoPartialScan(upTo) ==
    /\ partial # Nil /\ scanned < upTo
    /\ color' = Scan(color, Between(partial, scanned, upTo))
    /\ partial' = IF upTo = Size THEN Nil ELSE partial
    /\ scanned' = IF upTo = Size THEN 0 ELSE upTo
    /\ UNCHANGED <<slots, freeList, current, stackScanned, flips, doomed>>

\* ScanStack and ScanFrames
ScanStack ==
    /\ partial = Nil /\ Grey = {} /\ ~stackScanned
    /\ color' = Scan(color, Children(mStack))
    /\ stackScanned' = TRUE
    /\ UNCHANGED <<slots, freeList, current, partial, scanned, flips, doomed>>

\* The objects that can be reached from the process and the stack.
Closed(S) ==
    /\ Process \in S /\ mStack \in S
    /\ \A o \in S \cap Objects : \A k \in Slots(o) : slots[o][k] \in S \cup {Nil}
Unreachable == {o \in Objects : \E S \in SUBSET Objects : Closed(S) /\ o \notin S}

\* MajorFlip: the white objects join the free ones, and the black ones become
\* white; MinorFlip leaves those black.
\* (faulty variant: a major flip is like a minor one)
AllFlipsMinor(o) == color[o]
Flipped(o) ==
    IF flips # 0 THEN color[o]
    ELSE IF color[o] = "black" THEN "white" ELSE "free"

\* Flip, in the call that has scanned the stack and found nothing grey since
Flip ==
    /\ partial = Nil /\ Grey = {} /\ stackScanned
    /\ freeList' = freeList \cup {o \in Live : color[o] = "white"}
    /\ color' = [o \in Objects |-> IF o = Process THEN "grey"
                                   ELSE IF o = mStack THEN "black" ELSE Flipped(o)]
    /\ flips' = IF flips = MinorFlips THEN 0 ELSE flips + 1
    /\ doomed' = IF flips = 0 THEN Unreachable \ freeList' ELSE {}
    /\ stackScanned' = FALSE
    /\ UNCHANGED <<slots, current, partial, scanned>>

Interpreter ==
    \/ \E o \in Arrays, i \in 1 .. Depth : New(o, i)
    \/ \E i, j \in 1 .. Depth, k \in 1 .. Size : Load(i, j, k) \/ Store(i, j, k)
    \/ \E i \in 1 .. Depth : Pop(i)
    \/ \E j \in 1 .. Depth, index \in Removable : RemoveAt(j, index)
    \/ \E t \in Threads : SwitchTo(t)

Collection ==
    \/ \E o \in Grey : ScanOneObj(o)
    \/ \E o \in Grey, upTo \in 1 .. Size - 1 : BeginPartialScan(o, upTo)
    \/ \E upTo \in 1 .. Size : DoPartialScan(upTo)
    \/ ScanStack
    \/ Flip

Next == Interpreter \/ Collection

Spec == Init /\ [][Next]_vars

----------------------------------------------------------------------------
TypeOK ==
    /\ DOMAIN slots = Objects
    /\ \A o \in Objects : slots[o] \in [Slots(o) -> Objects \cup {Nil}]
    /\ color \in [Objects -> {"white", "grey", "black", "free"}]
    /\ freeList \subseteq Arrays
    /\ current \in Threads
    /\ partial \in Arrays \cup {Nil} /\ scanned \in 0 .. Size
    /\ stackScanned \in BOOLEAN /\ flips \in 0 .. MinorFlips

\* No object in use refers to one that has been made free, whatever the
\* interpreter stored and moved between the steps of the collector.
NoDangling ==
    \A o \in Live : \A k \in Slots(o) : slots[o][k] \notin freeList

\* BlackToWhiteCheck, the invariant the collector's own sanity check asserts: but
\* for the stack and what a partial scan has left, no black object refers to a
\* white one.
BlackToWhiteCheck ==
    \A o \in Live \ {mStack} : color[o] = "black" =>
        \A k \in Slots(o) :
            \/ slots[o][k] = Nil
            \/ o = partial /\ k > scanned
            \/ color[slots[o][k]] # "white"

\* What nothing can reach when a major flip begins a cycle is free at the end of
\* that cycle: barriers and thread switches keep no garbage alive.
GarbageIsFound == [][Flip => doomed \subseteq freeList']_vars
=============================================================================
