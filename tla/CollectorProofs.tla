--------------------------- MODULE CollectorProofs --------------------------
(***************************************************************************)
(* Proofs about Collector, for every set of objects, of language threads,  *)
(* every size of arrays and stacks and every number of minor flips: type   *)
(* correctness, the invariant of the collector's own sanity check, and     *)
(* that nothing in use is ever made free.                                  *)
(***************************************************************************)
EXTENDS Collector, TLAPS

(* Where references to each kind of object are: the process has the        *)
(* threads, a thread that does not run has its stack, and everything else  *)
(* refers to arrays only.                                                  *)
KindsKept ==
    /\ \A o \in Arrays \cup Stacks : \A k \in Slots(o) : slots[o][k] \in Arrays \cup {Nil}
    /\ \A t \in Threads : slots[t][1] = IF t = current THEN Nil ELSE StackOf(t)
    /\ \A t \in Threads : slots[Process][t] = t

(* The stack of the running thread is black, the process is never white,   *)
(* and what is live has not been made free.                                *)
RootsColored ==
    /\ color[mStack] = "black"
    /\ color[Process] # "white"
    /\ \A o \in Live : color[o] # "free"

(* A partial scan is of a black object that is live.                       *)
PartialLive == partial # Nil => partial \in Live /\ color[partial] = "black"

(* What ScanStack has found stays found until the interpreter goes on.     *)
StackSeen ==
    stackScanned => \A k \in Slots(mStack) :
                       slots[mStack][k] = Nil \/ color[slots[mStack][k]] # "white"

IInv == /\ TypeOK /\ KindsKept /\ RootsColored /\ PartialLive /\ StackSeen
        /\ NoDangling /\ BlackToWhiteCheck

(* removeAt is used at the last two positions only: further in front it    *)
(* moves slots the barrier does not look at.                               *)
LastTwo == Removable \subseteq {Size - 1, Size}

-----------------------------------------------------------------------------
(* The slots of each kind of object.                                       *)
LEMMA SlotsOf ==
    /\ \A o \in Arrays : Slots(o) = 1 .. Size
    /\ \A o \in Stacks : Slots(o) = 1 .. Depth
    /\ \A o \in Threads : Slots(o) = {1}
    /\ Slots(Process) = Threads
  BY KindsAssumption DEF Slots, Objects

(* The running thread's stack is one of the stacks.                        *)
LEMMA StackType == ASSUME NEW t \in Threads PROVE StackOf(t) \in Stacks /\ StackOf(t) \in Objects
  BY StackAssumption DEF Objects

(* The barrier greys white objects only, and afterwards a black parent     *)
(* does not refer to a white child.                                        *)
LEMMA Barrier ==
  ASSUME NEW c \in [Objects -> {"white", "grey", "black", "free"}],
         NEW parent \in Objects, NEW child \in Objects \cup {Nil}
  PROVE  /\ GCWrite(c, parent, child) \in [Objects -> {"white", "grey", "black", "free"}]
         /\ \A o \in Objects : GCWrite(c, parent, child)[o] = c[o]
                                \/ (c[o] = "white" /\ GCWrite(c, parent, child)[o] = "grey")
         /\ child # Nil /\ c[parent] = "black" => GCWrite(c, parent, child)[child] # "white"
  BY KindsAssumption DEF GCWrite

(* So does a scan of what it is given.                                     *)
LEMMA ScanGreys ==
  ASSUME NEW c \in [Objects -> {"white", "grey", "black", "free"}], NEW S
  PROVE  /\ Scan(c, S) \in [Objects -> {"white", "grey", "black", "free"}]
         /\ \A o \in Objects : Scan(c, S)[o] = c[o]
                                \/ (c[o] = "white" /\ Scan(c, S)[o] = "grey")
         /\ \A o \in Objects \cap S : Scan(c, S)[o] # "white"
  BY DEF Scan

-----------------------------------------------------------------------------
(* The collector starts with a sound heap.                                 *)
LEMMA InitInv == Init => IInv
  <1> SUFFICES ASSUME Init PROVE IInv
    OBVIOUS
  <1>1. Main \in Threads /\ StackOf(Main) \in Stacks
    BY KindsAssumption, StackType
  <1>2. TypeOK
    <2>1. \A o \in Objects : slots[o] \in [Slots(o) -> Objects \cup {Nil}]
      BY SlotsOf, StackType, KindsAssumption DEF Init, Objects
    <2>2. color \in [Objects -> {"white", "grey", "black", "free"}]
      BY DEF Init
    <2>3. DOMAIN slots = Objects /\ current \in Threads /\ freeList \subseteq Arrays
      BY <1>1 DEF Init
    <2>4. /\ partial \in Arrays \cup {Nil} /\ scanned \in 0 .. Size
          /\ stackScanned \in BOOLEAN /\ flips \in 0 .. MinorFlips
      <3>1. partial = Nil /\ scanned = 0 /\ stackScanned = FALSE /\ flips = 0
        BY DEF Init
      <3>2. stackScanned \in BOOLEAN
        BY <3>1
      <3>3. 0 \in 0 .. Size /\ 0 \in 0 .. MinorFlips
        BY SizeAssumption
      <3> QED BY <3>1, <3>2, <3>3
    <2> QED BY <2>1, <2>2, <2>3, <2>4 DEF TypeOK
  <1>3. KindsKept
    BY SlotsOf, KindsAssumption DEF Init, KindsKept, Objects
  <1>4. RootsColored
    BY <1>1, KindsAssumption DEF Init, RootsColored, Live, mStack, Objects
  <1>5. NoDangling
    BY SlotsOf, StackType, KindsAssumption DEF Init, NoDangling, Live, Objects
  <1>6. BlackToWhiteCheck
    BY KindsAssumption DEF Init, BlackToWhiteCheck, Live, mStack, Objects
  <1> QED BY <1>2, <1>3, <1>4, <1>5, <1>6 DEF IInv, Init, PartialLive, StackSeen

(* Allocation: the new object is white, empty and on the stack.            *)
LEMMA NewInv ==
  ASSUME IInv, NEW o \in Arrays, NEW i \in 1 .. Depth, New(o, i)
  PROVE  IInv'
  <1>1. /\ o \in freeList /\ o \in Objects /\ current' = current
        /\ current \in Threads /\ mStack \in Stacks /\ mStack \in Objects /\ mStack' = mStack
        /\ o # mStack /\ Process # mStack /\ Process # o /\ Process \in Objects
        /\ o \notin Stacks /\ o \notin Threads /\ mStack \notin Threads
        /\ Nil \notin Objects
    BY StackType, KindsAssumption DEF New, IInv, TypeOK, mStack, Objects
  <1>2. /\ DOMAIN slots' = Objects
        /\ slots'[mStack] = [slots[mStack] EXCEPT ![i] = o]
        /\ slots'[o] = [k \in 1 .. Size |-> Nil]
        /\ \A p \in Objects : p # o /\ p # mStack => slots'[p] = slots[p]
    BY <1>1 DEF New, IInv, TypeOK
  <1>3. slots[mStack] \in [1 .. Depth -> Objects \cup {Nil}]
    BY <1>1, SlotsOf DEF IInv, TypeOK
  <1>4. \A p \in Objects : slots'[p] \in [Slots(p) -> Objects \cup {Nil}]
    <2>1. slots'[mStack] \in [Slots(mStack) -> Objects \cup {Nil}]
      <3>1. [slots[mStack] EXCEPT ![i] = o] \in [1 .. Depth -> Objects \cup {Nil}]
        BY <1>1, <1>3
      <3> QED BY <3>1, <1>1, <1>2, SlotsOf
    <2>2. slots'[o] \in [Slots(o) -> Objects \cup {Nil}]
      BY <1>2, SlotsOf
    <2> QED BY <1>2, <2>1, <2>2 DEF IInv, TypeOK
  <1>5. \A p \in Objects : \A k \in Slots(p) :
          \/ p # o /\ slots'[p][k] = slots[p][k]
          \/ p = o /\ slots'[p][k] = Nil
          \/ p = mStack /\ slots'[p][k] = o
    <2>1. \A k \in Slots(o) : slots'[o][k] = Nil
      BY <1>2, SlotsOf
    <2>2. \A k \in Slots(mStack) : slots'[mStack][k] = slots[mStack][k] \/ slots'[mStack][k] = o
      BY <1>1, <1>2, <1>3, SlotsOf
    <2> QED BY <1>1, <1>2, <2>1, <2>2
  <1>6. /\ \A p \in Objects : color'[p] = IF p = o THEN "white" ELSE color[p]
        /\ color' \in [Objects -> {"white", "grey", "black", "free"}]
    <2>1. color' = [color EXCEPT ![o] = "white"] /\ o \in Objects
      BY <1>1 DEF New
    <2>2. color \in [Objects -> {"white", "grey", "black", "free"}]
      BY DEF IInv, TypeOK
    <2> QED BY <2>1, <2>2
  <1>7. Live' = Live \cup {o} /\ o \notin Live /\ freeList' = freeList \ {o}
    BY <1>1 DEF Live, New
  <1>8. TypeOK'
    BY <1>2, <1>4, <1>6 DEF New, IInv, TypeOK
  <1>9. KindsKept'
    <2>1. \A p \in Arrays \cup Stacks : \A k \in Slots(p) : slots'[p][k] \in Arrays \cup {Nil}
      BY <1>1, <1>5 DEF IInv, KindsKept, Objects
    <2>2. \A t \in Threads \cup {Process} : slots'[t] = slots[t]
      BY <1>1, <1>2 DEF Objects
    <2> QED BY <1>1, <2>1, <2>2 DEF IInv, KindsKept
  <1>10. RootsColored'
    BY <1>1, <1>6, <1>7 DEF IInv, RootsColored, Live
  <1>11. PartialLive'
    BY <1>1, <1>6, <1>7 DEF IInv, PartialLive, New, Live
  <1>12. NoDangling'
    BY <1>1, <1>5, <1>7 DEF IInv, NoDangling, Live, TypeOK, Objects
  <1>13. BlackToWhiteCheck'
    <2> SUFFICES ASSUME NEW p \in Live', p # mStack, color'[p] = "black", NEW k \in Slots(p)
                 PROVE  \/ slots'[p][k] = Nil
                        \/ p = partial /\ k > scanned
                        \/ color'[slots'[p][k]] # "white"
      BY <1>1 DEF BlackToWhiteCheck, New
    <2>1. p \in Objects /\ p \in Live /\ p # o /\ slots'[p][k] = slots[p][k] /\ color[p] = "black"
      BY <1>1, <1>5, <1>6, <1>7 DEF Live
    <2>2. slots[p][k] # o /\ slots[p][k] \in Objects \cup {Nil}
      BY <1>1, <2>1 DEF IInv, NoDangling, TypeOK
    <2> QED BY <2>1, <2>2, <1>6 DEF IInv, BlackToWhiteCheck
  <1> QED BY <1>8, <1>9, <1>10, <1>11, <1>12, <1>13 DEF IInv, StackSeen, New

(* A step that leaves objects where they are, stores references to live    *)
(* arrays only, greys at most, and leaves no black object that is done     *)
(* with a white reference, keeps the invariant.                            *)
LEMMA ChangeInv ==
  ASSUME IInv,
         UNCHANGED <<freeList, current, partial, scanned, flips>>, stackScanned' = FALSE,
         DOMAIN slots' = Objects,
         \A p \in Objects : slots'[p] \in [Slots(p) -> Objects \cup {Nil}],
         \A p \in Threads \cup {Process} : slots'[p] = slots[p],
         \A p \in Arrays \cup Stacks : \A k \in Slots(p) :
            slots'[p][k] = Nil \/ slots'[p][k] \in Arrays \ freeList \/ p \in freeList,
         \A p \in Arrays \cup Stacks : \A k \in Slots(p) : slots'[p][k] \in Arrays \cup {Nil},
         color' \in [Objects -> {"white", "grey", "black", "free"}],
         \A p \in Objects : color'[p] = color[p] \/ (color[p] = "white" /\ color'[p] = "grey"),
         \A p \in (Arrays \cup Stacks) \ {mStack} : p \in Live /\ color[p] = "black" =>
            \A k \in Slots(p) : \/ slots'[p][k] = Nil
                                \/ p = partial /\ k > scanned
                                \/ color'[slots'[p][k]] # "white"
  PROVE  IInv'
  <1>1. mStack' = mStack /\ Live' = Live /\ current \in Threads /\ mStack \in Objects
        /\ Process \in Objects
    BY StackType DEF mStack, Live, IInv, TypeOK, Objects
  <1>2. TypeOK'
    BY DEF IInv, TypeOK
  <1>3. KindsKept'
    BY DEF IInv, KindsKept
  <1>4. RootsColored'
    BY <1>1 DEF IInv, RootsColored, Live
  <1>5. PartialLive'
    BY <1>1 DEF IInv, PartialLive, Live
  <1>6. NoDangling'
    <2> SUFFICES ASSUME NEW p \in Live, NEW k \in Slots(p) PROVE slots'[p][k] \notin freeList
      BY <1>1 DEF NoDangling
    <2>1. CASE p \in Threads \cup {Process}
      BY <2>1 DEF IInv, NoDangling
    <2>2. CASE p \in Arrays \cup Stacks
      BY <2>2, KindsAssumption DEF Live, IInv, TypeOK, Objects
    <2> QED BY <2>1, <2>2 DEF Live, Objects
  <1>7. BlackToWhiteCheck'
    <2> SUFFICES ASSUME NEW p \in Live, p # mStack, color'[p] = "black", NEW k \in Slots(p)
                 PROVE  \/ slots'[p][k] = Nil
                        \/ p = partial /\ k > scanned
                        \/ color'[slots'[p][k]] # "white"
      BY <1>1 DEF BlackToWhiteCheck
    <2>1. p \in Objects /\ color[p] = "black"
      BY DEF Live
    <2>2. CASE p \in Threads \cup {Process}
      <3>1. slots'[p][k] = slots[p][k] /\ slots[p][k] \in Objects \cup {Nil}
        BY <2>1, <2>2 DEF IInv, TypeOK
      <3> QED BY <2>1, <3>1 DEF IInv, BlackToWhiteCheck
    <2>3. CASE p \in Arrays \cup Stacks
      BY <2>1, <2>3
    <2> QED BY <2>1, <2>2, <2>3 DEF Objects
  <1> QED BY <1>2, <1>3, <1>4, <1>5, <1>6, <1>7 DEF IInv, StackSeen

(* A step of the collector that greys and blackens only.                   *)
LEMMA ScanInv ==
  ASSUME IInv,
         UNCHANGED <<slots, freeList, current, flips>>,
         partial' \in Arrays \cup {Nil}, scanned' \in 0 .. Size, stackScanned' \in BOOLEAN,
         color' \in [Objects -> {"white", "grey", "black", "free"}],
         \A p \in Objects : \/ color'[p] = color[p]
                            \/ color[p] = "white" /\ color'[p] = "grey"
                            \/ color[p] = "grey" /\ color'[p] = "black",
         partial' # Nil => partial' \in Live /\ color'[partial'] = "black",
         stackScanned' => \A k \in Slots(mStack) :
            slots[mStack][k] = Nil \/ color'[slots[mStack][k]] # "white",
         \A p \in Live \ {mStack} : color'[p] = "black" =>
            \A k \in Slots(p) : \/ slots[p][k] = Nil
                                \/ p = partial' /\ k > scanned'
                                \/ color'[slots[p][k]] # "white"
  PROVE  IInv'
  <1>1. mStack' = mStack /\ Live' = Live /\ current \in Threads /\ mStack \in Objects
        /\ Process \in Objects
    BY StackType DEF mStack, Live, IInv, TypeOK, Objects
  <1>2. TypeOK'
    BY DEF IInv, TypeOK
  <1>3. KindsKept'
    BY DEF IInv, KindsKept
  <1>4. RootsColored'
    BY <1>1 DEF IInv, RootsColored, Live
  <1>5. PartialLive'
    BY <1>1 DEF PartialLive
  <1>6. NoDangling'
    BY <1>1 DEF IInv, NoDangling
  <1>7. BlackToWhiteCheck'
    BY <1>1 DEF BlackToWhiteCheck
  <1>8. StackSeen'
    BY <1>1 DEF StackSeen
  <1> QED BY <1>2, <1>3, <1>4, <1>5, <1>6, <1>7, <1>8 DEF IInv

-----------------------------------------------------------------------------
(* The actions of the interpreter.                                         *)

(* A live array's slots, and those of the stack, refer to live arrays.     *)
LEMMA RefsLive ==
  ASSUME IInv, NEW p \in Arrays \cup Stacks, p \in Live, NEW k \in Slots(p)
  PROVE  slots[p][k] = Nil \/ slots[p][k] \in Arrays \ freeList
  BY DEF IInv, KindsKept, NoDangling

(* The facts about the running stack that the actions use.                 *)
LEMMA RunningStack ==
  ASSUME IInv
  PROVE  /\ current \in Threads /\ mStack \in Stacks /\ mStack \in Live /\ mStack \in Objects
         /\ mStack \notin Arrays /\ mStack \notin Threads /\ mStack # Process
         /\ Slots(mStack) = 1 .. Depth
         /\ slots[mStack] \in [1 .. Depth -> Objects \cup {Nil}]
         /\ \A o \in Arrays : /\ Slots(o) = 1 .. Size /\ o \notin Threads /\ o # Process
                              /\ slots[o] \in [1 .. Size -> Objects \cup {Nil}]
         /\ \A j \in 1 .. Depth : slots[mStack][j] # Nil => slots[mStack][j] \in Arrays \ freeList
  <1>1. /\ current \in Threads /\ mStack \in Stacks /\ mStack \in Objects /\ mStack \in Live
        /\ mStack \notin Arrays /\ mStack \notin Threads /\ mStack # Process
    BY StackType, KindsAssumption DEF IInv, TypeOK, mStack, Live, Objects
  <1>2. /\ Slots(mStack) = 1 .. Depth
        /\ slots[mStack] \in [1 .. Depth -> Objects \cup {Nil}]
    BY <1>1, SlotsOf DEF IInv, TypeOK
  <1>3. \A o \in Arrays : /\ Slots(o) = 1 .. Size /\ o \notin Threads /\ o # Process
                          /\ slots[o] \in [1 .. Size -> Objects \cup {Nil}]
    BY SlotsOf, KindsAssumption DEF IInv, TypeOK, Objects
  <1>4. \A j \in 1 .. Depth : slots[mStack][j] # Nil => slots[mStack][j] \in Arrays \ freeList
    BY <1>1, <1>2, RefsLive
  <1> QED BY <1>1, <1>2, <1>3, <1>4

(* A push, or any other step that only overwrites a slot of the stack with *)
(* a live array or nil.                                                    *)
LEMMA PushInv ==
  ASSUME IInv, NEW i \in 1 .. Depth, NEW v \in (Arrays \ freeList) \cup {Nil},
         slots' = [slots EXCEPT ![mStack][i] = v], stackScanned' = FALSE,
         UNCHANGED <<color, freeList, current, partial, scanned, flips>>
  PROVE  IInv'
  <1>1. /\ DOMAIN slots' = Objects
        /\ slots'[mStack] = [slots[mStack] EXCEPT ![i] = v]
        /\ \A p \in Objects : p # mStack => slots'[p] = slots[p]
    BY RunningStack DEF IInv, TypeOK
  <1>2. [slots[mStack] EXCEPT ![i] = v] \in [1 .. Depth -> Objects \cup {Nil}]
    BY RunningStack DEF Objects
  <1>3. \A k \in Slots(mStack) : slots'[mStack][k] = slots[mStack][k] \/ slots'[mStack][k] = v
    BY <1>1, RunningStack
  <1>4. \A p \in Objects : slots'[p] \in [Slots(p) -> Objects \cup {Nil}]
    BY <1>1, <1>2, RunningStack DEF IInv, TypeOK
  <1>5. \A p \in Threads \cup {Process} : slots'[p] = slots[p]
    BY <1>1, RunningStack DEF Objects
  <1>6. \A p \in Arrays \cup Stacks : \A k \in Slots(p) :
          /\ slots'[p][k] = Nil \/ slots'[p][k] \in Arrays \ freeList \/ p \in freeList
          /\ slots'[p][k] \in Arrays \cup {Nil}
    <2> SUFFICES ASSUME NEW p \in Arrays \cup Stacks, NEW k \in Slots(p)
                 PROVE  /\ slots'[p][k] = Nil \/ slots'[p][k] \in Arrays \ freeList \/ p \in freeList
                        /\ slots'[p][k] \in Arrays \cup {Nil}
      OBVIOUS
    <2>1. p \in Objects /\ (p \notin freeList => p \in Live)
      BY DEF Objects, Live
    <2>2. slots[p][k] \in Arrays \cup {Nil}
      BY DEF IInv, KindsKept
    <2> QED BY <1>1, <1>3, <2>1, <2>2, RefsLive
  <1>7. \A p \in (Arrays \cup Stacks) \ {mStack} : p \in Live /\ color[p] = "black" =>
            \A k \in Slots(p) : \/ slots'[p][k] = Nil
                                \/ p = partial /\ k > scanned
                                \/ color'[slots'[p][k]] # "white"
    BY <1>1 DEF IInv, BlackToWhiteCheck, Live
  <1>8. color \in [Objects -> {"white", "grey", "black", "free"}]
    BY DEF IInv, TypeOK
  <1> QED BY <1>1, <1>4, <1>5, <1>6, <1>7, <1>8, ChangeInv

(* A change of a live array's slots, with a barrier for what is new in it. *)
LEMMA AssignInv ==
  ASSUME IInv, NEW o \in Arrays \ freeList, NEW f \in [1 .. Size -> (Arrays \ freeList) \cup {Nil}],
         NEW j \in 1 .. Depth, NEW w \in (Arrays \ freeList) \cup {Nil},
         NEW v \in (Arrays \ freeList) \cup {Nil},
         \A k \in 1 .. Size : f[k] = v \/ f[k] = Nil \/ f[k] = slots[o][k],
         slots' = [slots EXCEPT ![o] = f, ![mStack][j] = w],
         color' = GCWrite(color, o, v), stackScanned' = FALSE,
         UNCHANGED <<freeList, current, partial, scanned, flips>>
  PROVE  IInv'
  <1>1. /\ DOMAIN slots' = Objects /\ o \in Objects /\ o # mStack
        /\ slots'[mStack] = [slots[mStack] EXCEPT ![j] = w]
        /\ slots'[o] = f
        /\ \A p \in Objects : p # mStack /\ p # o => slots'[p] = slots[p]
    BY RunningStack DEF IInv, TypeOK, Objects
  <1>2. /\ [slots[mStack] EXCEPT ![j] = w] \in [1 .. Depth -> Objects \cup {Nil}]
        /\ f \in [Slots(o) -> Objects \cup {Nil}]
    BY RunningStack DEF Objects
  <1>3. \A k \in Slots(mStack) : slots'[mStack][k] = slots[mStack][k] \/ slots'[mStack][k] = w
    BY <1>1, RunningStack
  <1>4. \A p \in Objects : slots'[p] \in [Slots(p) -> Objects \cup {Nil}]
    BY <1>1, <1>2, RunningStack DEF IInv, TypeOK
  <1>5. \A p \in Threads \cup {Process} : slots'[p] = slots[p]
    BY <1>1, RunningStack DEF Objects
  <1>6. \A p \in Arrays \cup Stacks : \A k \in Slots(p) :
          /\ slots'[p][k] = Nil \/ slots'[p][k] \in Arrays \ freeList \/ p \in freeList
          /\ slots'[p][k] \in Arrays \cup {Nil}
    <2> SUFFICES ASSUME NEW p \in Arrays \cup Stacks, NEW k \in Slots(p)
                 PROVE  /\ slots'[p][k] = Nil \/ slots'[p][k] \in Arrays \ freeList \/ p \in freeList
                        /\ slots'[p][k] \in Arrays \cup {Nil}
      OBVIOUS
    <2>1. p \in Objects /\ (p \notin freeList => p \in Live)
      BY DEF Objects, Live
    <2>2. slots[p][k] \in Arrays \cup {Nil}
      BY DEF IInv, KindsKept
    <2>3. p = o => slots'[p][k] \in (Arrays \ freeList) \cup {Nil}
      <3> SUFFICES ASSUME p = o PROVE slots'[p][k] \in (Arrays \ freeList) \cup {Nil}
        OBVIOUS
      <3>1. k \in 1 .. Size
        BY RunningStack
      <3>2. slots'[p][k] = f[k]
        BY <1>1
      <3> QED BY <3>1, <3>2
    <2> QED BY <1>1, <1>3, <2>1, <2>2, <2>3, RefsLive
  <1>7. /\ color' \in [Objects -> {"white", "grey", "black", "free"}]
        /\ \A p \in Objects : color'[p] = color[p] \/ (color[p] = "white" /\ color'[p] = "grey")
        /\ v # Nil /\ color[o] = "black" => color'[v] # "white"
    <2>1. color \in [Objects -> {"white", "grey", "black", "free"}]
      BY DEF IInv, TypeOK
    <2>2. v \in Objects \cup {Nil}
      BY DEF Objects
    <2> QED BY <1>1, <2>1, <2>2, Barrier
  <1>8. \A p \in (Arrays \cup Stacks) \ {mStack} : p \in Live /\ color[p] = "black" =>
            \A k \in Slots(p) : \/ slots'[p][k] = Nil
                                \/ p = partial /\ k > scanned
                                \/ color'[slots'[p][k]] # "white"
    <2> SUFFICES ASSUME NEW p \in (Arrays \cup Stacks) \ {mStack}, p \in Live, color[p] = "black",
                        NEW k \in Slots(p)
                 PROVE  \/ slots'[p][k] = Nil
                        \/ p = partial /\ k > scanned
                        \/ color'[slots'[p][k]] # "white"
      OBVIOUS
    <2>1. /\ p \in Objects /\ slots[p][k] \in Objects \cup {Nil}
          /\ \/ slots[p][k] = Nil
             \/ p = partial /\ k > scanned
             \/ color[slots[p][k]] # "white"
      BY DEF IInv, TypeOK, BlackToWhiteCheck, Live
    <2>2. \/ slots'[p][k] = slots[p][k] \/ slots'[p][k] = Nil \/ (p = o /\ slots'[p][k] = v)
      <3>1. CASE p = o
        <4>1. k \in 1 .. Size /\ slots'[p][k] = f[k]
          BY <1>1, <3>1, RunningStack
        <4> QED BY <3>1, <4>1
      <3>2. CASE p # o
        BY <1>1, <2>1, <3>2
      <3> QED BY <3>1, <3>2
    <2>3. CASE slots'[p][k] = slots[p][k]
      BY <1>7, <2>1, <2>3
    <2>4. CASE p = o /\ slots'[p][k] = v
      BY <1>7, <2>4
    <2> QED BY <2>2, <2>3, <2>4
  <1> QED BY ZenonT(60), <1>1, <1>4, <1>5, <1>6, <1>7, <1>8, ChangeInv

(* Load, Pop, Store and RemoveAt.                                          *)
LEMMA LoadInv ==
  ASSUME IInv, NEW i \in 1 .. Depth, NEW j \in 1 .. Depth, NEW k \in 1 .. Size, Load(i, j, k)
  PROVE  IInv'
  <1> DEFINE o == slots[mStack][j]
             v == slots[o][k]
  <1>1. o \in Arrays \ freeList
    BY RunningStack, KindsAssumption DEF Load, Objects
  <1>2. v \in (Arrays \ freeList) \cup {Nil}
    BY <1>1, RunningStack, RefsLive DEF Live, Objects
  <1>3. /\ slots' = [slots EXCEPT ![mStack][i] = v] /\ stackScanned' = FALSE
        /\ UNCHANGED <<color, freeList, current, partial, scanned, flips>>
    BY DEF Load
  <1> HIDE DEF o, v
  <1> QED BY <1>2, <1>3, PushInv

LEMMA PopInv ==
  ASSUME IInv, NEW i \in 1 .. Depth, Pop(i)
  PROVE  IInv'
  BY PushInv DEF Pop

LEMMA StoreInv ==
  ASSUME IInv, NEW i \in 1 .. Depth, NEW j \in 1 .. Depth, NEW k \in 1 .. Size, Store(i, j, k)
  PROVE  IInv'
  <1> DEFINE o == slots[mStack][j]
             v == slots[mStack][i]
             f == [slots[o] EXCEPT ![k] = v]
  <1>1. o \in Arrays \ freeList /\ v \in (Arrays \ freeList) \cup {Nil}
    BY RunningStack, KindsAssumption DEF Store, Objects
  <1>2. /\ slots[o] \in [1 .. Size -> Objects \cup {Nil}]
        /\ \A n \in 1 .. Size : slots[o][n] \in (Arrays \ freeList) \cup {Nil}
    BY <1>1, RunningStack, RefsLive DEF Live, Objects
  <1>3. /\ f \in [1 .. Size -> (Arrays \ freeList) \cup {Nil}]
        /\ \A n \in 1 .. Size : f[n] = v \/ f[n] = slots[o][n]
    BY <1>1, <1>2
  <1>4. slots' = [slots EXCEPT ![o] = f, ![mStack][j] = o]
    <2>1. slots' = [slots EXCEPT ![o] = f]
      BY DEF Store
    <2>2. /\ DOMAIN slots = Objects /\ mStack \in Objects /\ o # mStack
          /\ slots[mStack] = [slots[mStack] EXCEPT ![j] = o]
      BY <1>1, RunningStack DEF IInv, TypeOK
    <2> QED BY <2>1, <2>2
  <1>5. /\ color' = GCWrite(color, o, v) /\ stackScanned' = FALSE
        /\ UNCHANGED <<freeList, current, partial, scanned, flips>>
    BY DEF Store
  <1> HIDE DEF o, v, f
  <1> QED BY <1>1, <1>3, <1>4, <1>5, AssignInv

LEMMA RemoveAtInv ==
  ASSUME IInv, LastTwo, NEW j \in 1 .. Depth, NEW index \in Removable, RemoveAt(j, index)
  PROVE  IInv'
  <1> DEFINE o == slots[mStack][j]
             f == [k \in 1 .. Size |-> IF k < index THEN slots[o][k]
                                       ELSE IF k < Size THEN slots[o][k + 1] ELSE Nil]
             v == f[index]
             w == slots[o][index]
  <1>1. o \in Arrays \ freeList
    BY RunningStack, KindsAssumption DEF RemoveAt, Objects
  <1>2. \A n \in 1 .. Size : slots[o][n] \in (Arrays \ freeList) \cup {Nil}
    BY <1>1, RunningStack, RefsLive DEF Live, Objects
  <1>3. index \in 1 .. Size /\ index \in {Size - 1, Size} /\ Size \in Nat
    BY RemovableAssumption, SizeAssumption DEF LastTwo
  <1>4. f \in [1 .. Size -> (Arrays \ freeList) \cup {Nil}]
    <2> SUFFICES ASSUME NEW k \in 1 .. Size PROVE f[k] \in (Arrays \ freeList) \cup {Nil}
      OBVIOUS
    <2>1. k < Size => k + 1 \in 1 .. Size
      BY <1>3
    <2> QED BY <1>2, <2>1
  <1>5. \A k \in 1 .. Size : f[k] = v \/ f[k] = Nil \/ f[k] = slots[o][k]
    <2> TAKE k \in 1 .. Size
    <2>1. k < index \/ k = index \/ (~(k < index) /\ ~(k < Size))
      BY <1>3
    <2>2. CASE k < index
      BY <2>2
    <2>3. CASE k = index
      BY <2>3
    <2>4. CASE ~(k < index) /\ ~(k < Size)
      BY <2>4
    <2> QED BY <2>1, <2>2, <2>3, <2>4
  <1>6. /\ slots' = [slots EXCEPT ![o] = f, ![mStack][j] = w]
        /\ color' = GCWrite(color, o, v) /\ stackScanned' = FALSE
        /\ UNCHANGED <<freeList, current, partial, scanned, flips>>
    BY DEF RemoveAt
  <1>7. v \in (Arrays \ freeList) \cup {Nil} /\ w \in (Arrays \ freeList) \cup {Nil}
    BY <1>2, <1>3, <1>4
  <1> HIDE DEF o, f, v, w
  <1> QED BY <1>1, <1>4, <1>5, <1>6, <1>7, AssignInv

(* switchToThread: the stack that is left becomes white, grey if its       *)
(* thread is black, and the other one black.                               *)
LEMMA SwitchInv ==
  ASSUME IInv, NEW t \in Threads, SwitchTo(t)
  PROVE  IInv'
  <1> DEFINE c0 == [color EXCEPT ![mStack] = "white"]
             c1 == GCWrite(c0, current, mStack)
             c2 == GCWrite(c1, Process, t)
             new == StackOf(t)
             Colors == [Objects -> {"white", "grey", "black", "free"}]
  <1>1. /\ t # current /\ t \in Objects /\ current \in Objects /\ Process \in Objects
        /\ current \in Threads /\ mStack \in Stacks /\ mStack \in Objects /\ mStack # new
        /\ new \in Stacks /\ new \in Objects
        /\ mStack \notin Threads /\ mStack # Process /\ t # Process /\ current # Process
        /\ new \notin Threads /\ new # Process /\ new \notin Arrays /\ mStack \notin Arrays
        /\ Arrays \cap Threads = {} /\ Process \notin Arrays /\ Process \notin Threads
        /\ Nil \notin Objects
    BY RunningStack, StackType, StackAssumption, KindsAssumption DEF SwitchTo, Objects, mStack
  <1>2. /\ slots' = [slots EXCEPT ![current] = [k \in {1} |-> mStack], ![t] = [k \in {1} |-> Nil]]
        /\ color' = [c2 EXCEPT ![new] = "black"]
        /\ current' = t /\ stackScanned' = FALSE
        /\ UNCHANGED <<freeList, partial, scanned, flips>>
    BY DEF SwitchTo
  <1>3. mStack' = new /\ Live' = Live
    BY <1>2 DEF mStack, Live
  <1>4. c0 \in Colors /\ \A p \in Objects : c0[p] = IF p = mStack THEN "white" ELSE color[p]
    BY <1>1 DEF IInv, TypeOK
  <1>5. /\ c1 \in Colors
        /\ \A p \in Objects : c1[p] = c0[p] \/ (c0[p] = "white" /\ c1[p] = "grey")
        /\ c0[current] = "black" => c1[mStack] # "white"
    <2> HIDE DEF c0
    <2> QED BY <1>1, <1>4, Barrier
  <1>6. /\ c2 \in Colors
        /\ \A p \in Objects : c2[p] = c1[p] \/ (c1[p] = "white" /\ c2[p] = "grey")
        /\ c1[Process] = "black" => c2[t] # "white"
    <2> HIDE DEF c1
    <2> QED BY <1>1, <1>5, Barrier
  <1> HIDE DEF c0, c1, c2
  <1>7. /\ color' \in Colors
        /\ color'[new] = "black"
        /\ \A p \in Objects \ {new} : color'[p] = c2[p]
    BY <1>1, <1>2, <1>6
  <1>8. \A p \in Objects \ {mStack, new} :
           color'[p] = color[p] \/ (color[p] = "white" /\ color'[p] = "grey")
    BY <1>4, <1>5, <1>6, <1>7
  <1>9. color'[mStack] \in {"white", "grey"}
    BY <1>1, <1>4, <1>5, <1>6, <1>7
  <1>10. color'[current] = "black" => color'[mStack] # "white"
    BY <1>1, <1>4, <1>5, <1>6, <1>7
  <1>11. color'[Process] = "black" => color'[t] # "white"
    BY <1>1, <1>4, <1>5, <1>6, <1>7
  <1>12. \A p \in Objects \ {mStack, new} : color[p] # "white" => color'[p] # "white"
    BY <1>8
  <1>13. /\ DOMAIN slots' = Objects
         /\ slots'[t] = [k \in {1} |-> Nil]
         /\ slots'[current] = [k \in {1} |-> mStack]
         /\ \A p \in Objects \ {t, current} : slots'[p] = slots[p]
    BY <1>1, <1>2 DEF IInv, TypeOK
  <1>14. /\ Slots(t) = {1} /\ Slots(current) = {1} /\ Slots(Process) = Threads
         /\ \A u \in Threads : Slots(u) = {1}
    BY <1>1, SlotsOf
  <1>15. TypeOK'
    <2>1. \A p \in Objects : slots'[p] \in [Slots(p) -> Objects \cup {Nil}]
      BY <1>1, <1>13, <1>14 DEF IInv, TypeOK
    <2> QED BY <1>2, <1>7, <1>13, <2>1 DEF IInv, TypeOK
  <1>16. KindsKept'
    <2>1. \A u \in Threads : slots'[u][1] = IF u = t THEN Nil ELSE StackOf(u)
      <3> TAKE u \in Threads
      <3>1. CASE u = t
        BY <1>13, <3>1
      <3>2. CASE u = current
        BY <1>1, <1>13, <3>2 DEF mStack
      <3>3. CASE u # t /\ u # current
        BY <1>13, <3>3 DEF IInv, KindsKept, Objects
      <3> QED BY <3>1, <3>2, <3>3
    <2>2. \A p \in Arrays \cup Stacks \cup {Process} : slots'[p] = slots[p]
      BY <1>1, <1>13, KindsAssumption DEF Objects
    <2> QED BY <1>2, <2>1, <2>2 DEF IInv, KindsKept
  <1>17. RootsColored'
    <2>1. Process \in Live /\ \A o \in Live : o \in Objects
      BY <1>1 DEF Live, IInv, TypeOK
    <2>2. \A o \in Live : color'[o] # "free"
      BY <1>7, <1>8, <1>9, <2>1 DEF IInv, RootsColored
    <2>3. color'[Process] # "white"
      BY <1>1, <1>12 DEF IInv, RootsColored
    <2> QED BY <1>3, <1>7, <2>2, <2>3 DEF RootsColored
  <1>18. PartialLive'
    <2>1. partial # Nil => /\ partial \in Live /\ color[partial] = "black"
                           /\ partial \in Objects \ {mStack, new}
      BY <1>1 DEF IInv, PartialLive, TypeOK, Live
    <2> QED BY <1>2, <1>3, <1>8, <2>1 DEF PartialLive
  <1>19. NoDangling'
    <2> SUFFICES ASSUME NEW p \in Live, NEW k \in Slots(p) PROVE slots'[p][k] \notin freeList
      BY <1>2, <1>3 DEF NoDangling
    <2>1. p \in Objects /\ mStack \notin freeList /\ Nil \notin freeList
      BY <1>1 DEF Live, IInv, TypeOK, Objects
    <2>2. CASE p = t \/ p = current
      BY <1>13, <1>14, <2>1, <2>2
    <2>3. CASE p # t /\ p # current
      BY <1>13, <2>1, <2>3 DEF IInv, NoDangling
    <2> QED BY <2>2, <2>3
  <1>20. BlackToWhiteCheck'
    <2> SUFFICES ASSUME NEW p \in Live, p # new, color'[p] = "black", NEW k \in Slots(p)
                 PROVE  \/ slots'[p][k] = Nil
                        \/ p = partial /\ k > scanned
                        \/ color'[slots'[p][k]] # "white"
      BY <1>2, <1>3 DEF BlackToWhiteCheck
    <2>1. p \in Objects \ {mStack, new} /\ color[p] = "black"
      BY <1>8, <1>9 DEF Live
    <2>2. CASE p = t
      BY <1>13, <1>14, <2>2
    <2>3. CASE p = current
      BY <1>10, <1>13, <1>14, <2>3
    <2>4. CASE p \in Threads \ {t, current}
      <3>1. k = 1 /\ slots'[p][k] = StackOf(p) /\ slots[p][k] = StackOf(p)
        BY <1>13, <1>14, <2>1, <2>4 DEF IInv, KindsKept
      <3>2. StackOf(p) \in Objects \ {mStack, new} /\ StackOf(p) # Nil
        BY <1>1, <2>4, StackType, StackAssumption DEF mStack
      <3>3. p # partial
        BY <1>1, <2>4 DEF IInv, TypeOK, Objects
      <3>4. color[StackOf(p)] # "white"
        BY <2>1, <3>1, <3>2, <3>3 DEF IInv, BlackToWhiteCheck
      <3> QED BY <1>12, <3>1, <3>2, <3>4
    <2>5. CASE p = Process
      <3>1. k \in Threads /\ slots'[p][k] = k /\ slots[p][k] = k
        BY <1>1, <1>13, <1>14, <2>5 DEF IInv, KindsKept
      <3>2. k \in Objects \ {mStack, new} /\ k # Nil /\ p # partial
        BY <1>1, <2>5, <3>1 DEF Objects, IInv, TypeOK
      <3>3. color[k] # "white"
        BY <2>1, <3>1, <3>2 DEF IInv, BlackToWhiteCheck
      <3> QED BY <1>12, <3>1, <3>2, <3>3
    <2>6. CASE p \in Arrays \cup Stacks
      <3>1. p \notin Threads /\ slots'[p] = slots[p]
        BY <1>1, <1>13, <2>1, <2>6, KindsAssumption
      <3>2. slots[p][k] \in Arrays \cup {Nil}
        BY <2>6 DEF IInv, KindsKept
      <3>3. slots[p][k] # Nil => slots[p][k] \in Objects \ {mStack, new}
        BY <1>1, <3>2 DEF Objects
      <3>4. \/ slots[p][k] = Nil
            \/ p = partial /\ k > scanned
            \/ color[slots[p][k]] # "white"
        BY <2>1 DEF IInv, BlackToWhiteCheck
      <3> QED BY <1>12, <3>1, <3>3, <3>4
    <2> QED BY <2>1, <2>2, <2>3, <2>4, <2>5, <2>6 DEF Objects
  <1> QED BY <1>2, <1>15, <1>16, <1>17, <1>18, <1>19, <1>20 DEF IInv, StackSeen

-----------------------------------------------------------------------------
(* The steps of the collector.                                             *)

(* Making a grey object black and scanning some of its slots.              *)
LEMMA BlackenAndScan ==
  ASSUME IInv, NEW o \in Grey, NEW S \in SUBSET Objects,
         color' = Scan([color EXCEPT ![o] = "black"], S)
  PROVE  /\ color' \in [Objects -> {"white", "grey", "black", "free"}]
         /\ color'[o] = "black"
         /\ \A p \in Objects : \/ color'[p] = color[p]
                               \/ color[p] = "white" /\ color'[p] = "grey"
                               \/ color[p] = "grey" /\ color'[p] = "black"
         /\ \A p \in Objects : color'[p] = "black" => p = o \/ color[p] = "black"
         /\ \A p \in S : color'[p] # "white"
  <1> DEFINE b == [color EXCEPT ![o] = "black"]
  <1>1. o \in Objects /\ color[o] = "grey"
    BY DEF Grey
  <1>2. /\ b \in [Objects -> {"white", "grey", "black", "free"}]
        /\ \A p \in Objects : b[p] = IF p = o THEN "black" ELSE color[p]
    BY <1>1 DEF IInv, TypeOK
  <1>a. color' = Scan(b, S)
    OBVIOUS
  <1> HIDE DEF b
  <1>3. /\ color' \in [Objects -> {"white", "grey", "black", "free"}]
        /\ \A p \in Objects : color'[p] = b[p] \/ (b[p] = "white" /\ color'[p] = "grey")
        /\ \A p \in S : color'[p] # "white"
    <2>1. b \in [Objects -> {"white", "grey", "black", "free"}]
      BY <1>2
    <2>2. /\ Scan(b, S) \in [Objects -> {"white", "grey", "black", "free"}]
          /\ \A p \in Objects : Scan(b, S)[p] = b[p]
                                 \/ (b[p] = "white" /\ Scan(b, S)[p] = "grey")
          /\ \A p \in Objects \cap S : Scan(b, S)[p] # "white"
      BY <2>1, ScanGreys
    <2> QED BY <1>a, <2>2
  <1>4. color'[o] = "black"
    BY <1>1, <1>2, <1>3
  <1>5. \A p \in Objects \ {o} : color'[p] = color[p] \/ (color[p] = "white" /\ color'[p] = "grey")
    BY <1>2, <1>3
  <1>6. /\ \A p \in Objects : \/ color'[p] = color[p]
                              \/ color[p] = "white" /\ color'[p] = "grey"
                              \/ color[p] = "grey" /\ color'[p] = "black"
        /\ \A p \in Objects : color'[p] = "black" => p = o \/ color[p] = "black"
    <2>1. \A p \in Objects : p = o \/ p \in Objects \ {o}
      OBVIOUS
    <2> QED BY <1>1, <1>4, <1>5, <2>1
  <1> QED BY <1>3, <1>4, <1>6

(* References are to objects, so what is scanned are objects.              *)
LEMMA ChildrenAreObjects ==
  ASSUME IInv, NEW o \in Objects
  PROVE  /\ Children(o) \subseteq Objects
         /\ \A k \in Slots(o) : slots[o][k] = Nil \/ slots[o][k] \in Children(o)
  BY DEF IInv, TypeOK, Children

LEMMA ScanOneObjInv ==
  ASSUME IInv, NEW o \in Grey, ScanOneObj(o)
  PROVE  IInv'
  <1>1. /\ color' = Scan([color EXCEPT ![o] = "black"], Children(o))
        /\ partial = Nil /\ o \in Objects /\ o \in Live
        /\ UNCHANGED <<slots, freeList, current, partial, scanned, stackScanned, flips>>
    BY DEF ScanOneObj, Grey, Live
  <1>2. /\ color' \in [Objects -> {"white", "grey", "black", "free"}]
        /\ \A p \in Objects : \/ color'[p] = color[p]
                              \/ color[p] = "white" /\ color'[p] = "grey"
                              \/ color[p] = "grey" /\ color'[p] = "black"
        /\ \A p \in Objects : color'[p] = "black" => p = o \/ color[p] = "black"
        /\ \A p \in Children(o) : color'[p] # "white"
    <2>1. Children(o) \in SUBSET Objects
      BY <1>1, ChildrenAreObjects
    <2> QED BY <1>1, <2>1, BlackenAndScan
  <1>3. \A p \in Objects : color[p] # "white" => color'[p] # "white"
    BY <1>2
  <1>4. \A p \in Live \ {mStack} : color'[p] = "black" =>
            \A k \in Slots(p) : slots[p][k] = Nil \/ color'[slots[p][k]] # "white"
    <2> SUFFICES ASSUME NEW p \in Live \ {mStack}, color'[p] = "black", NEW k \in Slots(p)
                 PROVE  slots[p][k] = Nil \/ color'[slots[p][k]] # "white"
      OBVIOUS
    <2>1. p \in Objects /\ slots[p][k] \in Objects \cup {Nil} /\ p # Nil
      BY KindsAssumption DEF Live, IInv, TypeOK
    <2>2. CASE p = o
      BY <1>2, <2>1, <2>2, ChildrenAreObjects
    <2>3. CASE color[p] = "black"
      <3>1. slots[p][k] = Nil \/ color[slots[p][k]] # "white"
        BY <1>1, <2>1, <2>3 DEF IInv, BlackToWhiteCheck
      <3> QED BY <1>3, <2>1, <3>1
    <2> QED BY <1>2, <2>1, <2>2, <2>3
  <1>5. stackScanned => \A k \in Slots(mStack) :
            slots[mStack][k] = Nil \/ color'[slots[mStack][k]] # "white"
    BY <1>3, RunningStack DEF IInv, StackSeen
  <1>6. partial \in Arrays \cup {Nil} /\ scanned \in 0 .. Size /\ stackScanned \in BOOLEAN
    BY DEF IInv, TypeOK
  <1> QED BY <1>1, <1>2, <1>4, <1>5, <1>6, ScanInv

LEMMA BeginPartialScanInv ==
  ASSUME IInv, NEW o \in Grey, NEW upTo \in 1 .. Size - 1, BeginPartialScan(o, upTo)
  PROVE  IInv'
  <1>1. /\ color' = Scan([color EXCEPT ![o] = "black"], Between(o, 0, upTo))
        /\ partial = Nil /\ partial' = o /\ scanned' = upTo
        /\ o \in Objects /\ o \in Live /\ o \in Arrays
        /\ UNCHANGED <<slots, freeList, current, stackScanned, flips>>
    BY DEF BeginPartialScan, Grey, Live
  <1>2. /\ upTo \in 0 .. Size
        /\ \A k \in Slots(o) : k > upTo \/ k \in 0 + 1 .. upTo
        /\ 0 + 1 .. upTo \subseteq Slots(o)
    BY <1>1, SlotsOf, SizeAssumption
  <1>3. /\ Between(o, 0, upTo) \subseteq Objects
        /\ \A k \in Slots(o) : k > upTo \/ slots[o][k] = Nil \/ slots[o][k] \in Between(o, 0, upTo)
    BY <1>1, <1>2 DEF Between, IInv, TypeOK
  <1>4. /\ color' \in [Objects -> {"white", "grey", "black", "free"}]
        /\ color'[o] = "black"
        /\ \A p \in Objects : \/ color'[p] = color[p]
                              \/ color[p] = "white" /\ color'[p] = "grey"
                              \/ color[p] = "grey" /\ color'[p] = "black"
        /\ \A p \in Objects : color'[p] = "black" => p = o \/ color[p] = "black"
        /\ \A p \in Between(o, 0, upTo) : color'[p] # "white"
    <2>1. Between(o, 0, upTo) \in SUBSET Objects
      BY <1>3
    <2> QED BY <1>1, <2>1, BlackenAndScan
  <1>5. \A p \in Objects : color[p] # "white" => color'[p] # "white"
    BY <1>4
  <1>6. \A p \in Live \ {mStack} : color'[p] = "black" =>
            \A k \in Slots(p) : \/ slots[p][k] = Nil
                                \/ p = partial' /\ k > scanned'
                                \/ color'[slots[p][k]] # "white"
    <2> SUFFICES ASSUME NEW p \in Live \ {mStack}, color'[p] = "black", NEW k \in Slots(p)
                 PROVE  \/ slots[p][k] = Nil
                        \/ p = partial' /\ k > scanned'
                        \/ color'[slots[p][k]] # "white"
      OBVIOUS
    <2>1. p \in Objects /\ slots[p][k] \in Objects \cup {Nil} /\ p # Nil
      BY KindsAssumption DEF Live, IInv, TypeOK
    <2>2. CASE p = o
      BY <1>1, <1>3, <1>4, <2>2
    <2>3. CASE color[p] = "black"
      <3>1. slots[p][k] = Nil \/ color[slots[p][k]] # "white"
        BY <1>1, <2>1, <2>3 DEF IInv, BlackToWhiteCheck
      <3> QED BY <1>5, <2>1, <3>1
    <2> QED BY <1>4, <2>1, <2>2, <2>3
  <1>7. stackScanned => \A k \in Slots(mStack) :
            slots[mStack][k] = Nil \/ color'[slots[mStack][k]] # "white"
    BY <1>5, RunningStack DEF IInv, StackSeen
  <1>8. stackScanned \in BOOLEAN
    BY DEF IInv, TypeOK
  <1> QED BY <1>1, <1>2, <1>4, <1>6, <1>7, <1>8, ScanInv

LEMMA DoPartialScanInv ==
  ASSUME IInv, NEW upTo \in 1 .. Size, DoPartialScan(upTo)
  PROVE  IInv'
  <1> DEFINE S == Between(partial, scanned, upTo)
  <1>1. /\ color' = Scan(color, S) /\ scanned < upTo
        /\ partial' = IF upTo = Size THEN Nil ELSE partial
        /\ scanned' = IF upTo = Size THEN 0 ELSE upTo
        /\ UNCHANGED <<slots, freeList, current, stackScanned, flips>>
    BY DEF DoPartialScan
  <1>2. /\ partial \in Arrays /\ partial \in Live /\ color[partial] = "black"
        /\ partial \in Objects /\ Slots(partial) = 1 .. Size /\ partial # Nil
        /\ scanned \in Nat
    BY SlotsOf, SizeAssumption DEF DoPartialScan, IInv, TypeOK, PartialLive, Live
  <1>3. /\ \A k \in Slots(partial) : k > scanned => k > upTo \/ k \in scanned + 1 .. upTo
        /\ scanned + 1 .. upTo \subseteq Slots(partial)
        /\ \A k \in Slots(partial) : k > upTo => upTo # Size
        /\ partial' \in Arrays \cup {Nil} /\ scanned' \in 0 .. Size
    BY <1>1, <1>2, SizeAssumption
  <1>4. /\ S \subseteq Objects
        /\ \A k \in Slots(partial) : k > scanned =>
              k > upTo \/ slots[partial][k] = Nil \/ slots[partial][k] \in S
    BY ZenonT(60), <1>2, <1>3 DEF Between, IInv, TypeOK
  <1> HIDE DEF S
  <1>5. /\ color' \in [Objects -> {"white", "grey", "black", "free"}]
        /\ \A p \in Objects : color'[p] = color[p] \/ (color[p] = "white" /\ color'[p] = "grey")
        /\ \A p \in S : color'[p] # "white"
    BY <1>1, <1>4, ScanGreys DEF IInv, TypeOK
  <1>6. \A p \in Objects : color[p] # "white" => color'[p] # "white"
    BY <1>5
  <1>7. \A p \in Live \ {mStack} : color'[p] = "black" =>
            \A k \in Slots(p) : \/ slots[p][k] = Nil
                                \/ p = partial' /\ k > scanned'
                                \/ color'[slots[p][k]] # "white"
    <2> SUFFICES ASSUME NEW p \in Live \ {mStack}, color'[p] = "black", NEW k \in Slots(p)
                 PROVE  \/ slots[p][k] = Nil
                        \/ p = partial' /\ k > scanned'
                        \/ color'[slots[p][k]] # "white"
      OBVIOUS
    <2>1. p \in Objects /\ slots[p][k] \in Objects \cup {Nil} /\ color[p] = "black"
      BY <1>5 DEF Live, IInv, TypeOK
    <2>2. \/ slots[p][k] = Nil
          \/ p = partial /\ k > scanned
          \/ color[slots[p][k]] # "white"
      BY <2>1 DEF IInv, BlackToWhiteCheck
    <2>3. CASE p = partial /\ k > scanned
      <3>1. CASE k > upTo
        BY <1>1, <1>3, <2>3, <3>1
      <3>2. CASE slots[p][k] = Nil \/ slots[p][k] \in S
        BY <1>5, <3>2
      <3> QED BY <1>4, <2>3, <3>1, <3>2
    <2> QED BY <1>6, <2>1, <2>2, <2>3
  <1>8. stackScanned => \A k \in Slots(mStack) :
            slots[mStack][k] = Nil \/ color'[slots[mStack][k]] # "white"
    BY <1>6, RunningStack DEF IInv, StackSeen
  <1>9. stackScanned' \in BOOLEAN /\ color'[partial] = "black"
    BY <1>1, <1>2, <1>5 DEF IInv, TypeOK
  <1>10. partial' # Nil => partial' \in Live /\ color'[partial'] = "black"
    BY <1>1, <1>2, <1>9
  <1> QED BY <1>1, <1>3, <1>5, <1>7, <1>8, <1>9, <1>10, ScanInv

LEMMA ScanStackInv ==
  ASSUME IInv, ScanStack
  PROVE  IInv'
  <1>1. /\ color' = Scan(color, Children(mStack))
        /\ partial = Nil /\ stackScanned' = TRUE
        /\ UNCHANGED <<slots, freeList, current, partial, scanned, flips>>
    BY DEF ScanStack
  <1>2. /\ color' \in [Objects -> {"white", "grey", "black", "free"}]
        /\ \A p \in Objects : color'[p] = color[p] \/ (color[p] = "white" /\ color'[p] = "grey")
        /\ \A p \in Children(mStack) : color'[p] # "white"
    <2>1. Children(mStack) \subseteq Objects
      BY RunningStack, ChildrenAreObjects
    <2>2. color \in [Objects -> {"white", "grey", "black", "free"}]
      BY DEF IInv, TypeOK
    <2> QED BY <1>1, <2>1, <2>2, ScanGreys
  <1>3. \A k \in Slots(mStack) : slots[mStack][k] = Nil \/ color'[slots[mStack][k]] # "white"
    BY <1>2, RunningStack, ChildrenAreObjects
  <1>4. \A p \in Live \ {mStack} : color'[p] = "black" =>
            \A k \in Slots(p) : slots[p][k] = Nil \/ color'[slots[p][k]] # "white"
    <2> SUFFICES ASSUME NEW p \in Live \ {mStack}, color'[p] = "black", NEW k \in Slots(p)
                 PROVE  slots[p][k] = Nil \/ color'[slots[p][k]] # "white"
      OBVIOUS
    <2>1. p \in Objects /\ slots[p][k] \in Objects \cup {Nil} /\ color[p] = "black" /\ p # Nil
      BY <1>2, KindsAssumption DEF Live, IInv, TypeOK
    <2>2. slots[p][k] = Nil \/ color[slots[p][k]] # "white"
      BY <1>1, <2>1 DEF IInv, BlackToWhiteCheck
    <2> QED BY <1>2, <2>1, <2>2
  <1>5. partial \in Arrays \cup {Nil} /\ scanned \in 0 .. Size
    BY DEF IInv, TypeOK
  <1> QED BY <1>1, <1>2, <1>3, <1>4, <1>5, ScanInv

(* A flip frees white objects only.  By then nothing is grey, so what is   *)
(* live and not white is black and has been scanned, the stack with it.    *)
LEMMA FlipInv ==
  ASSUME IInv, Flip
  PROVE  IInv'
  <1>1. /\ partial = Nil /\ stackScanned
        /\ \A p \in Live : color[p] # "grey"
        /\ freeList' = freeList \cup {o \in Live : color[o] = "white"}
        /\ color' = [o \in Objects |-> IF o = Process THEN "grey"
                                       ELSE IF o = mStack THEN "black" ELSE Flipped(o)]
        /\ flips' = IF flips = MinorFlips THEN 0 ELSE flips + 1
        /\ stackScanned' = FALSE
        /\ UNCHANGED <<slots, current, partial, scanned>>
    BY DEF Flip, Grey, Live
  <1>2. /\ current \in Threads /\ mStack \in Objects /\ mStack \in Live /\ mStack # Process
        /\ color[mStack] = "black" /\ Process \in Objects /\ Process \in Live
        /\ Threads \subseteq Live /\ Stacks \subseteq Live
        /\ Slots(Process) = Threads
        /\ \A t \in Threads : Slots(t) = {1} /\ t \in Objects /\ t # mStack
        /\ Nil \notin Objects
    BY RunningStack, SlotsOf, KindsAssumption DEF IInv, RootsColored, TypeOK, Live, Objects
  <1>3. \A p \in Live : color[p] \in {"white", "black"}
    BY <1>1 DEF IInv, TypeOK, RootsColored, Live
  <1>4. \A p \in Live : color[p] = "black" =>
            \A k \in Slots(p) : slots[p][k] = Nil \/ color[slots[p][k]] # "white"
    BY <1>1, <1>2 DEF IInv, BlackToWhiteCheck, StackSeen, Live
  <1>5. \A t \in Threads : color[t] = "black"
    <2> TAKE t \in Threads
    <2>1. color[Process] = "black"
      BY <1>2, <1>3 DEF IInv, RootsColored
    <2>2. slots[Process][t] = t /\ t # Nil
      BY <1>2 DEF IInv, KindsKept
    <2> QED BY <1>2, <1>3, <1>4, <2>1, <2>2
  <1>6. \A s \in Stacks : color[s] = "black"
    <2> SUFFICES ASSUME NEW t \in Threads PROVE color[StackOf(t)] = "black"
      BY StackAssumption
    <2>1. CASE t = current
      BY <1>2, <2>1 DEF mStack
    <2>2. CASE t # current
      <3>1. slots[t][1] = StackOf(t) /\ StackOf(t) # Nil /\ StackOf(t) \in Live
        BY <1>2, <2>2, StackType DEF IInv, KindsKept
      <3> QED BY <1>2, <1>3, <1>4, <1>5, <3>1
    <2> QED BY <2>1, <2>2
  <1>7. {o \in Live : color[o] = "white"} \subseteq Arrays
    <2>1. color[Process] # "white"
      BY DEF IInv, RootsColored
    <2> QED BY <1>5, <1>6, <2>1 DEF Live, Objects
  <1>8. /\ Live' = {o \in Live : color[o] = "black"}
        /\ mStack' = mStack
    <2>1. mStack' = mStack
      BY <1>1 DEF mStack
    <2>2. Live' = {o \in Live : color[o] # "white"}
      BY <1>1 DEF Live
    <2> QED BY <1>3, <2>1, <2>2
  <1>9. /\ color' \in [Objects -> {"white", "grey", "black", "free"}]
        /\ color'[mStack] = "black" /\ color'[Process] = "grey"
        /\ \A p \in Objects \ {Process, mStack} : color'[p] = Flipped(p)
    <2>1. \A p \in Objects : Flipped(p) \in {"white", "grey", "black", "free"}
      BY DEF Flipped, IInv, TypeOK
    <2> QED BY <1>1, <1>2, <2>1
  <1>10. TypeOK'
    <2>1. freeList' \subseteq Arrays
      BY <1>1, <1>7 DEF IInv, TypeOK
    <2>2. flips' \in 0 .. MinorFlips
      BY <1>1, SizeAssumption DEF IInv, TypeOK
    <2> QED BY <1>1, <1>9, <2>1, <2>2 DEF IInv, TypeOK
  <1>11. KindsKept'
    BY <1>1 DEF IInv, KindsKept
  <1>12. RootsColored'
    <2>1. \A p \in Live' : color'[p] # "free"
      BY <1>8, <1>9 DEF Flipped, Live
    <2> QED BY <1>8, <1>9, <2>1 DEF RootsColored
  <1>13. NoDangling'
    <2> SUFFICES ASSUME NEW p \in Live, color[p] = "black", NEW k \in Slots(p)
                 PROVE  slots[p][k] \notin freeList'
      BY <1>1, <1>8 DEF NoDangling
    <2>1. slots[p][k] = Nil \/ color[slots[p][k]] # "white"
      BY <1>4
    <2>2. slots[p][k] \notin freeList
      BY DEF IInv, NoDangling
    <2>3. Nil \notin Live
      BY <1>2 DEF Live
    <2> QED BY <1>1, <2>1, <2>2, <2>3
  <1>14. BlackToWhiteCheck'
    <2> SUFFICES ASSUME NEW p \in Live', p # mStack, color'[p] = "black", NEW k \in Slots(p)
                 PROVE  slots[p][k] = Nil \/ color'[slots[p][k]] # "white"
      BY <1>1, <1>8 DEF BlackToWhiteCheck
    <2>1. p \in Live /\ p \in Objects /\ color[p] = "black" /\ p # Process
      BY <1>8, <1>9 DEF Live
    <2>2. flips # 0
      BY <1>9, <2>1 DEF Flipped
    <2>3. slots[p][k] = Nil \/ (slots[p][k] \in Objects /\ color[slots[p][k]] # "white")
      BY <1>4, <2>1 DEF IInv, TypeOK
    <2>4. \A q \in Objects \ {Process, mStack} : color'[q] = color[q]
      BY <1>9, <2>2 DEF Flipped
    <2> QED BY <1>9, <2>3, <2>4
  <1> QED BY <1>1, <1>10, <1>11, <1>12, <1>13, <1>14 DEF IInv, StackSeen, PartialLive

-----------------------------------------------------------------------------
(* Every step keeps the invariant.                                         *)
LEMMA StepInv ==
  ASSUME LastTwo, IInv, [Next]_vars
  PROVE  IInv'
  <1>1. CASE Interpreter
    <2>1. CASE \E o \in Arrays, i \in 1 .. Depth : New(o, i)
      BY <2>1, NewInv
    <2>2. CASE \E i, j \in 1 .. Depth, k \in 1 .. Size : Load(i, j, k) \/ Store(i, j, k)
      BY <2>2, LoadInv, StoreInv
    <2>3. CASE \E i \in 1 .. Depth : Pop(i)
      BY <2>3, PopInv
    <2>4. CASE \E j \in 1 .. Depth, index \in Removable : RemoveAt(j, index)
      BY <2>4, RemoveAtInv
    <2>5. CASE \E t \in Threads : SwitchTo(t)
      BY <2>5, SwitchInv
    <2> QED BY <1>1, <2>1, <2>2, <2>3, <2>4, <2>5 DEF Interpreter
  <1>2. CASE Collection
    <2>1. CASE \E o \in Grey : ScanOneObj(o)
      BY <2>1, ScanOneObjInv
    <2>2. CASE \E o \in Grey, upTo \in 1 .. Size - 1 : BeginPartialScan(o, upTo)
      BY <2>2, BeginPartialScanInv
    <2>3. CASE \E upTo \in 1 .. Size : DoPartialScan(upTo)
      BY <2>3, DoPartialScanInv
    <2>4. CASE ScanStack
      BY <2>4, ScanStackInv
    <2>5. CASE Flip
      BY <2>5, FlipInv
    <2> QED BY <1>2, <2>1, <2>2, <2>3, <2>4, <2>5 DEF Collection
  <1>3. CASE UNCHANGED vars
    BY <1>3 DEF vars, collector, IInv, TypeOK, KindsKept, RootsColored, PartialLive, StackSeen,
                NoDangling, BlackToWhiteCheck, Live, mStack
  <1> QED BY <1>1, <1>2, <1>3 DEF Next

LEMMA Invariance == LastTwo => (Spec => []IInv)
  <1> SUFFICES ASSUME LastTwo PROVE Spec => []IInv
    OBVIOUS
  <1>1. Init => IInv
    BY InitInv
  <1>2. IInv /\ [Next]_vars => IInv'
    BY StepInv
  <1> QED BY <1>1, <1>2, PTL DEF Spec

(* The state of the collector is of its types whatever the interpreter and *)
(* the collector do in turn, as long as removeAt takes out only the last   *)
(* element of an array or the one before it.                               *)
THEOREM TypeCorrect == LastTwo => (Spec => []TypeOK)
  <1> SUFFICES ASSUME LastTwo PROVE Spec => []TypeOK
    OBVIOUS
  <1>1. Spec => []IInv
    BY Invariance
  <1>2. IInv => TypeOK
    BY DEF IInv
  <1> QED BY <1>1, <1>2, PTL

(* No slot of an object in use, nor of the stack, refers to what a flip has *)
(* made free (PyrGC::Flip): stores with GCWrite, pushes without one, thread *)
(* switches, partial scans and removals of one of the last two elements of  *)
(* an array, in any order, never lose an object.  A removal further in      *)
(* front may lose one: of the slots it moves, basicRemoveAt shows one to    *)
(* the barrier (PyrArrayPrimitives.cpp:243), and the property is false.     *)
THEOREM NothingDangles == LastTwo => (Spec => []NoDangling)
  <1> SUFFICES ASSUME LastTwo PROVE Spec => []NoDangling
    OBVIOUS
  <1>1. Spec => []IInv
    BY Invariance
  <1>2. IInv => NoDangling
    BY DEF IInv
  <1> QED BY <1>1, <1>2, PTL

(* PyrGC::BlackToWhiteCheck never finds a black object, other than the      *)
(* stack, that refers to a white one in a slot it has scanned, under the    *)
(* same hypothesis: a removal further in front does leave such a slot.      *)
THEOREM NoBlackToWhite == LastTwo => (Spec => []BlackToWhiteCheck)
  <1> SUFFICES ASSUME LastTwo PROVE Spec => []BlackToWhiteCheck
    OBVIOUS
  <1>1. Spec => []IInv
    BY Invariance
  <1>2. IInv => BlackToWhiteCheck
    BY DEF IInv
  <1> QED BY <1>1, <1>2, PTL
=============================================================================
