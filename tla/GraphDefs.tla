------------------------------ MODULE GraphDefs ------------------------------
(***************************************************************************)
(* The synth definitions of scsynth (SC_GraphDef.cpp).  The                *)
(* non-real-time thread reads and allocates them, the audio thread enters  *)
(* them in the table mGraphDefLib, counts the synths that use them, and    *)
(* sends those that nothing uses any more back through the fifo            *)
(* mDeleteGraphDefs, to be freed by the non-real-time thread.  The fifo    *)
(* and the table may be full, and nobody looks.                            *)
(*                                                                         *)
(* A definition may bring a variant, a second GraphDef with a name and a   *)
(* count of its own, whose memory belongs to the original.                 *)
(***************************************************************************)
EXTENDS Integers, Sequences, FiniteSets

CONSTANTS NumDefs,       \* definitions that are read, at most
          Names,
          Synths,
          None,
          MaxGraphDefs,  \* mMaxItems of the table
          FifoSize,      \* what mDeleteGraphDefs has room for
          Variants,      \* definitions may bring a variant
          Careful        \* clients send /d_freeAll only without synths

ASSUME SizeAssumption == {MaxGraphDefs, FifoSize} \subseteq Nat \ {0}
ASSUME ClientAssumption == {Variants, Careful} \subseteq BOOLEAN
ASSUME NumDefsAssumption == NumDefs \in Nat
ASSUME NamesAssumption == None \notin Names

Defs == 1 .. NumDefs  \* in the order in which they are read

Original(d) == [def |-> d, is |-> "original"]
Variant(d) == [def |-> d, is |-> "variant"]
GraphDef == [def : Defs, is : {"original", "variant"}]
Keys == [name : Names, is : {"original", "variant"}]

ASSUME NotAGraphDef == None \notin GraphDef

VARIABLES
    mName,            \* None for a definition that was not yet read
    mVariants,        \* the definitions that brought a variant
    mDefs,            \* lists read in stage 2 of a command, for its stage 3
    inList,           \* what GraphDef_Define has still to define
    mGraphDefLib,     \* what a name stands for
    mRefCount,
    mDef,             \* the GraphDef of a synth, None without the synth
    mDeleteGraphDefs,
    inDef,            \* sent to be freed, and named in the /d_removed that the
                      \* audio thread is about to send
    freed,            \* the definitions whose memory was freed
    refused,          \* GraphDefs the table had no room for, and
    dropped           \* those the fifo had no room for

reading == <<mName, mVariants>>
losses == <<refused, dropped>>
vars == <<reading, mDefs, inList, mGraphDefLib, mRefCount, mDef,
          mDeleteGraphDefs, inDef, freed, losses>>

Key(o) == [name |-> mName[o.def], is |-> o.is]
Listed(s) == {s[i] : i \in 1 .. Len(s)}
Pending == (UNION {Listed(mDefs[i]) : i \in 1 .. Len(mDefs)}) \cup Listed(inList)
Users(o) == {s \in Synths : mDef[s] = o}

Init ==
    /\ mName = [d \in Defs |-> None] /\ mVariants = {}
    /\ mDefs = <<>> /\ inList = <<>>
    /\ mGraphDefLib = [k \in Keys |-> None]
    /\ mRefCount = [o \in GraphDef |-> 0]
    /\ mDef = [s \in Synths |-> None]
    /\ mDeleteGraphDefs = <<>> /\ inDef = None
    /\ freed = {} /\ refused = {} /\ dropped = {}

-----------------------------------------------------------------------------
(* Stage 2 of /d_recv and /d_loadDir: one definition d or several, up to   *)
(* last, are read, each counted once for the table.  The list is in the    *)
(* order in which it will be defined.                                      *)
Read(d, last) ==
    /\ \A e \in Defs : mName[e] # None <=> e < d
    /\ mName' \in {name \in [Defs -> Names \cup {None}] :
                    \A e \in Defs : IF e \in d .. last THEN name[e] # None
                                    ELSE name[e] = mName[e]}
    /\ \E some \in SUBSET (IF Variants THEN d .. last ELSE {}) :
          mVariants' = mVariants \cup some
    /\ mRefCount' = [o \in GraphDef |->
                       IF o.def \in d .. last THEN 1 ELSE mRefCount[o]]
    /\ mDefs' = Append(mDefs, [i \in 1 .. last - d + 1 |-> d + i - 1])
    /\ UNCHANGED <<inList, mGraphDefLib, mDef, mDeleteGraphDefs, inDef, freed, losses>>

(* The audio thread has finished what it was doing.                        *)
Idle == inList = <<>> /\ inDef = None

(* Stage 3: GraphDef_Define, which keeps the audio thread until the list   *)
(* is worked off.                                                          *)
Define ==
    /\ Idle /\ mDefs # <<>>
    /\ inList' = Head(mDefs) /\ mDefs' = Tail(mDefs)
    /\ UNCHANGED <<reading, mGraphDefLib, mRefCount, mDef, mDeleteGraphDefs, inDef,
                   freed, losses>>

-----------------------------------------------------------------------------
(* World_RemoveGraphDef(o), which takes the variants out as well.          *)
Without(o) ==
    [k \in Keys |-> IF mGraphDefLib[k] = o \/ (o.is = "original"
                          /\ mGraphDefLib[k] = Variant(o.def))
                    THEN None ELSE mGraphDefLib[k]]

(* HashTable::Add refuses a new item when the table is full.               *)
HasRoom(lib) == Cardinality({k \in Keys : lib[k] # None}) < MaxGraphDefs
Added(lib, o) == IF HasRoom(lib) THEN [lib EXCEPT ![Key(o)] = o] ELSE lib

(* GraphDef_DeleteMsg, up to its Write, for those of the GraphDefs in os   *)
(* (at most one) of which nothing is left.                                 *)
DeleteMsg(os) ==
    IF os = {} THEN UNCHANGED <<mDeleteGraphDefs, inDef, dropped>>
    ELSE /\ inDef' = CHOOSE o \in os : TRUE
         /\ IF Len(mDeleteGraphDefs) < FifoSize
            THEN /\ mDeleteGraphDefs' = Append(mDeleteGraphDefs, inDef')
                 /\ UNCHANGED dropped
            ELSE dropped' = dropped \cup os /\ UNCHANGED mDeleteGraphDefs

(* The rest of it: /d_removed, with a name read from memory that the other *)
(* thread may have freed.  Then the reply has any name, and nothing else   *)
(* comes of it.                                                            *)
SendRemoved ==
    /\ inDef # None /\ inDef' = None
    /\ UNCHANGED <<reading, mDefs, inList, mGraphDefLib, mRefCount, mDef,
                   mDeleteGraphDefs, freed, losses>>

\* (faulty variant: what had the name is overwritten and not counted down)
DefineOneOver ==
    /\ inList # <<>> /\ inDef = None
    /\ LET d == Head(inList)
       IN  /\ mGraphDefLib' = [mGraphDefLib EXCEPT ![Key(Original(d))] = Original(d)]
           /\ inList' = Tail(inList)
    /\ UNCHANGED <<reading, mDefs, mRefCount, mDef, mDeleteGraphDefs, inDef, freed, losses>>

(* One round of the loop in GraphDef_Define: what had the name goes, and   *)
(* then the definition and its variant are entered.                        *)
DefineOne ==
    /\ inList # <<>> /\ inDef = None
    /\ LET d == Head(inList)
           previous == {mGraphDefLib[Key(Original(d))]} \ {None}
           kept == IF previous = {} THEN mGraphDefLib
                   ELSE Without(mGraphDefLib[Key(Original(d))])
           first == Added(kept, Original(d))
           lib == IF d \in mVariants THEN Added(first, Variant(d)) ELSE first
           new == {Original(d)} \cup IF d \in mVariants THEN {Variant(d)} ELSE {}
       IN  /\ mGraphDefLib' = lib
           /\ mRefCount' = [o \in GraphDef |->
                              mRefCount[o] - IF o \in previous THEN 1 ELSE 0]
           /\ DeleteMsg({o \in previous : mRefCount[o] = 1})
           /\ refused' = refused \cup {o \in new : lib[Key(o)] # o}
    /\ inList' = Tail(inList)
    /\ UNCHANGED <<reading, mDefs, mDef, freed>>

(* /d_free, GraphDef_Remove                                                *)
Remove(k) ==
    /\ Idle /\ mGraphDefLib[k] # None
    /\ LET o == mGraphDefLib[k]
       IN  /\ mGraphDefLib' = Without(o)
           /\ mRefCount' = [mRefCount EXCEPT ![o] = @ - 1]
           /\ DeleteMsg({p \in {o} : mRefCount[p] = 1})
    /\ UNCHANGED <<reading, mDefs, inList, mDef, freed, refused>>

(* /d_freeAll, World_FreeAllGraphDefs: frees the originals in the table,   *)
(* whatever their count.                                                   *)
FreeAllGraphDefs ==
    /\ Idle
    /\ Careful => \A s \in Synths : mDef[s] = None
    /\ freed' = freed \cup {d \in Defs : \E k \in Keys :
                                            mGraphDefLib[k] = Original(d)}
    /\ mGraphDefLib' = [k \in Keys |-> None]
    /\ UNCHANGED <<reading, mDefs, inList, mRefCount, mDef, mDeleteGraphDefs, inDef,
                   losses>>

(* What reads memory that was freed is not modelled further.               *)
Usable(o) == o.def \notin freed

\* (faulty variant: the synth is not counted)
NewSynthUncounted(s, k) ==
    /\ Idle /\ mDef[s] = None
    /\ mGraphDefLib[k] # None /\ Usable(mGraphDefLib[k])
    /\ mDef' = [mDef EXCEPT ![s] = mGraphDefLib[k]]
    /\ UNCHANGED <<reading, mDefs, inList, mGraphDefLib, mRefCount,
                   mDeleteGraphDefs, inDef, freed, losses>>

(* /s_new, Graph_New                                                       *)
NewSynth(s, k) ==
    /\ Idle /\ mDef[s] = None
    /\ mGraphDefLib[k] # None /\ Usable(mGraphDefLib[k])
    /\ mDef' = [mDef EXCEPT ![s] = mGraphDefLib[k]]
    /\ mRefCount' = [mRefCount EXCEPT ![mGraphDefLib[k]] = @ + 1]
    /\ UNCHANGED <<reading, mDefs, inList, mGraphDefLib, mDeleteGraphDefs, inDef,
                   freed, losses>>

\* (faulty variant: the definition goes only with a synth that comes later)
EndSynthTooLate(s) ==
    /\ Idle /\ mDef[s] # None /\ Usable(mDef[s])
    /\ mDef' = [mDef EXCEPT ![s] = None]
    /\ mRefCount' = [mRefCount EXCEPT ![mDef[s]] = @ - 1]
    /\ DeleteMsg({o \in {mDef[s]} : mRefCount[o] <= 0})
    /\ UNCHANGED <<reading, mDefs, inList, mGraphDefLib, freed, refused>>

\* (faulty variant: the definition goes with the last synth but one)
EndSynthTooEarly(s) ==
    /\ Idle /\ mDef[s] # None /\ Usable(mDef[s])
    /\ mDef' = [mDef EXCEPT ![s] = None]
    /\ mRefCount' = [mRefCount EXCEPT ![mDef[s]] = @ - 1]
    /\ DeleteMsg({o \in {mDef[s]} : mRefCount[o] <= 2})
    /\ UNCHANGED <<reading, mDefs, inList, mGraphDefLib, freed, refused>>

(* Graph_Dtor, in real time                                                *)
EndSynth(s) ==
    /\ Idle /\ mDef[s] # None /\ Usable(mDef[s])
    /\ mDef' = [mDef EXCEPT ![s] = None]
    /\ mRefCount' = [mRefCount EXCEPT ![mDef[s]] = @ - 1]
    /\ DeleteMsg({o \in {mDef[s]} : mRefCount[o] <= 1})
    /\ UNCHANGED <<reading, mDefs, inList, mGraphDefLib, freed, refused>>

(* The non-real-time thread: GraphDef_Free, which frees an original with   *)
(* its variants and leaves a variant alone.                                *)
PerformDelete ==
    /\ mDeleteGraphDefs # <<>> /\ Usable(Head(mDeleteGraphDefs))
    /\ freed' = freed \cup {d \in Defs : Head(mDeleteGraphDefs) = Original(d)}
    /\ mDeleteGraphDefs' = Tail(mDeleteGraphDefs)
    /\ UNCHANGED <<reading, mDefs, inList, mGraphDefLib, mRefCount, mDef, inDef,
                   losses>>

-----------------------------------------------------------------------------
NRTThread == PerformDelete
AudioThread == Define \/ DefineOne \/ SendRemoved
Client == \/ \E d, last \in Defs : d <= last /\ Read(d, last)
          \/ \E k \in Keys : Remove(k)
          \/ FreeAllGraphDefs
          \/ \E s \in Synths, k \in Keys : NewSynth(s, k)
          \/ \E s \in Synths : EndSynth(s)

Next == NRTThread \/ AudioThread \/ Client

Spec == Init /\ [][Next]_vars
(* The non-real-time thread is woken at the end of every callback.         *)
FairSpec == Spec /\ WF_vars(NRTThread)

-----------------------------------------------------------------------------
TypeOK ==
    /\ mName \in [Defs -> Names \cup {None}] /\ mVariants \subseteq Defs
    /\ mDefs \in Seq(Seq(Defs)) /\ inList \in Seq(Defs)
    /\ mGraphDefLib \in [Keys -> GraphDef \cup {None}]
    /\ \A k \in Keys : mGraphDefLib[k] # None => Key(mGraphDefLib[k]) = k
    /\ mRefCount \in [GraphDef -> Int]
    /\ mDef \in [Synths -> GraphDef \cup {None}]
    /\ mDeleteGraphDefs \in Seq(GraphDef) /\ Len(mDeleteGraphDefs) <= FifoSize
    /\ inDef \in GraphDef \cup {None}
    /\ freed \subseteq Defs
    /\ refused \subseteq GraphDef /\ dropped \subseteq GraphDef

InLib(o) == \E k \in Keys : mGraphDefLib[k] = o

(* The memory of a GraphDef that a synth, a name or a waiting command      *)
(* refers to has not been freed, whatever is redefined or removed while    *)
(* its synths go on.                                                       *)
OutlivesUse(o) ==
    Users(o) # {} \/ InLib(o) \/ (o.is = "original" /\ o.def \in Pending)
        => o.def \notin freed
OriginalsOutliveUse == \A d \in Defs : OutlivesUse(Original(d))
VariantsOutliveUse == \A d \in Defs : OutlivesUse(Variant(d))

(* The name in a /d_removed is read from memory that was not freed.        *)
RemovedNameLive == inDef # None => Usable(inDef)

(* A definition is sent to be freed once, and only when nothing refers to  *)
(* it: no synth, no name, no command.                                      *)
DeletedOnce ==
    \A i \in 1 .. Len(mDeleteGraphDefs) :
        LET o == mDeleteGraphDefs[i]
        IN  o.is = "original" =>
               /\ o.def \notin freed \cup Pending /\ Users(o) = {} /\ ~InLib(o)
               /\ \A j \in 1 .. Len(mDeleteGraphDefs) :
                     mDeleteGraphDefs[j] = o => j = i

(* The count of a definition is the number of its synths, and one more     *)
(* while it has its name, waits for it, or was refused it.                 *)
RefCountExact == TypeOK /\
    \A d \in Defs : mName[d] # None /\ d \notin freed =>
        LET o == Original(d)
        IN  mRefCount[o] = Cardinality(Users(o))
              + IF InLib(o) \/ d \in Pending \/ o \in refused THEN 1 ELSE 0

(* A definition without a synth that has lost its name is freed, unless    *)
(* the table or the fifo was full, or the thread that frees has come to a  *)
(* variant whose memory is gone and the behaviour is no longer defined.    *)
Unused(d) ==
    LET o == Original(d)
    IN  mName[d] # None /\ Users(o) = {} /\ ~InLib(o) /\ d \notin Pending
UnusedDefsFreed ==
    \A d \in Defs :
        Unused(d) ~> \/ d \in freed \/ Original(d) \in refused \cup dropped
                     \/ mDeleteGraphDefs # <<>> /\ ~Usable(Head(mDeleteGraphDefs))
=============================================================================
