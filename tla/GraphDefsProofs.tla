--------------------------- MODULE GraphDefsProofs --------------------------
(***************************************************************************)
(* Proofs about GraphDefs, for any number of definitions, names and        *)
(* synths, a table and a fifo of any size: counts are exact, a definition  *)
(* in use keeps its memory and is sent to be freed once.  Clients are      *)
(* careful, that is, nobody sends /d_freeAll while there are synths.  The  *)
(* theorems are about originals: what GraphDefs says of variants is that   *)
(* their memory goes with the original's.                                  *)
(***************************************************************************)
EXTENDS GraphDefs, TLAPS, FiniteSetTheorems

Distinct(s) == \A i, j \in 1 .. Len(s) : s[i] = s[j] => i = j
Queued(o) == \E i \in 1 .. Len(mDeleteGraphDefs) : mDeleteGraphDefs[i] = o

(* No definition waits twice to be defined.                                *)
Lists ==
    /\ Distinct(inList)
    /\ \A i \in 1 .. Len(mDefs) :
          Distinct(mDefs[i]) /\ Listed(mDefs[i]) \cap Listed(inList) = {}
    /\ \A i, j \in 1 .. Len(mDefs) :
          i # j => Listed(mDefs[i]) \cap Listed(mDefs[j]) = {}

(* No original waits twice to be freed.                                    *)
Once ==
    \A i, j \in 1 .. Len(mDeleteGraphDefs) :
        mDeleteGraphDefs[i] = mDeleteGraphDefs[j]
            /\ mDeleteGraphDefs[i].is = "original" => i = j

(* A definition goes one way: it is read, waits, has its name or is        *)
(* refused it, is sent to be freed and freed.                              *)
OneWay(d, o) ==
    /\ mName[d] = None => /\ d \notin Pending /\ Users(o) = {} /\ o \notin refused
                          /\ ~Queued(o) /\ d \notin freed
    /\ d \in Pending => /\ ~InLib(o) /\ Users(o) = {} /\ o \notin refused
                        /\ ~Queued(o) /\ d \notin freed
    /\ InLib(o) => o \notin refused /\ ~Queued(o) /\ d \notin freed
    /\ o \in refused => Users(o) = {} /\ ~Queued(o) /\ d \notin freed
    /\ Queued(o) => Users(o) = {} /\ d \notin freed
    /\ d \in freed => Users(o) = {}

(* Its count, as long as it has memory.                                    *)
Counted(d, o) ==
    /\ IsFiniteSet(Users(o))
    /\ mName[d] # None /\ d \notin freed =>
          mRefCount[o] = Cardinality(Users(o))
             + IF InLib(o) \/ d \in Pending \/ o \in refused THEN 1 ELSE 0

Ways == \A d \in Defs : OneWay(d, Original(d))
Counts == \A d \in Defs : Counted(d, Original(d))

IInv == TypeOK /\ Lists /\ Once /\ Ways /\ Counts

-----------------------------------------------------------------------------
LEMMA Kinds ==
  /\ \A d \in Defs : /\ Original(d) \in GraphDef /\ Original(d).def = d
                     /\ Original(d).is = "original" /\ Original(d) # None
                     /\ Variant(d) \in GraphDef /\ Variant(d).def = d
                     /\ Variant(d).is = "variant"
  /\ \A d, e : Original(d) = Original(e) => d = e
  /\ \A d, e : Original(d) # Variant(e)
  /\ \A o \in GraphDef : /\ o.def \in Defs /\ o # None
                         /\ o.is = "original" => o = Original(o.def)
  <1>1. \A d \in Defs : Original(d) \in GraphDef /\ Variant(d) \in GraphDef
    BY DEF Original, Variant, GraphDef
  <1>2. \A d : /\ Original(d).def = d /\ Original(d).is = "original"
               /\ Variant(d).def = d /\ Variant(d).is = "variant"
    BY DEF Original, Variant
  <1>3. \A o \in GraphDef : /\ o.def \in Defs /\ o # None
                            /\ o.is = "original" => o = Original(o.def)
    BY NotAGraphDef DEF GraphDef, Original
  <1>4. \A d \in Defs : Original(d) # None
    BY <1>1, <1>3
  <1>5. \A d, e : /\ Original(d) = Original(e) => d = e
                  /\ Original(d) # Variant(e)
    BY <1>2
  <1> QED BY <1>1, <1>2, <1>3, <1>4, <1>5

(* What a name stands for has that name.                                   *)
LEMMA LibFacts ==
  ASSUME TypeOK, NEW k \in Keys, mGraphDefLib[k] # None
  PROVE  /\ mGraphDefLib[k] \in GraphDef /\ Key(mGraphDefLib[k]) = k
         /\ mGraphDefLib[k].is = k.is /\ mName[mGraphDefLib[k].def] = k.name
         /\ k.name # None
  <1>1. mGraphDefLib[k] \in GraphDef /\ Key(mGraphDefLib[k]) = k
    BY DEF TypeOK
  <1>2. /\ Key(mGraphDefLib[k]).is = mGraphDefLib[k].is
        /\ Key(mGraphDefLib[k]).name = mName[mGraphDefLib[k].def]
    BY DEF Key
  <1>3. k.name \in Names /\ k.name # None
    BY NamesAssumption DEF Keys
  <1> QED BY <1>1, <1>2, <1>3

LEMMA KeyFacts ==
  ASSUME TypeOK, NEW o \in GraphDef, mName[o.def] # None
  PROVE  Key(o) \in Keys /\ Key(o).is = o.is
  BY Kinds DEF TypeOK, Key, Keys, GraphDef

LEMMA InLibFacts ==
  ASSUME TypeOK, NEW o \in GraphDef, InLib(o)
  PROVE  mName[o.def] # None /\ mGraphDefLib[Key(o)] = o
  <1>1. PICK k \in Keys : mGraphDefLib[k] = o
    BY DEF InLib
  <1> QED BY <1>1, LibFacts, Kinds

LEMMA PendingFacts ==
  ASSUME NEW d
  PROVE  d \in Pending <=>
           \/ \E i \in 1 .. Len(mDefs) : \E j \in 1 .. Len(mDefs[i]) : mDefs[i][j] = d
           \/ \E j \in 1 .. Len(inList) : inList[j] = d
  BY DEF Pending, Listed

-----------------------------------------------------------------------------
(* The fifo of definitions to be freed: it takes a GraphDef that does not  *)
(* wait in it, or there is no room.                                        *)
LEMMA Sent ==
  ASSUME TypeOK, Once, NEW o \in GraphDef, NEW os, os = {} \/ os = {o}, DeleteMsg(os),
         os # {} /\ o.is = "original" => ~Queued(o)
  PROVE  /\ mDeleteGraphDefs' \in Seq(GraphDef) /\ Len(mDeleteGraphDefs') <= FifoSize
         /\ dropped' \subseteq GraphDef /\ inDef' \in GraphDef \cup {None} /\ Once'
         /\ \A p : Queued(p)' => Queued(p) \/ p \in os
  <1>3. os = {o} => (CHOOSE p \in os : TRUE) = o
    OBVIOUS
  <1>0. inDef' \in GraphDef \cup {None}
    BY <1>3 DEF DeleteMsg, TypeOK
  <1>1. CASE UNCHANGED mDeleteGraphDefs
    <2>1. dropped' \subseteq GraphDef
      BY DEF DeleteMsg, TypeOK
    <2> QED BY <1>0, <1>1, <2>1 DEF TypeOK, Once, Queued
  <1>2. CASE /\ os = {o} /\ Len(mDeleteGraphDefs) < FifoSize
             /\ mDeleteGraphDefs' = Append(mDeleteGraphDefs, o) /\ UNCHANGED dropped
    <2>1. /\ mDeleteGraphDefs \in Seq(GraphDef) /\ Len(mDeleteGraphDefs) \in Nat
          /\ mDeleteGraphDefs' \in Seq(GraphDef)
          /\ Len(mDeleteGraphDefs') = Len(mDeleteGraphDefs) + 1
          /\ \A i \in 1 .. Len(mDeleteGraphDefs) : mDeleteGraphDefs'[i] = mDeleteGraphDefs[i]
          /\ mDeleteGraphDefs'[Len(mDeleteGraphDefs) + 1] = o
      BY <1>2 DEF TypeOK
    <2>2. Once'
      BY <1>2, <2>1 DEF Once, Queued
    <2>3. \A p : Queued(p)' => Queued(p) \/ p \in os
      BY <1>2, <2>1 DEF Queued
    <2>4. Len(mDeleteGraphDefs') <= FifoSize
      BY <1>2, <2>1, SizeAssumption
    <2> QED BY <1>0, <1>2, <2>1, <2>2, <2>3, <2>4 DEF TypeOK
  <1> QED BY <1>0, <1>1, <1>2, <1>3 DEF DeleteMsg

(* Numbers of users.                                                       *)
LEMMA UsersMore ==
  ASSUME NEW U, IsFiniteSet(U), NEW s
  PROVE  /\ IsFiniteSet(U \cup {s}) /\ Cardinality(U) \in Nat
         /\ s \notin U => Cardinality(U \cup {s}) = Cardinality(U) + 1
  BY FS_AddElement, FS_CardinalityType

LEMMA UsersFewer ==
  ASSUME NEW U, IsFiniteSet(U), NEW s \in U
  PROVE  /\ IsFiniteSet(U \ {s}) /\ Cardinality(U) \in Nat
         /\ Cardinality(U \ {s}) = Cardinality(U) - 1 /\ Cardinality(U \ {s}) \in Nat
         /\ Cardinality(U) <= 1 => U \ {s} = {}
  <1>1. /\ IsFiniteSet(U \ {s}) /\ Cardinality(U) \in Nat
        /\ Cardinality(U \ {s}) = Cardinality(U) - 1 /\ Cardinality(U \ {s}) \in Nat
    BY FS_RemoveElement, FS_CardinalityType
  <1>2. Cardinality(U \ {s}) = 0 => U \ {s} = {}
    BY <1>1, FS_EmptySet
  <1> QED BY <1>1, <1>2

LEMMA NoUsers == IsFiniteSet({}) /\ Cardinality({}) = 0
  BY FS_EmptySet

-----------------------------------------------------------------------------
LEMMA InitInv == Init => IInv
  <1> SUFFICES ASSUME Init PROVE IInv
    OBVIOUS
  <1>1. /\ \A d : d \notin Pending
        /\ mDefs = <<>> /\ inList = <<>> /\ Len(mDefs) = 0 /\ Len(inList) = 0
        /\ Len(mDeleteGraphDefs) = 0
    BY PendingFacts DEF Init
  <1>2. /\ \A o \in GraphDef : Users(o) = {} /\ ~InLib(o) /\ ~Queued(o)
        /\ \A d \in Defs : mName[d] = None
    BY <1>1, Kinds DEF Init, Users, InLib, Queued
  <1>3. TypeOK
    BY SizeAssumption DEF Init, TypeOK
  <1>4. Lists /\ Once
    BY <1>1 DEF Lists, Once, Distinct
  <1>5. refused = {} /\ freed = {}
    BY DEF Init
  <1>6. Ways /\ Counts
    BY <1>1, <1>2, <1>5, Kinds, NoUsers DEF Ways, OneWay, Counts, Counted
  <1> QED BY <1>3, <1>4, <1>6 DEF IInv

(* A step about a GraphDef o that neither reads nor defines.               *)
LEMMA SameLists ==
  ASSUME IInv, UNCHANGED <<reading, mDefs, inList>>
  PROVE  Lists' /\ (\A d : d \in Pending' <=> d \in Pending) /\ UNCHANGED mName
  <1>1. mDefs' = mDefs /\ inList' = inList /\ mName' = mName
    BY DEF reading
  <1>2. Pending' = Pending
    BY <1>1 DEF Pending, Listed
  <1>3. Lists'
    BY <1>1 DEF IInv, Lists
  <1> QED BY <1>1, <1>2, <1>3

LEMMA EndInv ==
  ASSUME IInv, NEW s \in Synths, EndSynth(s), NEW o, o = mDef[s]
  PROVE  IInv'
  <1>1. /\ TypeOK /\ Once /\ Ways /\ Counts /\ o \in GraphDef
        /\ mRefCount \in [GraphDef -> Int] /\ mDef \in [Synths -> GraphDef \cup {None}]
    BY DEF IInv, TypeOK, EndSynth
  <1>2. /\ UNCHANGED <<reading, mDefs, inList, mGraphDefLib, freed, refused>>
        /\ mDef' = [mDef EXCEPT ![s] = None]
        /\ mRefCount' = [mRefCount EXCEPT ![o] = @ - 1]
        /\ o # None /\ Usable(o)
    BY DEF EndSynth
  <1>3. Lists' /\ (\A d : d \in Pending' <=> d \in Pending) /\ UNCHANGED mName
    BY <1>2, SameLists
  <1>4. /\ \A p \in GraphDef : p # o => Users(p)' = Users(p)
        /\ Users(o)' = Users(o) \ {s} /\ s \in Users(o)
        /\ \A p : InLib(p)' <=> InLib(p)
    BY <1>1, <1>2, Kinds DEF Users, InLib
  <1>5. ASSUME o.is = "original"
        PROVE  /\ o.def \in Defs /\ o = Original(o.def) /\ ~Queued(o) /\ o \notin refused
               /\ mName[o.def] # None /\ o.def \notin freed /\ o.def \notin Pending
               /\ IsFiniteSet(Users(o))
               /\ mRefCount[o] = Cardinality(Users(o)) + IF InLib(o) THEN 1 ELSE 0
    <2>1. o.def \in Defs /\ o = Original(o.def)
      BY <1>1, <1>5, Kinds
    <2>2. OneWay(o.def, o) /\ Counted(o.def, o)
      BY <2>1, <1>1 DEF Ways, Counts
    <2> QED BY <2>1, <2>2, <1>2, <1>4 DEF OneWay, Counted, Usable
  <1>6. DeleteMsg({p \in {o} : mRefCount[p] <= 1})
    BY DEF EndSynth
  <1> DEFINE os == {p \in {o} : mRefCount[p] <= 1}
  <1>7. os = {} \/ os = {o}
    OBVIOUS
  <1>8. /\ mDeleteGraphDefs' \in Seq(GraphDef) /\ Len(mDeleteGraphDefs') <= FifoSize
        /\ dropped' \subseteq GraphDef /\ inDef' \in GraphDef \cup {None} /\ Once'
        /\ \A p : Queued(p)' => Queued(p) \/ p \in os
    <2> HIDE DEF os
    <2> QED BY <1>1, <1>5, <1>6, <1>7, Sent DEF os
  <1>9. TypeOK'
    BY <1>1, <1>2, <1>8 DEF TypeOK, Key, reading
  <1>10. ASSUME o.is = "original"
         PROVE  /\ IsFiniteSet(Users(o)') /\ mRefCount'[o] = mRefCount[o] - 1
                /\ Cardinality(Users(o)') = Cardinality(Users(o)) - 1
                /\ o \in os => Users(o)' = {} /\ ~InLib(o)
    <2>1. /\ IsFiniteSet(Users(o) \ {s}) /\ Cardinality(Users(o)) \in Nat
          /\ Cardinality(Users(o) \ {s}) = Cardinality(Users(o)) - 1
          /\ Cardinality(Users(o) \ {s}) \in Nat
          /\ Cardinality(Users(o)) <= 1 => Users(o) \ {s} = {}
      BY <1>4, <1>5, <1>10, UsersFewer
    <2>2. mRefCount'[o] = mRefCount[o] - 1
      BY <1>1, <1>2
    <2>3. o \in os => Users(o) \ {s} = {} /\ ~InLib(o)
      BY <2>1, <1>5, <1>10
    <2> QED BY <2>1, <2>2, <2>3, <1>4
  <1>11. ASSUME NEW d \in Defs
         PROVE  OneWay(d, Original(d))' /\ Counted(d, Original(d))'
    <2> DEFINE p == Original(d)
    <2>1. /\ OneWay(d, p) /\ Counted(d, p) /\ p \in GraphDef /\ p.is = "original"
          /\ p.def = d
      BY <1>1, Kinds DEF Ways, Counts
    <2>2. CASE p # o
      <3>1. Users(p)' = Users(p) /\ mRefCount'[p] = mRefCount[p] /\ p \notin os
        BY <2>1, <2>2, <1>1, <1>2, <1>4
      <3> QED BY <3>1, <2>1, <1>2, <1>3, <1>4, <1>8 DEF OneWay, Counted
    <2>3. CASE p = o
      <3>1. o.is = "original" /\ o.def = d
        BY <2>1, <2>3
      <3>2. /\ IsFiniteSet(Users(o)') /\ mRefCount'[o] = mRefCount[o] - 1
            /\ Cardinality(Users(o)') = Cardinality(Users(o)) - 1
            /\ o \in os => Users(o)' = {} /\ ~InLib(o)
        BY <3>1, <1>10
      <3>3. /\ ~Queued(o) /\ o \notin refused /\ mName[d] # None /\ d \notin freed
            /\ d \notin Pending
            /\ mRefCount[o] = Cardinality(Users(o)) + IF InLib(o) THEN 1 ELSE 0
            /\ Cardinality(Users(o)) \in Nat
        BY <3>1, <1>5, <1>4, UsersFewer
      <3> HIDE DEF os, p
      <3>4. OneWay(d, o)'
        BY <3>2, <3>3, <2>1, <2>3, <1>2, <1>3, <1>4, <1>8 DEF OneWay
      <3>5. Counted(d, o)'
        BY <3>2, <3>3, <1>2, <1>3, <1>4 DEF Counted
      <3> QED BY <3>4, <3>5, <2>3 DEF p
    <2> QED BY <2>2, <2>3
  <1> QED BY <1>3, <1>8, <1>9, <1>11 DEF IInv, Ways, Counts

LEMMA NewInv ==
  ASSUME IInv, NEW s \in Synths, NEW k \in Keys, NewSynth(s, k), NEW o, o = mGraphDefLib[k]
  PROVE  IInv'
  <1>1. /\ TypeOK /\ Once /\ Ways /\ Counts /\ o \in GraphDef /\ InLib(o)
        /\ mRefCount \in [GraphDef -> Int] /\ mDef \in [Synths -> GraphDef \cup {None}]
        /\ mName[o.def] # None /\ o # None
    <2>1. TypeOK /\ mGraphDefLib[k] # None /\ InLib(o)
      BY DEF IInv, NewSynth, InLib
    <2> QED BY <2>1, LibFacts DEF IInv, TypeOK
  <1>2. /\ UNCHANGED <<reading, mDefs, inList, mGraphDefLib, mDeleteGraphDefs, inDef, freed, losses>>
        /\ mDef' = [mDef EXCEPT ![s] = o] /\ mDef[s] = None
        /\ mRefCount' = [mRefCount EXCEPT ![o] = @ + 1]
    BY DEF NewSynth
  <1>3. /\ Lists' /\ (\A d : d \in Pending' <=> d \in Pending) /\ UNCHANGED mName
        /\ UNCHANGED <<refused, dropped>>
    BY <1>2, SameLists DEF losses
  <1>4. /\ \A p \in GraphDef : p # o => Users(p)' = Users(p)
        /\ Users(o)' = Users(o) \cup {s} /\ s \notin Users(o)
        /\ \A p : InLib(p)' <=> InLib(p)
        /\ \A p : Queued(p)' <=> Queued(p)
    BY <1>1, <1>2, Kinds DEF Users, InLib, Queued
  <1>5. TypeOK' /\ Once'
    BY <1>1, <1>2, <1>3 DEF TypeOK, Once, Key, reading
  <1>6. ASSUME NEW d \in Defs
        PROVE  OneWay(d, Original(d))' /\ Counted(d, Original(d))'
    <2> DEFINE p == Original(d)
    <2>1. OneWay(d, p) /\ Counted(d, p) /\ p \in GraphDef /\ p.def = d
      BY <1>1, Kinds DEF Ways, Counts
    <2>2. CASE p # o
      <3>1. Users(p)' = Users(p) /\ mRefCount'[p] = mRefCount[p]
        BY <2>1, <2>2, <1>1, <1>2, <1>4
      <3> QED BY <3>1, <2>1, <1>2, <1>3, <1>4 DEF OneWay, Counted
    <2>3. CASE p = o
      <3>1. /\ mRefCount'[o] = mRefCount[o] + 1 /\ IsFiniteSet(Users(o)')
            /\ Cardinality(Users(o)') = Cardinality(Users(o)) + 1
            /\ Cardinality(Users(o)) \in Nat
        BY SMTT(40), <1>1, <1>2, <1>4, <2>1, <2>3, UsersMore DEF Counted
      <3>2. o.def = d /\ OneWay(d, o) /\ Counted(d, o)
        BY <2>1, <2>3
      <3>3. OneWay(d, o)'
        BY <3>2, <1>1, <1>2, <1>3, <1>4 DEF OneWay
      <3>4. Counted(d, o)'
        BY <3>1, <3>2, <1>1, <1>2, <1>3, <1>4 DEF Counted, OneWay
      <3> QED BY <3>3, <3>4, <2>3
    <2> QED BY <2>2, <2>3
  <1> QED BY <1>3, <1>5, <1>6 DEF IInv, Ways, Counts

LEMMA RemoveInv ==
  ASSUME IInv, NEW k \in Keys, Remove(k), NEW o, o = mGraphDefLib[k]
  PROVE  IInv'
  <1> DEFINE os == {p \in {o} : mRefCount[p] = 1}
  <1>1. /\ TypeOK /\ Once /\ Ways /\ Counts /\ o \in GraphDef /\ InLib(o)
        /\ mRefCount \in [GraphDef -> Int] /\ mName[o.def] # None /\ o # None
        /\ mGraphDefLib \in [Keys -> GraphDef \cup {None}]
    <2>1. TypeOK /\ mGraphDefLib[k] # None /\ InLib(o)
      BY DEF IInv, Remove, InLib
    <2> QED BY <2>1, LibFacts DEF IInv, TypeOK
  <1>2. /\ UNCHANGED <<reading, mDefs, inList, mDef, freed, refused>>
        /\ mGraphDefLib' = Without(o) /\ mRefCount' = [mRefCount EXCEPT ![o] = @ - 1]
        /\ DeleteMsg(os)
    BY DEF Remove
  <1>3. Lists' /\ (\A d : d \in Pending' <=> d \in Pending) /\ UNCHANGED mName
    BY <1>2, SameLists
  <1>4. /\ \A p : Users(p)' = Users(p)
        /\ \A p \in GraphDef : InLib(p)' => InLib(p)
        /\ \A d \in Defs : Original(d) # o => (InLib(Original(d))' <=> InLib(Original(d)))
        /\ ~InLib(o)'
    <2>1. \A p : Users(p)' = Users(p)
      BY <1>2 DEF Users
    <2>2. \A l \in Keys : mGraphDefLib'[l] # None =>
               mGraphDefLib'[l] = mGraphDefLib[l] /\ mGraphDefLib[l] # o
      BY <1>1, <1>2 DEF Without
    <2>3. \A d \in Defs : \A l \in Keys : Original(d) # o /\ mGraphDefLib[l] = Original(d) => mGraphDefLib'[l] = Original(d)
      BY <1>1, <1>2, Kinds DEF Without
    <2> QED BY <2>1, <2>2, <2>3, <1>1, Kinds DEF InLib
  <1>5. ASSUME o.is = "original"
        PROVE  /\ o.def \in Defs /\ o = Original(o.def) /\ OneWay(o.def, o) /\ Counted(o.def, o)
               /\ ~Queued(o)
    <2>1. o.def \in Defs /\ o = Original(o.def)
      BY <1>1, <1>5, Kinds
    <2> QED BY <2>1, <1>1 DEF Ways, Counts, OneWay
  <1>6. /\ mDeleteGraphDefs' \in Seq(GraphDef) /\ Len(mDeleteGraphDefs') <= FifoSize
        /\ dropped' \subseteq GraphDef /\ inDef' \in GraphDef \cup {None} /\ Once'
        /\ \A p : Queued(p)' => Queued(p) \/ p \in os
    <2>1. os = {} \/ os = {o}
      OBVIOUS
    <2> HIDE DEF os
    <2> QED BY <2>1, <1>1, <1>2, <1>5, Sent
  <1>7. TypeOK'
    <2>1. mGraphDefLib' \in [Keys -> GraphDef \cup {None}]
      BY <1>1, <1>2 DEF Without
    <2>2. \A l \in Keys : mGraphDefLib'[l] # None => mGraphDefLib'[l] = mGraphDefLib[l]
      BY <1>1, <1>2 DEF Without
    <2>3. \A l \in Keys : mGraphDefLib'[l] # None => Key(mGraphDefLib[l]) = l
      BY <2>2, <1>1 DEF TypeOK
    <2>4. mRefCount' \in [GraphDef -> Int]
      BY <1>1, <1>2
    <2>6. \A l \in Keys : mGraphDefLib'[l] # None =>
             [name |-> mName'[mGraphDefLib'[l].def], is |-> mGraphDefLib'[l].is] = l
      BY <2>2, <2>3, <1>3 DEF Key
    <2> QED BY <2>1, <2>4, <2>6, <1>1, <1>2, <1>3, <1>6 DEF TypeOK, Key, reading
  <1>8. ASSUME NEW d \in Defs
        PROVE  OneWay(d, Original(d))' /\ Counted(d, Original(d))'
    <2> DEFINE p == Original(d)
    <2>1. OneWay(d, p) /\ Counted(d, p) /\ p \in GraphDef /\ p.def = d
      BY <1>1, Kinds DEF Ways, Counts
    <2>2. CASE p # o
      <3>1. mRefCount'[p] = mRefCount[p] /\ p \notin os /\ (InLib(p)' <=> InLib(p))
        BY <2>1, <2>2, <1>1, <1>2, <1>4
      <3> HIDE DEF os, p
      <3>2. OneWay(d, p)'
        BY <3>1, <2>1, <1>2, <1>3, <1>4, <1>6 DEF OneWay
      <3>3. Counted(d, p)'
        BY <3>1, <2>1, <1>2, <1>3, <1>4 DEF Counted
      <3> QED BY <3>2, <3>3 DEF p
    <2>3. CASE p = o
      <3>1. /\ OneWay(d, o) /\ Counted(d, o) /\ o.def = d /\ InLib(o) /\ ~InLib(o)'
            /\ mRefCount'[o] = mRefCount[o] - 1
        BY <2>1, <2>3, <1>1, <1>2, <1>4
      <3>2. /\ Cardinality(Users(o)) \in Nat
            /\ Cardinality(Users(o)) = 0 => Users(o) = {}
        BY <3>1, FS_EmptySet, FS_CardinalityType DEF Counted
      <3>3. o \in os => Users(o) = {}
        BY <3>1, <3>2, <1>1 DEF Counted, OneWay
      <3> HIDE DEF os, p
      <3>4. OneWay(d, o)'
        BY <3>1, <3>3, <1>1, <1>2, <1>3, <1>4, <1>6 DEF OneWay
      <3>5. Counted(d, o)'
        BY <3>1, <3>2, <1>1, <1>2, <1>3, <1>4 DEF Counted, OneWay
      <3> QED BY <3>4, <3>5, <2>3 DEF p
    <2> QED BY <2>2, <2>3
  <1> QED BY <1>3, <1>6, <1>7, <1>8 DEF IInv, Ways, Counts

LEMMA FreeInv ==
  ASSUME IInv, PerformDelete, NEW o, o = Head(mDeleteGraphDefs)
  PROVE  IInv'
  <1>1. /\ TypeOK /\ Once /\ Ways /\ Counts /\ mDeleteGraphDefs \in Seq(GraphDef)
        /\ mDeleteGraphDefs # <<>> /\ Len(mDeleteGraphDefs) \in Nat
    BY DEF IInv, TypeOK, PerformDelete
  <1>2. /\ UNCHANGED <<reading, mDefs, inList, mGraphDefLib, mRefCount, mDef, inDef, losses>>
        /\ freed' = freed \cup {d \in Defs : o = Original(d)}
        /\ mDeleteGraphDefs' = Tail(mDeleteGraphDefs)
    BY DEF PerformDelete
  <1>3. /\ Lists' /\ (\A d : d \in Pending' <=> d \in Pending) /\ UNCHANGED mName
        /\ UNCHANGED <<refused, dropped>>
    BY <1>2, SameLists DEF losses
  <1>4. /\ Tail(mDeleteGraphDefs) \in Seq(GraphDef)
        /\ Len(Tail(mDeleteGraphDefs)) = Len(mDeleteGraphDefs) - 1
        /\ \A i \in 1 .. Len(mDeleteGraphDefs) - 1 :
              Tail(mDeleteGraphDefs)[i] = mDeleteGraphDefs[i + 1]
        /\ o = mDeleteGraphDefs[1]
    BY <1>1
  <1>5. /\ \A p : Queued(p)' => Queued(p)
        /\ Queued(o) /\ o \in GraphDef
        /\ o.is = "original" => ~Queued(o)'
    <2>1. \A p : Queued(p)' => Queued(p)
      BY <1>1, <1>2, <1>4 DEF Queued
    <2>2. Queued(o) /\ o \in GraphDef
      BY <1>1, <1>4 DEF Queued
    <2>3. o.is = "original" => ~Queued(o)'
      BY <1>1, <1>2, <1>4 DEF Queued, Once
    <2> QED BY <2>1, <2>2, <2>3
  <1>6. Once'
    BY <1>1, <1>2, <1>4 DEF Once
  <1>7. TypeOK'
    <2>1. Len(mDeleteGraphDefs') <= FifoSize
      BY <1>1, <1>2, <1>4, SizeAssumption DEF TypeOK
    <2>2. mGraphDefLib' = mGraphDefLib /\ \A p : Key(p)' = Key(p)
      BY <1>2, <1>3 DEF Key
    <2>3. freed' \subseteq Defs
      BY <1>1, <1>2 DEF TypeOK
    <2> QED BY <2>1, <2>2, <2>3, <1>1, <1>2, <1>3, <1>4 DEF TypeOK, reading
  <1>8. /\ \A p : Users(p)' = Users(p)
        /\ \A p : InLib(p)' <=> InLib(p)
    BY <1>2 DEF Users, InLib
  <1>9. ASSUME NEW d \in Defs
        PROVE  OneWay(d, Original(d))' /\ Counted(d, Original(d))'
    <2> DEFINE p == Original(d)
    <2>1. OneWay(d, p) /\ Counted(d, p) /\ p.is = "original"
      BY <1>1, Kinds DEF Ways, Counts
    <2>2. (d \in freed' <=> d \in freed \/ p = o)
      BY <1>2
    <2>3. p = o => Queued(p) /\ ~Queued(p)'
      BY <2>1, <1>5
    <2> HIDE DEF p
    <2>4. OneWay(d, p)'
      BY <2>1, <2>2, <2>3, <1>2, <1>3, <1>5, <1>8 DEF OneWay
    <2>5. Counted(d, p)'
      BY <2>1, <2>2, <1>2, <1>3, <1>8 DEF Counted
    <2> QED BY <2>4, <2>5 DEF p
  <1> QED BY <1>3, <1>6, <1>7, <1>9 DEF IInv, Ways, Counts

LEMMA FreeAllInv ==
  ASSUME IInv, Careful, FreeAllGraphDefs
  PROVE  IInv'
  <1>1. /\ TypeOK /\ Once /\ Ways /\ Counts
    BY DEF IInv
  <1>2. /\ UNCHANGED <<reading, mDefs, inList, mRefCount, mDef, mDeleteGraphDefs, inDef, losses>>
        /\ freed' = freed \cup {d \in Defs : InLib(Original(d))}
        /\ mGraphDefLib' = [k \in Keys |-> None]
        /\ \A s \in Synths : mDef[s] = None
    BY DEF FreeAllGraphDefs, InLib
  <1>3. /\ Lists' /\ (\A d : d \in Pending' <=> d \in Pending) /\ UNCHANGED mName
        /\ UNCHANGED <<refused, dropped>>
    BY <1>2, SameLists DEF losses
  <1>4. TypeOK' /\ Once'
    BY <1>1, <1>2, <1>3 DEF TypeOK, Once, reading
  <1>5. /\ \A p \in GraphDef : Users(p)' = Users(p) /\ Users(p) = {} /\ ~InLib(p)'
        /\ \A p : Queued(p)' <=> Queued(p)
    BY <1>2, Kinds DEF Users, InLib, Queued
  <1>6. ASSUME NEW d \in Defs
        PROVE  OneWay(d, Original(d))' /\ Counted(d, Original(d))'
    <2> DEFINE p == Original(d)
    <2>1. /\ OneWay(d, p) /\ Counted(d, p) /\ p \in GraphDef
          /\ InLib(p) => mName[d] # None
      BY <1>1, Kinds, InLibFacts DEF Ways, Counts
    <2>2. d \in freed' <=> d \in freed \/ InLib(p)
      BY <1>2
    <2> HIDE DEF p
    <2>3. OneWay(d, p)'
      BY <2>1, <2>2, <1>2, <1>3, <1>5 DEF OneWay
    <2>4. Counted(d, p)'
      BY <2>1, <2>2, <1>2, <1>3, <1>5 DEF Counted
    <2> QED BY <2>3, <2>4 DEF p
  <1> QED BY <1>3, <1>4, <1>6 DEF IInv, Ways, Counts

-----------------------------------------------------------------------------
(* Stage 3 begins: a list leaves those that wait, and nothing else changes.*)
LEMMA DefineInv ==
  ASSUME IInv, Define
  PROVE  IInv'
  <1>1. /\ TypeOK /\ Lists /\ Once /\ Ways /\ Counts
        /\ mDefs \in Seq(Seq(Defs)) /\ mDefs # <<>> /\ inList = <<>> /\ Len(mDefs) \in Nat \ {0}
        /\ inList' = Head(mDefs) /\ mDefs' = Tail(mDefs)
        /\ UNCHANGED <<reading, mGraphDefLib, mRefCount, mDef, mDeleteGraphDefs, inDef, freed, losses>>
    BY DEF IInv, TypeOK, Define, Idle
  <1>2. /\ Head(mDefs) = mDefs[1] /\ Head(mDefs) \in Seq(Defs)
        /\ Tail(mDefs) \in Seq(Seq(Defs)) /\ Len(Tail(mDefs)) = Len(mDefs) - 1
        /\ \A i \in 1 .. Len(mDefs) - 1 : Tail(mDefs)[i] = mDefs[i + 1]
    BY <1>1
  <1>3. /\ UNCHANGED <<mName, mVariants, refused, dropped>>
        /\ \A p : Users(p)' = Users(p)
        /\ \A p : InLib(p)' <=> InLib(p)
        /\ \A p : Queued(p)' <=> Queued(p)
    BY <1>1 DEF reading, losses, Users, InLib, Queued
  <1>4. Lists'
    BY <1>1, <1>2 DEF Lists
  <1>5. \A d : d \in Pending' <=> d \in Pending
    <2> TAKE d
    <2>1. d \in Pending' <=>
            \/ \E i \in 1 .. Len(mDefs) - 1 : d \in Listed(Tail(mDefs)[i])
            \/ d \in Listed(mDefs[1])
      BY <1>1, <1>2 DEF Pending
    <2>0. Len(inList) = 0 /\ d \notin Listed(inList)
      BY <1>1 DEF Listed
    <2>2. d \in Pending <=> \E i \in 1 .. Len(mDefs) : d \in Listed(mDefs[i])
      BY <2>0 DEF Pending
    <2>3. \A i \in 1 .. Len(mDefs) : 
             i # 1 => i - 1 \in 1 .. Len(mDefs) - 1 /\ mDefs[i] = Tail(mDefs)[i - 1]
      BY <1>1, <1>2
    <2>4. /\ 1 \in 1 .. Len(mDefs)
          /\ \A i \in 1 .. Len(mDefs) - 1 : i + 1 \in 1 .. Len(mDefs) /\ Tail(mDefs)[i] = mDefs[i + 1]
      BY <1>1, <1>2
    <2> QED BY <2>1, <2>2, <2>3, <2>4
  <1>6. TypeOK' /\ Once'
    BY <1>1, <1>2, <1>3 DEF TypeOK, Once, Key
  <1>7. ASSUME NEW d \in Defs
        PROVE  OneWay(d, Original(d))' /\ Counted(d, Original(d))'
    <2> DEFINE p == Original(d)
    <2>1. OneWay(d, p) /\ Counted(d, p)
      BY <1>1 DEF Ways, Counts
    <2> HIDE DEF p
    <2>2. OneWay(d, p)' /\ Counted(d, p)'
      BY <2>1, <1>1, <1>3, <1>5 DEF OneWay, Counted
    <2> QED BY <2>2 DEF p
  <1> QED BY <1>4, <1>6, <1>7 DEF IInv, Ways, Counts

(* Stage 2: what was not read yet waits to be defined.                     *)
LEMMA ReadInv ==
  ASSUME IInv, NEW a \in Defs, NEW last \in Defs, a <= last, Read(a, last)
  PROVE  IInv'
  <1> DEFINE new == [i \in 1 .. last - a + 1 |-> a + i - 1]
  <1>1. /\ TypeOK /\ Lists /\ Once /\ Ways /\ Counts
        /\ mDefs \in Seq(Seq(Defs)) /\ Len(mDefs) \in Nat
    BY DEF IInv, TypeOK
  <1>2. /\ \A e \in Defs : mName[e] # None <=> e < a
        /\ mName' \in [Defs -> Names \cup {None}]
        /\ \A e \in Defs : IF e \in a .. last THEN mName'[e] # None ELSE mName'[e] = mName[e]
        /\ \E some \in SUBSET (IF Variants THEN a .. last ELSE {}) : mVariants' = mVariants \cup some
        /\ mRefCount' = [o \in GraphDef |-> IF o.def \in a .. last THEN 1 ELSE mRefCount[o]]
        /\ mDefs' = Append(mDefs, new)
        /\ UNCHANGED <<inList, mGraphDefLib, mDef, mDeleteGraphDefs, inDef, freed, losses>>
    BY DEF Read
  <1>3. /\ a .. last \subseteq Defs /\ a \in Nat /\ last \in Nat /\ \A e \in Defs : e \in Int
        /\ \A e \in a .. last : mName[e] = None
    <2>1. /\ a .. last \subseteq Defs /\ a \in Nat /\ last \in Nat
          /\ \A e \in Defs : e \in Int
      BY NumDefsAssumption DEF Defs
    <2>2. ASSUME NEW e \in a .. last PROVE mName[e] = None
      <3>1. e \in Defs /\ ~(e < a)
        BY <2>1
      <3> QED BY <3>1, <1>2
    <2> QED BY <2>1, <2>2
  <1>4. /\ new \in Seq(Defs) /\ Len(new) = last - a + 1
        /\ \A i \in 1 .. last - a + 1 : new[i] = a + i - 1
        /\ Distinct(new) /\ Listed(new) = a .. last
    <2>1. \A i \in 1 .. last - a + 1 : a + i - 1 \in a .. last
      BY <1>3
    <2>2. new \in [1 .. last - a + 1 -> Defs] /\ last - a + 1 \in Nat
      BY <2>1, <1>3
    <2>3. new \in Seq(Defs) /\ Len(new) = last - a + 1
      BY <2>2
    <2>4. \A i \in 1 .. last - a + 1 : new[i] = a + i - 1
      OBVIOUS
    <2>5. Distinct(new)
      BY <2>3, <2>4, <1>3 DEF Distinct
    <2>6. \A e \in a .. last : e - a + 1 \in 1 .. last - a + 1 /\ a + (e - a + 1) - 1 = e
      BY <1>3
    <2> HIDE DEF new
    <2>7. Listed(new) = a .. last
      BY <2>1, <2>3, <2>4, <2>6 DEF Listed
    <2> QED BY <2>3, <2>4, <2>5, <2>7
  <1> HIDE DEF new
  <1>5. /\ Append(mDefs, new) \in Seq(Seq(Defs)) /\ Len(Append(mDefs, new)) = Len(mDefs) + 1
        /\ \A i \in 1 .. Len(mDefs) : Append(mDefs, new)[i] = mDefs[i]
        /\ Append(mDefs, new)[Len(mDefs) + 1] = new
    BY <1>1, <1>4
  <1>6. /\ UNCHANGED <<refused, dropped>>
        /\ \A p : Users(p)' = Users(p)
        /\ \A p : InLib(p)' <=> InLib(p)
        /\ \A p : Queued(p)' <=> Queued(p)
    BY <1>2 DEF losses, Users, InLib, Queued
  <1>7. \A e : e \in Pending' <=> e \in Pending \/ e \in a .. last
    <2> TAKE e
    <2>1. e \in Pending' <=>
            \/ \E i \in 1 .. Len(mDefs) + 1 : e \in Listed(Append(mDefs, new)[i])
            \/ e \in Listed(inList)
      BY <1>2, <1>5 DEF Pending
    <2>2. e \in Pending <=>
            (\E i \in 1 .. Len(mDefs) : e \in Listed(mDefs[i])) \/ e \in Listed(inList)
      BY DEF Pending
    <2>3. 1 .. Len(mDefs) + 1 = 1 .. Len(mDefs) \cup {Len(mDefs) + 1}
      BY <1>1
    <2> QED BY <2>1, <2>2, <2>3, <1>4, <1>5
  <1>8. \A e \in a .. last : e \notin Pending
    BY <1>1, <1>3 DEF Ways, OneWay
  <1>9. Lists'
    <2>1. \A i \in 1 .. Len(mDefs) : Listed(mDefs[i]) \cap Listed(new) = {}
      BY <1>4, <1>8 DEF Pending
    <2>2. Listed(inList) \cap Listed(new) = {}
      BY <1>4, <1>8 DEF Pending
    <2>3. \A i \in 1 .. Len(mDefs) + 1 : i \in 1 .. Len(mDefs) \/ i = Len(mDefs) + 1
      BY <1>1
    <2>4. \A i \in 1 .. Len(mDefs) + 1 :
             Distinct(Append(mDefs, new)[i]) /\ Listed(Append(mDefs, new)[i]) \cap Listed(inList) = {}
      BY <1>1, <1>4, <1>5, <2>2, <2>3 DEF Lists
    <2>5. \A i, j \in 1 .. Len(mDefs) + 1 :
             i # j => Listed(Append(mDefs, new)[i]) \cap Listed(Append(mDefs, new)[j]) = {}
      BY <1>1, <1>5, <2>1, <2>3 DEF Lists
    <2>6. Distinct(inList)
      BY <1>1 DEF Lists
    <2> QED BY <1>2, <1>5, <2>4, <2>5, <2>6 DEF Lists
  <1>10. TypeOK' /\ Once'
    <2>1. \A k \in Keys : mGraphDefLib[k] # None => Key(mGraphDefLib[k])' = k
      <3>1. ASSUME NEW k \in Keys, mGraphDefLib[k] # None, NEW o, o = mGraphDefLib[k]
            PROVE  [name |-> mName'[o.def], is |-> o.is] = k
        <4>1. o \in GraphDef /\ Key(o) = k /\ mName[o.def] # None /\ o.def \in Defs
          BY <1>1, <3>1, LibFacts, Kinds
        <4>2. mName'[o.def] = mName[o.def]
          BY <4>1, <1>2, <1>3
        <4> QED BY <4>1, <4>2 DEF Key
      <3> QED BY <3>1, <1>2 DEF Key
    <2>2. mRefCount' \in [GraphDef -> Int] /\ mVariants' \subseteq Defs
      BY <1>1, <1>2, <1>3 DEF TypeOK
    <2> QED BY <2>1, <2>2, <1>1, <1>2, <1>5, <1>6 DEF TypeOK, Once, Key
  <1>11. ASSUME NEW e \in Defs
         PROVE  OneWay(e, Original(e))' /\ Counted(e, Original(e))'
    <2> DEFINE p == Original(e)
    <2>1. /\ OneWay(e, p) /\ Counted(e, p) /\ p \in GraphDef /\ p.def = e
          /\ InLib(p) => mName[e] # None
      BY <1>1, Kinds, InLibFacts DEF Ways, Counts
    <2>2. CASE e \in a .. last
      <3>1. mName[e] = None /\ mName'[e] # None /\ e \in Pending' /\ mRefCount'[p] = 1
        BY <2>1, <2>2, <1>2, <1>3, <1>7
      <3> HIDE DEF p
      <3>2. /\ Users(p)' = {} /\ ~InLib(p)' /\ ~Queued(p)' /\ p \notin refused' /\ e \notin freed'
        BY <3>1, <2>1, <1>2, <1>6 DEF OneWay
      <3>3. OneWay(e, p)' /\ Counted(e, p)'
        BY <3>1, <3>2, NoUsers DEF OneWay, Counted
      <3> QED BY <3>3 DEF p
    <2>3. CASE e \notin a .. last
      <3>1. mName'[e] = mName[e] /\ (e \in Pending' <=> e \in Pending) /\ mRefCount'[p] = mRefCount[p]
        BY <2>1, <2>3, <1>2, <1>7
      <3> HIDE DEF p
      <3>2. OneWay(e, p)' /\ Counted(e, p)'
        BY <3>1, <2>1, <1>2, <1>6 DEF OneWay, Counted
      <3> QED BY <3>2 DEF p
    <2> QED BY <2>2, <2>3
  <1> QED BY <1>9, <1>10, <1>11 DEF IInv, Ways, Counts

(* One definition is defined: what the table holds afterwards, and to      *)
(* whom the name then belongs.                                             *)
Entered(d, o, k, prev) ==
    /\ d \in Defs /\ o \in GraphDef /\ k \in Keys /\ d \in Pending /\ mName[d] # None
    /\ prev # None => prev \in GraphDef /\ prev.is = "original" /\ InLib(prev)
    /\ prev # o /\ (prev # None => ~InLib(prev)')
    /\ InLib(o)' \/ o \in refused'
    /\ InLib(o)' => o \notin refused'
    /\ \A p \in GraphDef : p.is = "original" /\ p # o =>
          /\ p \in refused' <=> p \in refused
          /\ p # prev => (InLib(p)' <=> InLib(p))
    /\ mGraphDefLib' \in [Keys -> GraphDef \cup {None}]
    /\ \A l \in Keys : mGraphDefLib'[l] # None => Key(mGraphDefLib'[l]) = l
    /\ refused' \subseteq GraphDef

LEMMA DefineOneLib ==
  ASSUME IInv, DefineOne, NEW d, d = Head(inList), NEW o, o = Original(d),
         NEW k, k = Key(o), NEW prev, prev = mGraphDefLib[k]
  PROVE  Entered(d, o, k, prev)
  <1> DEFINE kept == IF {prev} \ {None} = {} THEN mGraphDefLib ELSE Without(prev)
             first == Added(kept, o)
             lib == IF d \in mVariants THEN Added(first, Variant(d)) ELSE first
             fresh == {o} \cup IF d \in mVariants THEN {Variant(d)} ELSE {}
  <1>1. /\ TypeOK /\ Ways /\ inList \in Seq(Defs) /\ inList # <<>>
        /\ mGraphDefLib \in [Keys -> GraphDef \cup {None}]
        /\ mGraphDefLib' = lib /\ refused' = refused \cup {p \in fresh : lib[Key(p)] # p}
    BY DEF IInv, TypeOK, DefineOne
  <1>2. d \in Defs /\ d \in Pending
    <2>1. 1 \in 1 .. Len(inList) /\ d = inList[1] /\ d \in Defs
      BY <1>1
    <2> QED BY <2>1, PendingFacts
  <1>3. /\ mName[d] # None /\ ~InLib(o) /\ o \notin refused
    BY <1>1, <1>2 DEF Ways, OneWay
  <1>4. /\ o \in GraphDef /\ o.def = d /\ o.is = "original" /\ o # None
        /\ Variant(d) \in GraphDef /\ Variant(d).def = d /\ Variant(d).is = "variant"
        /\ Variant(d) # None
    BY <1>2, Kinds
  <1>5. k \in Keys /\ k.is = "original" /\ Key(Variant(d)) \in Keys /\ Key(Variant(d)).is = "variant"
    BY <1>1, <1>3, <1>4, KeyFacts
  <1>6. /\ prev # None => prev \in GraphDef /\ prev.is = "original" /\ InLib(prev)
        /\ prev # o
    BY <1>1, <1>3, <1>5, LibFacts DEF InLib
  <1>7. /\ kept \in [Keys -> GraphDef \cup {None}] /\ kept[k] = None
        /\ \A l \in Keys : kept[l] # None => kept[l] = mGraphDefLib[l] /\ kept[l] # prev
        /\ \A l \in Keys : mGraphDefLib[l] # None /\ mGraphDefLib[l].is = "original"
                              /\ mGraphDefLib[l] # prev => kept[l] = mGraphDefLib[l]
    <2>1. CASE prev = None
      BY <2>1, <1>1, <1>5
    <2>2. CASE prev # None
      <3>1. kept = Without(prev)
        BY <2>2
      <3>2. prev.def \in Defs /\ Variant(prev.def).is = "variant"
        BY <2>2, <1>6, Kinds
      <3> QED BY <3>1, <3>2, <1>1, <1>5 DEF Without
    <2> QED BY <2>1, <2>2
  <1> HIDE DEF kept
  <1>8. /\ first \in [Keys -> GraphDef \cup {None}]
        /\ \A l \in Keys : l # k => first[l] = kept[l]
        /\ first[k] = o \/ first[k] = None
    BY <1>4, <1>5, <1>7 DEF Added
  <1> HIDE DEF first
  <1>9. /\ lib \in [Keys -> GraphDef \cup {None}]
        /\ \A l \in Keys : l # Key(Variant(d)) => lib[l] = first[l]
        /\ lib[Key(Variant(d))] = first[Key(Variant(d))] \/ lib[Key(Variant(d))] = Variant(d)
    BY <1>4, <1>5, <1>8 DEF Added
  <1> HIDE DEF lib
  <1>10. \A l \in Keys : lib[l] # None => \/ l = k /\ lib[l] = o
                                          \/ l = Key(Variant(d)) /\ lib[l] = Variant(d)
                                          \/ lib[l] = mGraphDefLib[l] /\ lib[l] # prev
    BY <1>5, <1>7, <1>8, <1>9
  <1>11. \A l \in Keys : lib[l] # None => Key(lib[l]) = l
    BY <1>1, <1>10, LibFacts
  <1>12. prev # None => ~InLib(prev)'
    BY <1>1, <1>4, <1>6, <1>10 DEF InLib
  <1>13. lib[k] = o \/ lib[k] = None
    BY <1>5, <1>8, <1>9
  <1>14. /\ InLib(o)' <=> lib[k] = o
    <2>1. InLib(o)' => lib[k] = o
      BY <1>1, <1>4, <1>9, <1>11 DEF InLib
    <2> QED BY <2>1, <1>1, <1>5 DEF InLib
  <1>15. o \in refused' <=> lib[k] # o
    BY <1>1, <1>3
  <1>16. ASSUME NEW p \in GraphDef, p.is = "original", p # o
         PROVE  /\ p \in refused' <=> p \in refused
                /\ p # prev => (InLib(p)' <=> InLib(p))
    <2>1. p \notin fresh
      BY <1>4, <1>16
    <2>2. p \in refused' <=> p \in refused
      BY <1>1, <2>1
    <2>3. InLib(p)' => InLib(p)
      BY <1>1, <1>4, <1>10, <1>16, Kinds DEF InLib
    <2>4. ASSUME InLib(p), p # prev PROVE InLib(p)'
      <3>1. PICK l \in Keys : mGraphDefLib[l] = p
        BY <2>4 DEF InLib
      <3>2. l.is = "original" /\ l # k /\ p # None
        BY <3>1, <2>4, <1>1, <1>16, LibFacts, Kinds
      <3>3. lib[l] = p
        BY <3>1, <3>2, <2>4, <1>5, <1>7, <1>8, <1>9, <1>16
      <3> QED BY <3>3, <1>1 DEF InLib
    <2> QED BY <2>2, <2>3, <2>4
  <1>17. refused' \subseteq GraphDef
    <2>1. fresh \subseteq GraphDef /\ refused \subseteq GraphDef
      BY <1>1, <1>4 DEF TypeOK
    <2> QED BY <2>1, <1>1
  <1> QED BY <1>1, <1>2, <1>3, <1>4, <1>5, <1>6, <1>9, <1>11, <1>12, <1>13, <1>14, <1>15, <1>16,
             <1>17 DEF Entered

LEMMA DefineOneInv ==
  ASSUME IInv, DefineOne
  PROVE  IInv'
  <1>0. PICK d : d = Head(inList)
    OBVIOUS
  <1>01. PICK o : o = Original(d)
    OBVIOUS
  <1>02. PICK k : k = Key(o)
    OBVIOUS
  <1>03. PICK prev : prev = mGraphDefLib[k]
    OBVIOUS
  <1> DEFINE os == {p \in {prev} \ {None} : mRefCount[p] = 1}
  <1>1. /\ TypeOK /\ Lists /\ Once /\ Ways /\ Counts /\ inList \in Seq(Defs) /\ inList # <<>>
        /\ mRefCount \in [GraphDef -> Int] /\ Len(inList) \in Nat \ {0}
    BY DEF IInv, TypeOK, DefineOne
  <1>2. /\ UNCHANGED <<reading, mDefs, mDef, freed>> /\ inList' = Tail(inList)
        /\ mRefCount' = [p \in GraphDef |-> mRefCount[p] - IF p \in {prev} \ {None} THEN 1 ELSE 0]
        /\ DeleteMsg(os)
    BY <1>0, <1>01, <1>02, <1>03 DEF DefineOne
  <1>3. Entered(d, o, k, prev)
    BY <1>0, <1>01, <1>02, <1>03, DefineOneLib
  <1>4. /\ Tail(inList) \in Seq(Defs) /\ Len(Tail(inList)) = Len(inList) - 1 /\ d = inList[1]
        /\ \A i \in 1 .. Len(inList) - 1 : Tail(inList)[i] = inList[i + 1] /\ i + 1 \in 1 .. Len(inList)
    BY <1>0, <1>1
  <1>5. /\ Listed(Tail(inList)) = Listed(inList) \ {d} /\ Distinct(Tail(inList))
        /\ d \in Listed(inList)
    <2>1. Distinct(inList)
      BY <1>1 DEF Lists
    <2>2. \A i \in 1 .. Len(inList) - 1 : inList[i + 1] # d
      BY <1>1, <1>4, <2>1 DEF Distinct
    <2>3. \A i \in 1 .. Len(inList) :
             inList[i] # d => i - 1 \in 1 .. Len(inList) - 1 /\ Tail(inList)[i - 1] = inList[i]
      BY <1>1, <1>4
    <2>4. d \in Listed(inList)
      BY <1>1, <1>4 DEF Listed
    <2>5. Distinct(Tail(inList))
      BY <1>1, <1>4, <2>1 DEF Distinct
    <2>6. Listed(Tail(inList)) = Listed(inList) \ {d}
      <3>1. \A e : e \in Listed(Tail(inList)) => e \in Listed(inList) /\ e # d
        BY <1>4, <2>2 DEF Listed
      <3>2. \A e \in Listed(inList) : e # d => e \in Listed(Tail(inList))
        BY <1>4, <2>3 DEF Listed
      <3> QED BY <3>1, <3>2
    <2> QED BY <2>4, <2>5, <2>6
  <1>6. Lists'
    BY <1>1, <1>2, <1>5 DEF Lists
  <1>7. \A e : e \in Pending' <=> e \in Pending /\ e # d
    <2>1. \A i \in 1 .. Len(mDefs) : d \notin Listed(mDefs[i])
      BY <1>1, <1>5 DEF Lists
    <2> QED BY <2>1, <1>2, <1>5 DEF Pending
  <1>8. /\ mName' = mName /\ mVariants' = mVariants /\ \A p : Users(p)' = Users(p)
    BY <1>2 DEF reading, Users
  <1>9. ASSUME prev # None
        PROVE  prev.def \in Defs /\ prev = Original(prev.def)
    BY <1>9, <1>3, Kinds DEF Entered
  <1>10. /\ mDeleteGraphDefs' \in Seq(GraphDef) /\ Len(mDeleteGraphDefs') <= FifoSize
         /\ dropped' \subseteq GraphDef /\ inDef' \in GraphDef \cup {None} /\ Once'
         /\ \A p : Queued(p)' => Queued(p) \/ p \in os
    <2>1. CASE prev = None
      <3>1. os = {}
        BY <2>1
      <3> HIDE DEF os
      <3> QED BY <3>1, <1>1, <1>2, <1>3, Sent DEF Entered
    <2>2. CASE prev # None
      <3>1. os = {} \/ os = {prev}
        BY <2>2
      <3>2. prev \in GraphDef /\ ~Queued(prev)
        BY <2>2, <1>1, <1>3, <1>9 DEF Ways, OneWay, Entered
      <3> HIDE DEF os
      <3> QED BY <3>1, <3>2, <1>1, <1>2, Sent
    <2> QED BY <2>1, <2>2
  <1>11. TypeOK'
    <2>1. mRefCount' \in [GraphDef -> Int]
      BY <1>1, <1>2
    <2>2. \A l \in Keys : mGraphDefLib'[l] # None => Key(mGraphDefLib[l])' = l
      BY <1>3, <1>8 DEF Key, Entered
    <2> QED BY <2>1, <2>2, <1>1, <1>2, <1>3, <1>4, <1>8, <1>10 DEF TypeOK, Entered
  <1>12. ASSUME NEW e \in Defs
         PROVE  OneWay(e, Original(e))' /\ Counted(e, Original(e))'
    <2> DEFINE p == Original(e)
    <2>1. /\ OneWay(e, p) /\ Counted(e, p) /\ p \in GraphDef /\ p.def = e /\ p.is = "original"
          /\ InLib(p) => mName[e] # None
          /\ p = o <=> e = d
      BY <1>01, <1>1, <1>3, Kinds, InLibFacts DEF Ways, Counts, Entered
    <2>2. CASE e = d
      <3>1. p = o /\ p \notin os /\ mRefCount'[p] = mRefCount[p]
        BY <2>1, <2>2, <1>1, <1>2, <1>3 DEF Entered
      <3> HIDE DEF os, p
      <3>2. OneWay(e, p)'
        BY <3>1, <2>1, <2>2, <1>2, <1>3, <1>7, <1>8, <1>10 DEF OneWay, Entered
      <3>3. Counted(e, p)'
        BY <3>1, <2>1, <2>2, <1>2, <1>3, <1>7, <1>8 DEF Counted, OneWay, Entered
      <3> QED BY <3>2, <3>3 DEF p
    <2>3. CASE e # d /\ p # prev
      <3>1. /\ p \notin os /\ mRefCount'[p] = mRefCount[p]
            /\ (InLib(p)' <=> InLib(p)) /\ (p \in refused' <=> p \in refused)
            /\ (e \in Pending' <=> e \in Pending)
        BY <2>1, <2>3, <1>1, <1>2, <1>3, <1>7 DEF Entered
      <3> HIDE DEF os, p
      <3>2. OneWay(e, p)' /\ Counted(e, p)'
        BY <3>1, <2>1, <1>2, <1>8, <1>10 DEF OneWay, Counted
      <3> QED BY <3>2 DEF p
    <2>4. CASE e # d /\ p = prev
      <3>1. /\ prev # None /\ InLib(p) /\ ~InLib(p)' /\ mRefCount'[p] = mRefCount[p] - 1
            /\ (p \in refused' <=> p \in refused) /\ (e \in Pending' <=> e \in Pending)
        <4>1. prev # None
          BY <2>1, <2>4, Kinds
        <4> QED BY <4>1, <2>1, <2>4, <1>1, <1>2, <1>3, <1>7 DEF Entered
      <3>2. /\ Cardinality(Users(p)) \in Nat
            /\ Cardinality(Users(p)) = 0 => Users(p) = {}
        BY <2>1, FS_EmptySet, FS_CardinalityType DEF Counted
      <3>3. p \in os => Users(p) = {}
        BY <2>1, <2>4, <3>1, <3>2 DEF Counted, OneWay
      <3> HIDE DEF os, p
      <3>4. OneWay(e, p)'
        BY <3>1, <3>3, <2>1, <1>2, <1>8, <1>10 DEF OneWay
      <3>5. Counted(e, p)'
        BY <3>1, <3>2, <2>1, <1>2, <1>8 DEF Counted, OneWay
      <3> QED BY <3>4, <3>5 DEF p
    <2> QED BY <2>2, <2>3, <2>4
  <1> QED BY <1>6, <1>10, <1>11, <1>12 DEF IInv, Ways, Counts

-----------------------------------------------------------------------------
LEMMA StutterInv ==
  ASSUME IInv, inDef' \in {inDef, None},
         UNCHANGED <<reading, mDefs, inList, mGraphDefLib, mRefCount, mDef,
                     mDeleteGraphDefs, freed, losses>>
  PROVE  IInv'
  <1>1. /\ Lists' /\ Pending' = Pending
        /\ UNCHANGED <<mName, mVariants, mDefs, inList, mGraphDefLib, mRefCount, mDef,
                       mDeleteGraphDefs, freed, refused, dropped>>
    BY SameLists DEF reading, losses, Pending, Listed
  <1>2. /\ \A p : Users(p)' = Users(p)
        /\ \A p : InLib(p)' <=> InLib(p)
        /\ \A p : Queued(p)' <=> Queued(p)
    BY <1>1 DEF Users, InLib, Queued
  <1>3. TypeOK' /\ Once'
    BY <1>1 DEF IInv, TypeOK, Once, Key
  <1>4. ASSUME NEW d \in Defs, NEW p, p = Original(d)
        PROVE  OneWay(d, p)' /\ Counted(d, p)'
    <2>1. OneWay(d, p) /\ Counted(d, p)
      BY <1>4 DEF IInv, Ways, Counts
    <2> QED BY <2>1, <1>1, <1>2 DEF OneWay, Counted
  <1> QED BY <1>1, <1>3, <1>4 DEF IInv, Ways, Counts

LEMMA Invariance == Careful => (Spec => []IInv)
  <1> SUFFICES ASSUME Careful PROVE Spec => []IInv
    OBVIOUS
  <1>1. Init => IInv
    BY InitInv
  <1>2. IInv /\ [Next]_vars => IInv'
    <2> SUFFICES ASSUME IInv, [Next]_vars PROVE IInv'
      OBVIOUS
    <2>1. CASE NRTThread
      BY <2>1, FreeInv DEF NRTThread
    <2>2. CASE AudioThread
      BY <2>2, DefineInv, DefineOneInv, StutterInv DEF AudioThread, SendRemoved
    <2>3. CASE Client
      BY <2>3, ReadInv, RemoveInv, FreeAllInv, NewInv, EndInv DEF Client
    <2>4. CASE UNCHANGED vars
      BY <2>4, StutterInv DEF vars
    <2> QED BY <2>1, <2>2, <2>3, <2>4 DEF Next
  <1> QED BY <1>1, <1>2, PTL DEF Spec

(* Whatever is redefined, removed or refused while synths go on, the       *)
(* memory of a definition is not freed as long as a synth plays it, a name *)
(* stands for it or a command has still to define it: GraphDef_Define,     *)
(* GraphDef_Remove and Graph_Dtor send it to be freed when the last of     *)
(* them lets go.  /d_freeAll breaks it, hence Careful.                     *)
THEOREM OriginalsOutliveTheirUse == Careful => (Spec => []OriginalsOutliveUse)
  <1>1. IInv => OriginalsOutliveUse
    <2> SUFFICES ASSUME IInv, NEW d \in Defs, NEW o, o = Original(d) PROVE OutlivesUse(o)
      BY DEF OriginalsOutliveUse
    <2>1. OneWay(d, o) /\ o.def = d
      BY Kinds DEF IInv, Ways
    <2> QED BY <2>1 DEF OneWay, OutlivesUse
  <1> QED BY <1>1, Invariance, PTL

(* No original is sent through mDeleteGraphDefs twice, by the command that *)
(* takes its name and by the end of its last synth, or with anything that  *)
(* refers to it left.                                                      *)
THEOREM SentOnceToBeFreed == Careful => (Spec => []DeletedOnce)
  <1>1. IInv => DeletedOnce
    <2> SUFFICES ASSUME IInv, NEW i \in 1 .. Len(mDeleteGraphDefs), NEW o, o = mDeleteGraphDefs[i],
                        o.is = "original"
                 PROVE  /\ o.def \notin freed \cup Pending /\ Users(o) = {} /\ ~InLib(o)
                        /\ \A j \in 1 .. Len(mDeleteGraphDefs) : mDeleteGraphDefs[j] = o => j = i
      BY DEF DeletedOnce
    <2>1. o \in GraphDef /\ Queued(o)
      BY DEF IInv, TypeOK, Queued
    <2>2. o.def \in Defs /\ o = Original(o.def)
      BY <2>1, Kinds
    <2>3. OneWay(o.def, o)
      BY <2>2 DEF IInv, Ways
    <2>4. \A j \in 1 .. Len(mDeleteGraphDefs) : mDeleteGraphDefs[j] = o => j = i
      BY DEF IInv, Once
    <2> QED BY <2>1, <2>3, <2>4 DEF OneWay
  <1> QED BY <1>1, Invariance, PTL

(* mRefCount is the number of a definition's synths, and one more for its  *)
(* name, through every order of redefinitions, removals and ends; a        *)
(* definition the full table refused keeps the one it was read with.       *)
THEOREM CountsAreExact == Careful => (Spec => []RefCountExact)
  <1>1. IInv => RefCountExact
    <2> SUFFICES ASSUME IInv PROVE RefCountExact
      OBVIOUS
    <2>1. TypeOK
      BY DEF IInv
    <2>2. ASSUME NEW d \in Defs, mName[d] # None, d \notin freed, NEW o, o = Original(d)
          PROVE  mRefCount[o] = Cardinality(Users(o))
                   + IF InLib(o) \/ d \in Pending \/ o \in refused THEN 1 ELSE 0
      BY <2>2 DEF IInv, Counts, Counted
    <2> QED BY <2>1, <2>2 DEF RefCountExact
  <1> QED BY <1>1, Invariance, PTL
=============================================================================
