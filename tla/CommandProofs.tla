--------------------------- MODULE CommandProofs ----------------------------
(***************************************************************************)
(* Proofs about SequencedCommands, for any number of commands of any of    *)
(* the kinds and fifos of any capacity: whatever a full fifo loses, every  *)
(* command object has one owner, its stages alternate between the threads, *)
(* it is answered once, and a /synced after all that came before it.       *)
(* Then about BufferCommands, for any number of buffers too and whether or *)
(* not there is memory: as long as no buffer that has data is allocated    *)
(* anew with no samples, what the audio thread may use is allocated, data  *)
(* is freed once, a sound file that is open is one that can be closed, and *)
(* the two descriptors of a buffer agree once no command is under way.     *)
(***************************************************************************)
EXTENDS BufferCommands, TLAPS, FiniteSetTheorems

(* The commands that a fifo's messages name, those it asks to perform and  *)
(* the members of a sequence; that no two messages, or members, agree.     *)
CmdsIn(q) == {q[i].cmd : i \in 1 .. Len(q)}
DosIn(q) == {c \in Cmds : \E i \in 1 .. Len(q) : q[i] = Do(c)}
In(s) == {s[i] : i \in 1 .. Len(s)}
OneEach(q) == \A i, j \in 1 .. Len(q) : q[i].cmd = q[j].cmd => i = j
Distinct(s) == \A i, j \in 1 .. Len(s) : s[i] = s[j] => i = j

(* The fifos hold no more than they have room for.                         *)
Room ==
    /\ fromEngine \in Seq(FifoMsgs) /\ toEngine \in Seq(FifoMsgs)
    /\ fromSpent \in Nat /\ toSpent \in Nat
    /\ Len(fromEngine) + fromSpent <= Capacity
    /\ Len(toEngine) + toSpent <= Capacity

(* No command is named twice by the packets, nor by the waiting messages.  *)
Once ==
    /\ Distinct(packets) /\ OneEach(fromEngine) /\ OneEach(toEngine)
    /\ CmdsIn(fromEngine) \cap CmdsIn(toEngine) = {}

(* What a command's place says of its stage.                               *)
Stages ==
    /\ \A c \in In(packets) : mNextStage[c] = 1 /\ kind[c] # None
    /\ \A c \in CmdsIn(fromEngine) : c \notin freed /\ mNextStage[c] \in {2, 4}
    /\ \A c \in CmdsIn(toEngine) : c \notin freed /\ mNextStage[c] # 1
    /\ \A c \in DosIn(toEngine) : mNextStage[c] = 3
    /\ \A c \in freed : mNextStage[c] # 1
    /\ \A c \in Cmds : c \notin freed => msgFrees[c] = 0

(* A command in a completion message is the next one, and starts with the  *)
(* stage 3 of the one that carries it.                                     *)
Completions ==
    /\ \A c \in Cmds : kind[c] = None =>
          /\ completion[c] = None /\ mNextStage[c] = 1
          /\ \A e \in Cmds : e > c => kind[e] = None
    /\ \A c, d \in Cmds : completion[c] = d =>
          /\ d = c + 1 /\ kind[d] # None /\ d \notin In(packets)
          /\ mNextStage[c] <= 3 => mNextStage[d] = 1

(* A command that was answered has only its end to come.                   *)
Answered ==
    /\ Distinct(replies)
    /\ \A c \in In(replies) :
          mNextStage[c] # 1 /\ c \notin CmdsIn(fromEngine) /\ c \notin DosIn(toEngine)

IInv == TypeOK /\ Room /\ Once /\ Stages /\ Completions /\ Answered

-----------------------------------------------------------------------------
(* A fifo keeps what waits in it and takes the new messages in their order *)
(* as long as there is room.                                               *)
LEMMA AppendFacts ==
  ASSUME NEW S, NEW q \in Seq(S), NEW t \in Seq(S)
  PROVE  /\ q \o t \in Seq(S) /\ Len(q \o t) = Len(q) + Len(t)
         /\ Len(q) \in Nat /\ Len(t) \in Nat
         /\ \A i \in 1 .. Len(q) : (q \o t)[i] = q[i]
         /\ \A i \in 1 .. Len(q \o t) : i > Len(q) =>
               i - Len(q) \in 1 .. Len(t) /\ (q \o t)[i] = t[i - Len(q)]
  OBVIOUS

Written(q, spent, msgs, r) ==
    /\ r \in Seq(FifoMsgs) /\ Len(r) \in Nat /\ Len(r) + spent <= Capacity
    /\ \A i \in 1 .. Len(r) :
          \/ i \in 1 .. Len(q) /\ r[i] = q[i]
          \/ i > Len(q) /\ i - Len(q) \in 1 .. Len(msgs) /\ r[i] = msgs[i - Len(q)]

LEMMA WriteFacts ==
  ASSUME NEW q \in Seq(FifoMsgs), NEW spent \in Nat, Len(q) + spent <= Capacity,
         NEW msgs \in Seq(FifoMsgs), NEW r, r = Write(q, spent, msgs)
  PROVE  Written(q, spent, msgs, r)
  <1> SUFFICES /\ r \in Seq(FifoMsgs) /\ Len(r) \in Nat /\ Len(r) + spent <= Capacity
               /\ \A i \in 1 .. Len(r) :
                     \/ i \in 1 .. Len(q) /\ r[i] = q[i]
                     \/ i > Len(q) /\ i - Len(q) \in 1 .. Len(msgs) /\ r[i] = msgs[i - Len(q)]
    BY DEF Written
  <1>1. CASE Len(q) + spent + Len(msgs) <= Capacity
    <2>1. r = q \o msgs
      BY <1>1 DEF Write
    <2>2. /\ r \in Seq(FifoMsgs) /\ Len(r) = Len(q) + Len(msgs)
          /\ Len(q) \in Nat /\ Len(msgs) \in Nat
          /\ \A i \in 1 .. Len(q) : r[i] = q[i]
          /\ \A i \in 1 .. Len(r) : i > Len(q) =>
                i - Len(q) \in 1 .. Len(msgs) /\ r[i] = msgs[i - Len(q)]
      BY ONLY <2>1, q \in Seq(FifoMsgs), msgs \in Seq(FifoMsgs), AppendFacts
    <2> QED BY <1>1, <2>2, CapacityAssumption
  <1>2. CASE ~(Len(q) + spent + Len(msgs) <= Capacity)
    <2> DEFINE n == Capacity - Len(q) - spent
               taken == SubSeq(msgs, 1, n)
    <2>1. n \in 0 .. Len(msgs) /\ Len(msgs) \in Nat
      BY <1>2, CapacityAssumption
    <2>2. /\ taken \in Seq(FifoMsgs) /\ Len(taken) = n
          /\ \A i \in 1 .. n : taken[i] = msgs[i]
      BY <2>1
    <2>3. r = q \o taken
      BY <1>2 DEF Write
    <2> HIDE DEF taken
    <2>4. /\ r \in Seq(FifoMsgs) /\ Len(r) = Len(q) + Len(taken)
          /\ Len(q) \in Nat /\ Len(taken) \in Nat
          /\ \A i \in 1 .. Len(q) : r[i] = q[i]
          /\ \A i \in 1 .. Len(r) : i > Len(q) =>
                i - Len(q) \in 1 .. Len(taken) /\ r[i] = taken[i - Len(q)]
      BY ONLY SMTT(40), <2>2, <2>3, q \in Seq(FifoMsgs), AppendFacts
    <2>5. \A i \in 1 .. Len(taken) : i \in 1 .. Len(msgs) /\ taken[i] = msgs[i]
      BY <2>1, <2>2
    <2>6. Len(r) + spent <= Capacity
      BY <2>1, <2>2, <2>4, CapacityAssumption
    <2>7. ASSUME NEW i \in 1 .. Len(r)
          PROVE  \/ i \in 1 .. Len(q) /\ r[i] = q[i]
                 \/ i > Len(q) /\ i - Len(q) \in 1 .. Len(msgs) /\ r[i] = msgs[i - Len(q)]
      <3>1. CASE i <= Len(q)
        BY ONLY <2>4, <3>1, i \in 1 .. Len(r)
      <3>2. CASE i > Len(q)
        <4>1. i - Len(q) \in 1 .. Len(taken) /\ r[i] = taken[i - Len(q)]
          BY ONLY <2>4, <3>2, i \in 1 .. Len(r)
        <4>2. i - Len(q) \in 1 .. Len(msgs) /\ taken[i - Len(q)] = msgs[i - Len(q)]
          BY ONLY <2>5, <4>1
        <4> QED BY ONLY <3>2, <4>1, <4>2
      <3> QED BY ONLY <3>1, <3>2, <2>4, i \in 1 .. Len(r)
    <2> QED BY ONLY <2>4, <2>6, <2>7
  <1> QED BY <1>1, <1>2

(* A message that is written comes last.                                   *)
WrittenOne(q, spent, m, r) ==
    /\ r \in Seq(FifoMsgs) /\ Len(r) \in Nat /\ Len(r) + spent <= Capacity
    /\ \A i \in 1 .. Len(r) :
          \/ i \in 1 .. Len(q) /\ r[i] = q[i]
          \/ i = Len(q) + 1 /\ r[i] = m

LEMMA WriteOne ==
  ASSUME NEW q \in Seq(FifoMsgs), NEW spent \in Nat, Len(q) + spent <= Capacity,
         NEW m \in FifoMsgs, NEW r, r = Write(q, spent, <<m>>)
  PROVE  WrittenOne(q, spent, m, r)
  <1> SUFFICES /\ r \in Seq(FifoMsgs) /\ Len(r) \in Nat /\ Len(r) + spent <= Capacity
               /\ \A i \in 1 .. Len(r) :
                     \/ i \in 1 .. Len(q) /\ r[i] = q[i]
                     \/ i = Len(q) + 1 /\ r[i] = m
    BY DEF WrittenOne
  <1> DEFINE msgs == <<m>>
  <1>1. msgs \in Seq(FifoMsgs) /\ Len(msgs) = 1 /\ msgs[1] = m
    OBVIOUS
  <1>0. r = Write(q, spent, msgs) /\ Len(q) \in Nat
    OBVIOUS
  <1> HIDE DEF msgs
  <1>2. /\ r \in Seq(FifoMsgs) /\ Len(r) \in Nat /\ Len(r) + spent <= Capacity
        /\ \A i \in 1 .. Len(r) :
              \/ i \in 1 .. Len(q) /\ r[i] = q[i]
              \/ i > Len(q) /\ i - Len(q) \in 1 .. Len(msgs) /\ r[i] = msgs[i - Len(q)]
    <2>1. Written(q, spent, msgs, r)
      BY <1>0, <1>1, WriteFacts
    <2> QED BY ONLY <2>1 DEF Written
  <1>3. ASSUME NEW i \in 1 .. Len(r), ~(i \in 1 .. Len(q) /\ r[i] = q[i])
        PROVE  i = Len(q) + 1 /\ r[i] = m
    <2>1. i - Len(q) \in 1 .. 1 /\ r[i] = msgs[i - Len(q)]
      BY <1>1, <1>2, <1>3
    <2>2. i - Len(q) = 1 /\ i = Len(q) + 1
      BY <1>0, <2>1
    <2> QED BY <2>1, <2>2, <1>1
  <1> QED BY <1>2, <1>3

WrittenTwo(q, spent, m, n, r) ==
    /\ r \in Seq(FifoMsgs) /\ Len(r) \in Nat /\ Len(r) + spent <= Capacity
    /\ \A i \in 1 .. Len(r) :
          \/ i \in 1 .. Len(q) /\ r[i] = q[i]
          \/ i = Len(q) + 1 /\ r[i] = m
          \/ i = Len(q) + 2 /\ r[i] = n

LEMMA WriteTwo ==
  ASSUME NEW q \in Seq(FifoMsgs), NEW spent \in Nat, Len(q) + spent <= Capacity,
         NEW m \in FifoMsgs, NEW n \in FifoMsgs, NEW r, r = Write(q, spent, <<m, n>>)
  PROVE  WrittenTwo(q, spent, m, n, r)
  <1> SUFFICES /\ r \in Seq(FifoMsgs) /\ Len(r) \in Nat /\ Len(r) + spent <= Capacity
               /\ \A i \in 1 .. Len(r) :
                     \/ i \in 1 .. Len(q) /\ r[i] = q[i]
                     \/ i = Len(q) + 1 /\ r[i] = m
                     \/ i = Len(q) + 2 /\ r[i] = n
    BY DEF WrittenTwo
  <1> DEFINE msgs == <<m, n>>
  <1>1. msgs \in Seq(FifoMsgs) /\ Len(msgs) = 2 /\ msgs[1] = m /\ msgs[2] = n
    OBVIOUS
  <1>0. r = Write(q, spent, msgs) /\ Len(q) \in Nat
    OBVIOUS
  <1> HIDE DEF msgs
  <1>2. /\ r \in Seq(FifoMsgs) /\ Len(r) \in Nat /\ Len(r) + spent <= Capacity
        /\ \A i \in 1 .. Len(r) :
              \/ i \in 1 .. Len(q) /\ r[i] = q[i]
              \/ /\ i > Len(q) /\ i - Len(q) \in 1 .. Len(msgs)
                 /\ r[i] = msgs[i - Len(q)]
    <2>1. Written(q, spent, msgs, r)
      BY <1>0, <1>1, WriteFacts
    <2> QED BY ONLY <2>1 DEF Written
  <1>3. ASSUME NEW i \in 1 .. Len(r), ~(i \in 1 .. Len(q) /\ r[i] = q[i])
        PROVE  (i = Len(q) + 1 /\ r[i] = m) \/ (i = Len(q) + 2 /\ r[i] = n)
    <2>1. i - Len(q) \in 1 .. 2 /\ r[i] = msgs[i - Len(q)]
      BY <1>1, <1>2, <1>3
    <2>2. i \in Int
      BY <1>2
    <2>3. (i - Len(q) = 1 /\ i = Len(q) + 1) \/ (i - Len(q) = 2 /\ i = Len(q) + 2)
      BY ONLY <1>0, <2>1, <2>2
    <2> QED BY <2>1, <2>3, <1>1
  <1> QED BY <1>2, <1>3

(* The messages.                                                           *)
LEMMA MsgFacts ==
  ASSUME NEW c \in Cmds
  PROVE  /\ Do(c) \in FifoMsgs /\ Do(c).cmd = c /\ Do(c).func = "do"
         /\ Free(c) \in FifoMsgs /\ Free(c).cmd = c /\ Free(c).func = "free"
         /\ \A d \in Cmds : Free(c) # Do(d) /\ (Do(c) = Do(d) => c = d)
  BY DEF Do, Free, FifoMsgs

LEMMA NamedCmds ==
  ASSUME NEW q \in Seq(FifoMsgs)
  PROVE  CmdsIn(q) \subseteq Cmds /\ DosIn(q) \subseteq CmdsIn(q)
  <1>1. \A i \in 1 .. Len(q) : q[i] \in FifoMsgs /\ q[i].cmd \in Cmds
    <2>1. \A i \in 1 .. Len(q) : q[i] \in FifoMsgs
      OBVIOUS
    <2>2. \A m \in FifoMsgs : m.cmd \in Cmds
      BY DEF FifoMsgs
    <2> QED BY <2>1, <2>2
  <1>2. DosIn(q) \subseteq CmdsIn(q)
    BY MsgFacts DEF DosIn, CmdsIn
  <1> QED BY <1>1, <1>2 DEF CmdsIn

(* What the first message named is named by no other, and is gone with it. *)
LEMMA TailFacts ==
  ASSUME NEW q \in Seq(FifoMsgs), q # <<>>, OneEach(q), NEW m, m = Head(q)
  PROVE  /\ Tail(q) \in Seq(FifoMsgs) /\ Len(Tail(q)) + 1 = Len(q) /\ Len(Tail(q)) \in Nat
         /\ OneEach(Tail(q)) /\ CmdsIn(Tail(q)) \subseteq CmdsIn(q) \ {m.cmd}
         /\ DosIn(Tail(q)) \subseteq DosIn(q)
         /\ m.cmd \in CmdsIn(q) /\ \A c \in Cmds : m = Do(c) => c \in DosIn(q)
  <1>1. /\ Tail(q) \in Seq(FifoMsgs) /\ Len(Tail(q)) + 1 = Len(q) /\ Len(Tail(q)) \in Nat
        /\ 1 \in 1 .. Len(q) /\ q[1] = m
    OBVIOUS
  <1>2. \A i \in 1 .. Len(Tail(q)) :
           i \in Nat /\ i + 1 # 1 /\ i + 1 \in 1 .. Len(q) /\ Tail(q)[i] = q[i + 1]
    OBVIOUS
  <1> DEFINE t == Tail(q)
  <1> HIDE DEF t
  <1>3. \A i \in 1 .. Len(t) :
           i \in Nat /\ i + 1 # 1 /\ i + 1 \in 1 .. Len(q) /\ t[i] = q[i + 1]
    BY <1>2 DEF t
  <1>4. OneEach(t)
    <2> SUFFICES ASSUME NEW i \in 1 .. Len(t), NEW j \in 1 .. Len(t), t[i].cmd = t[j].cmd
                 PROVE  i = j
      BY DEF OneEach
    <2>1. i + 1 = j + 1
      BY <1>3 DEF OneEach
    <2> QED BY <2>1, <1>3
  <1>5. CmdsIn(t) \subseteq CmdsIn(q) \ {m.cmd}
    <2> SUFFICES ASSUME NEW i \in 1 .. Len(t)
                 PROVE  t[i].cmd \in CmdsIn(q) /\ t[i].cmd # m.cmd
      BY DEF CmdsIn
    <2> QED BY <1>1, <1>3 DEF CmdsIn, OneEach
  <1>6. DosIn(t) \subseteq DosIn(q)
    BY <1>3 DEF DosIn
  <1>7. m.cmd \in CmdsIn(q) /\ \A c \in Cmds : m = Do(c) => c \in DosIn(q)
    BY <1>1 DEF CmdsIn, DosIn
  <1> QED BY <1>1, <1>4, <1>5, <1>6, <1>7 DEF t

(* What a written message names is named besides what was named before.    *)
LEMMA WriteNames ==
  ASSUME NEW q \in Seq(FifoMsgs), NEW spent \in Nat, Len(q) + spent <= Capacity, OneEach(q),
         NEW m \in FifoMsgs, m.cmd \notin CmdsIn(q), NEW r, r = Write(q, spent, <<m>>)
  PROVE  /\ r \in Seq(FifoMsgs) /\ Len(r) \in Nat /\ Len(r) + spent <= Capacity
         /\ OneEach(r) /\ CmdsIn(r) \subseteq CmdsIn(q) \cup {m.cmd}
         /\ \A c \in DosIn(r) : c \in DosIn(q) \/ m = Do(c)
  <1>1. /\ r \in Seq(FifoMsgs) /\ Len(r) \in Nat /\ Len(r) + spent <= Capacity
        /\ \A i \in 1 .. Len(r) :
              \/ i \in 1 .. Len(q) /\ r[i] = q[i]
              \/ i = Len(q) + 1 /\ r[i] = m
    <2>1. WrittenOne(q, spent, m, r)
      BY WriteOne
    <2> QED BY ONLY <2>1 DEF WrittenOne
  <1>2. \A i \in 1 .. Len(q) : q[i].cmd \in CmdsIn(q) /\ q[i].cmd # m.cmd
    BY DEF CmdsIn
  <1>3. OneEach(r)
    BY SMTT(40), <1>1, <1>2 DEF OneEach
  <1>4. CmdsIn(r) \subseteq CmdsIn(q) \cup {m.cmd}
    <2> SUFFICES ASSUME NEW i \in 1 .. Len(r) PROVE r[i].cmd \in CmdsIn(q) \cup {m.cmd}
      BY DEF CmdsIn
    <2> QED BY <1>1, <1>2
  <1>5. \A c \in DosIn(r) : c \in DosIn(q) \/ m = Do(c)
    BY <1>1 DEF DosIn
  <1> QED BY <1>1, <1>3, <1>4, <1>5

NamedTwo(q, spent, m, n, r) ==
    /\ r \in Seq(FifoMsgs) /\ Len(r) \in Nat /\ Len(r) + spent <= Capacity
    /\ OneEach(r) /\ CmdsIn(r) \subseteq CmdsIn(q) \cup {m.cmd, n.cmd}

LEMMA WriteNamesTwo ==
  ASSUME NEW q \in Seq(FifoMsgs), NEW spent \in Nat, Len(q) + spent <= Capacity, OneEach(q),
         NEW m \in FifoMsgs, m.cmd \notin CmdsIn(q), NEW n \in FifoMsgs, n.cmd \notin CmdsIn(q),
         m.cmd # n.cmd, NEW r, r = Write(q, spent, <<m, n>>)
  PROVE  NamedTwo(q, spent, m, n, r)
  <1> SUFFICES /\ r \in Seq(FifoMsgs) /\ Len(r) \in Nat /\ Len(r) + spent <= Capacity
               /\ OneEach(r) /\ CmdsIn(r) \subseteq CmdsIn(q) \cup {m.cmd, n.cmd}
    BY DEF NamedTwo
  <1>1. /\ r \in Seq(FifoMsgs) /\ Len(r) \in Nat /\ Len(r) + spent <= Capacity
        /\ \A i \in 1 .. Len(r) :
              \/ i \in 1 .. Len(q) /\ r[i] = q[i]
              \/ i = Len(q) + 1 /\ r[i] = m
              \/ i = Len(q) + 2 /\ r[i] = n
    <2>1. WrittenTwo(q, spent, m, n, r)
      BY WriteTwo
    <2> QED BY ONLY <2>1 DEF WrittenTwo
  <1>2. \A i \in 1 .. Len(q) :
           q[i].cmd \in CmdsIn(q) /\ q[i].cmd # m.cmd /\ q[i].cmd # n.cmd
    BY DEF CmdsIn
  <1>3. OneEach(r)
    BY ZenonT(60), <1>1, <1>2 DEF OneEach
  <1>4. CmdsIn(r) \subseteq CmdsIn(q) \cup {m.cmd, n.cmd}
    <2> SUFFICES ASSUME NEW i \in 1 .. Len(r) PROVE r[i].cmd \in CmdsIn(q) \cup {m.cmd, n.cmd}
      BY DEF CmdsIn
    <2> QED BY <1>1, <1>2
  <1> QED BY <1>1, <1>3, <1>4

(* The packets, and the answers: one more at the end, one less in front.   *)
LEMMA AppendNames ==
  ASSUME NEW s \in Seq(Cmds), NEW c \in Cmds
  PROVE  /\ Append(s, c) \in Seq(Cmds) /\ In(Append(s, c)) = In(s) \cup {c}
         /\ Distinct(s) /\ c \notin In(s) => Distinct(Append(s, c))
  <1> DEFINE t == Append(s, c)
  <1>1. /\ t \in Seq(Cmds) /\ Len(t) = Len(s) + 1 /\ Len(s) \in Nat /\ t[Len(s) + 1] = c
        /\ \A i \in 1 .. Len(s) : t[i] = s[i]
    OBVIOUS
  <1> HIDE DEF t
  <1>2. \A i \in 1 .. Len(t) :
           \/ i \in 1 .. Len(s) /\ t[i] = s[i]
           \/ i = Len(s) + 1 /\ t[i] = c
    BY <1>1
  <1>3. In(t) \subseteq In(s) \cup {c}
    BY <1>2 DEF In
  <1>4. c \in In(t)
    <2>1. Len(s) + 1 \in 1 .. Len(t)
      BY <1>1
    <2> QED BY <2>1, <1>1 DEF In
  <1>5. In(s) \subseteq In(t)
    <2> SUFFICES ASSUME NEW i \in 1 .. Len(s) PROVE s[i] \in In(t)
      BY DEF In
    <2>1. i \in 1 .. Len(t) /\ t[i] = s[i]
      BY <1>1
    <2> QED BY <2>1 DEF In
  <1>6. ASSUME Distinct(s), c \notin In(s) PROVE Distinct(t)
    <2>1. \A i \in 1 .. Len(s) : s[i] # c
      BY <1>6 DEF In
    <2> QED BY <1>2, <1>6, <2>1 DEF Distinct
  <1> QED BY <1>1, <1>3, <1>4, <1>5, <1>6 DEF t

LEMMA TailNames ==
  ASSUME NEW s \in Seq(Cmds), s # <<>>, Distinct(s)
  PROVE  /\ Head(s) \in In(s) /\ Head(s) \in Cmds /\ Tail(s) \in Seq(Cmds)
         /\ Distinct(Tail(s)) /\ In(Tail(s)) \subseteq In(s) \ {Head(s)}
  <1> DEFINE t == Tail(s)
  <1>1. t \in Seq(Cmds) /\ 1 \in 1 .. Len(s) /\ s[1] = Head(s) /\ s[1] \in Cmds
    OBVIOUS
  <1>2. \A i \in 1 .. Len(t) :
           i \in Nat /\ i + 1 # 1 /\ i + 1 \in 1 .. Len(s) /\ t[i] = s[i + 1]
    OBVIOUS
  <1> HIDE DEF t
  <1>3. Distinct(t)
    <2> SUFFICES ASSUME NEW i \in 1 .. Len(t), NEW j \in 1 .. Len(t), t[i] = t[j]
                 PROVE  i = j
      BY DEF Distinct
    <2>1. i + 1 = j + 1
      BY <1>2 DEF Distinct
    <2> QED BY <2>1, <1>2
  <1>4. In(t) \subseteq In(s) \ {s[1]}
    <2> SUFFICES ASSUME NEW i \in 1 .. Len(t) PROVE t[i] \in In(s) /\ t[i] # s[1]
      BY DEF In
    <2> QED BY <1>1, <1>2 DEF In, Distinct
  <1>5. s[1] \in In(s)
    BY <1>1 DEF In
  <1> QED BY <1>1, <1>3, <1>4, <1>5 DEF t

-----------------------------------------------------------------------------
(* The parts of the invariant that a step can rely on.                     *)
LEMMA Before ==
  ASSUME IInv
  PROVE  /\ TypeOK /\ Room /\ Once /\ Stages /\ Completions /\ Answered
         /\ fromEngine \in Seq(FifoMsgs) /\ toEngine \in Seq(FifoMsgs)
         /\ fromSpent \in Nat /\ toSpent \in Nat
         /\ Len(fromEngine) + fromSpent <= Capacity /\ Len(fromEngine) \in Nat
         /\ Len(toEngine) + toSpent <= Capacity /\ Len(toEngine) \in Nat
         /\ OneEach(fromEngine) /\ OneEach(toEngine)
         /\ CmdsIn(fromEngine) \subseteq Cmds /\ CmdsIn(toEngine) \subseteq Cmds
         /\ DosIn(toEngine) \subseteq CmdsIn(toEngine)
         /\ mNextStage \in [Cmds -> 1 .. 5] /\ msgFrees \in [Cmds -> 0 .. 2]
         /\ freed \subseteq Cmds
  BY NamedCmds DEF IInv, TypeOK, Room, Once

(* After a step the types of what it wrote are to be shown, and the parts  *)
(* that speak of more.                                                     *)
LEMMA After ==
  ASSUME TypeOK, UNCHANGED <<kind, completion>>,
         mNextStage' \in [Cmds -> 1 .. 5], msgFrees' \in [Cmds -> 0 .. 2], freed' \subseteq Cmds,
         packets' \in Seq(Cmds), replies' \in Seq(Cmds),
         audio' \in {"out", "toEngine", "packets"}, nrt' \in {"waiting", "performing", "done"},
         Room', Once', Stages', Completions', Answered'
  PROVE  IInv'
  BY DEF IInv, TypeOK, Room

(* A message that is performed is gone; the room is used until it is freed.*)
LEMMA TakeFacts ==
  ASSUME IInv, NEW m, TakeToEngine(m)
  PROVE  /\ toEngine' \in Seq(FifoMsgs) /\ toSpent' \in Nat
         /\ Len(toEngine') + toSpent' <= Capacity
         /\ OneEach(toEngine') /\ CmdsIn(toEngine') \subseteq CmdsIn(toEngine) \ {m.cmd}
         /\ DosIn(toEngine') \subseteq DosIn(toEngine) \ {m.cmd}
         /\ m.cmd \in CmdsIn(toEngine) /\ \A c \in Cmds : m = Do(c) => c \in DosIn(toEngine)
  <1>1. /\ toEngine # <<>> /\ m = Head(toEngine)
        /\ toEngine' = Tail(toEngine) /\ toSpent' = toSpent + 1
    BY DEF TakeToEngine
  <1>2. /\ toEngine' \in Seq(FifoMsgs) /\ Len(toEngine') + 1 = Len(toEngine)
        /\ Len(toEngine') \in Nat
        /\ OneEach(toEngine') /\ CmdsIn(toEngine') \subseteq CmdsIn(toEngine) \ {m.cmd}
        /\ DosIn(toEngine') \subseteq DosIn(toEngine)
        /\ m.cmd \in CmdsIn(toEngine) /\ \A c \in Cmds : m = Do(c) => c \in DosIn(toEngine)
    BY <1>1, Before, TailFacts
  <1>3. DosIn(toEngine') \subseteq CmdsIn(toEngine')
    BY <1>2, NamedCmds
  <1> QED BY <1>1, <1>2, <1>3, Before, CapacityAssumption

LEMMA DeleteFacts ==
  ASSUME IInv, NEW c \in Cmds, DeleteCmd(c), c \notin freed
  PROVE  /\ freed' = freed \cup {c} /\ freed' \subseteq Cmds
         /\ msgFrees' \in [Cmds -> 0 .. 2]
         /\ \A e \in Cmds : e \notin freed' => msgFrees'[e] = 0
  <1>1. /\ msgFrees \in [Cmds -> 0 .. 2] /\ freed \subseteq Cmds
        /\ \A e \in Cmds : e \notin freed => msgFrees[e] = 0
        /\ freed' = freed \cup {c}
        /\ msgFrees' = [msgFrees EXCEPT ![c] = @ + MsgFreesOf(c)]
    BY DEF IInv, TypeOK, Stages, DeleteCmd
  <1>2. MsgFreesOf(c) \in 0 .. 2 /\ msgFrees[c] = 0
    BY <1>1 DEF MsgFreesOf
  <1> QED BY <1>1, <1>2

LEMMA DeleteInv ==
  ASSUME IInv, NEW c \in Cmds, Delete(c) PROVE IInv'
  <1>1. /\ TakeToEngine(Free(c)) /\ DeleteCmd(c)
        /\ UNCHANGED <<kind, completion, packets, mNextStage, fromEngine, fromSpent,
                       audio, nrt, replies>>
    BY DEF Delete, client, fromFifo
  <1>2. /\ toEngine' \in Seq(FifoMsgs) /\ toSpent' \in Nat
        /\ Len(toEngine') + toSpent' <= Capacity
        /\ OneEach(toEngine') /\ CmdsIn(toEngine') \subseteq CmdsIn(toEngine) \ {c}
        /\ DosIn(toEngine') \subseteq DosIn(toEngine) \ {c} /\ c \in CmdsIn(toEngine)
    BY <1>1, TakeFacts, MsgFacts
  <1>3. c \notin freed /\ mNextStage[c] # 1 /\ c \notin CmdsIn(fromEngine)
    BY <1>2, Before DEF Stages, Once
  <1>4. /\ freed' = freed \cup {c} /\ freed' \subseteq Cmds
        /\ msgFrees' \in [Cmds -> 0 .. 2]
        /\ \A e \in Cmds : e \notin freed' => msgFrees'[e] = 0
    BY <1>1, <1>3, DeleteFacts
  <1>5. Room'
    BY <1>1, <1>2, Before DEF Room
  <1>6. Once'
    BY <1>1, <1>2, Before DEF Once
  <1>7. Stages'
    BY <1>1, <1>2, <1>3, <1>4, Before DEF Stages
  <1>8. Completions'
    BY <1>1, Before DEF Completions
  <1>9. Answered'
    BY <1>1, <1>2, Before DEF Answered
  <1> QED BY <1>1, <1>4, <1>5, <1>6, <1>7, <1>8, <1>9, Before, After DEF TypeOK

LEMMA Stage3StopsInv ==
  ASSUME IInv, NEW c \in Cmds, Stage3Stops(c) PROVE IInv'
  <1>1. /\ TakeToEngine(Do(c)) /\ DeleteCmd(c)
        /\ mNextStage' = [mNextStage EXCEPT ![c] = 4]
        /\ UNCHANGED <<kind, completion, packets, fromEngine, fromSpent,
                       audio, nrt, replies>>
    BY DEF Stage3Stops, client, fromFifo
  <1>2. /\ toEngine' \in Seq(FifoMsgs) /\ toSpent' \in Nat
        /\ Len(toEngine') + toSpent' <= Capacity
        /\ OneEach(toEngine') /\ CmdsIn(toEngine') \subseteq CmdsIn(toEngine) \ {c}
        /\ DosIn(toEngine') \subseteq DosIn(toEngine) \ {c} /\ c \in CmdsIn(toEngine)
        /\ c \in DosIn(toEngine)
    BY <1>1, TakeFacts, MsgFacts
  <1>3. /\ c \notin freed /\ mNextStage[c] = 3 /\ c \notin CmdsIn(fromEngine)
        /\ c \notin In(packets) /\ c \notin In(replies)
    BY <1>2, Before DEF Stages, Once, Answered
  <1>4. /\ freed' = freed \cup {c} /\ freed' \subseteq Cmds
        /\ msgFrees' \in [Cmds -> 0 .. 2]
        /\ \A e \in Cmds : e \notin freed' => msgFrees'[e] = 0
    BY <1>1, <1>3, DeleteFacts
  <1>5. /\ mNextStage' \in [Cmds -> 1 .. 5] /\ mNextStage'[c] = 4
        /\ \A e \in Cmds : e # c => mNextStage'[e] = mNextStage[e]
    BY <1>1, Before
  <1>6. /\ In(packets) \subseteq Cmds /\ In(replies) \subseteq Cmds
    BY SMTT(40), Before DEF In, TypeOK
  <1>7. Room'
    BY <1>1, <1>2, Before DEF Room
  <1>8. Once'
    BY <1>1, <1>2, Before DEF Once
  <1>9. Stages'
    BY SMTT(40), <1>1, <1>2, <1>3, <1>4, <1>5, <1>6, Before DEF Stages
  <1>10. Completions'
    BY <1>1, <1>3, <1>5, Before DEF Completions
  <1>11. Answered'
    BY <1>1, <1>2, <1>3, <1>5, <1>6, Before DEF Answered
  <1> QED BY <1>1, <1>4, <1>5, <1>7, <1>8, <1>9, <1>10, <1>11, Before, After DEF TypeOK

(* Where a command and the one that its completion message starts are      *)
(* before and after stage 3.                                               *)
LEMMA Stage3Facts ==
  ASSUME IInv, NEW c \in Cmds, NEW d, d = completion[c], Stage3(c)
  PROVE  /\ toEngine' \in Seq(FifoMsgs) /\ toSpent' \in Nat
         /\ Len(toEngine') + toSpent' <= Capacity
         /\ OneEach(toEngine') /\ CmdsIn(toEngine') \subseteq CmdsIn(toEngine) \ {c}
         /\ DosIn(toEngine') \subseteq DosIn(toEngine) \ {c} /\ c \in CmdsIn(toEngine)
         /\ c \in DosIn(toEngine)
         /\ c \notin freed /\ mNextStage[c] = 3 /\ c \notin CmdsIn(fromEngine)
         /\ c \notin In(packets) /\ c \notin In(replies)
         /\ d # None => /\ d \in Cmds /\ d # c /\ mNextStage[d] = 1 /\ d \notin In(packets)
                        /\ kind[d] # None
         /\ d # None => /\ d \notin freed /\ d \notin CmdsIn(fromEngine)
                        /\ d \notin CmdsIn(toEngine) /\ d \notin In(replies)
         /\ fromEngine' \in Seq(FifoMsgs) /\ Len(fromEngine') + fromSpent' <= Capacity
         /\ OneEach(fromEngine') /\ CmdsIn(fromEngine') \subseteq CmdsIn(fromEngine) \cup {c, d}
         /\ d = None => CmdsIn(fromEngine') \subseteq CmdsIn(fromEngine) \cup {c}
         /\ mNextStage' \in [Cmds -> 1 .. 5] /\ mNextStage'[c] = 4
         /\ d # None => mNextStage'[d] = 2
         /\ \A e \in Cmds : e # c /\ e # d => mNextStage'[e] = mNextStage[e]
  <1>1. /\ TakeToEngine(Do(c))
        /\ fromEngine' = Write(fromEngine, fromSpent,
                               IF d = None THEN <<Do(c)>> ELSE <<Do(d), Do(c)>>)
        /\ mNextStage' = [e \in Cmds |-> IF e = c THEN 4 ELSE IF e = d THEN 2 ELSE mNextStage[e]]
        /\ UNCHANGED <<kind, completion, packets, fromSpent, audio, nrt, msgFrees, replies, freed>>
    BY DEF Stage3, client, outcome
  <1>2. /\ toEngine' \in Seq(FifoMsgs) /\ toSpent' \in Nat
        /\ Len(toEngine') + toSpent' <= Capacity
        /\ OneEach(toEngine') /\ CmdsIn(toEngine') \subseteq CmdsIn(toEngine) \ {c}
        /\ DosIn(toEngine') \subseteq DosIn(toEngine) \ {c} /\ c \in CmdsIn(toEngine)
        /\ c \in DosIn(toEngine)
    BY <1>1, TakeFacts, MsgFacts
  <1>3. /\ c \notin freed /\ mNextStage[c] = 3 /\ c \notin CmdsIn(fromEngine)
        /\ c \notin In(packets) /\ c \notin In(replies)
    BY <1>2, Before DEF Stages, Once, Answered
  <1>4. d # None => /\ d \in Cmds /\ d # c /\ mNextStage[d] = 1 /\ d \notin In(packets)
                    /\ kind[d] # None
    BY <1>3, Before DEF Completions, TypeOK
  <1>5. d # None => /\ d \notin freed /\ d \notin CmdsIn(fromEngine)
                    /\ d \notin CmdsIn(toEngine) /\ d \notin In(replies)
    BY <1>4, Before DEF Stages, Answered
  <1>6. /\ fromEngine' \in Seq(FifoMsgs) /\ Len(fromEngine') + fromSpent' <= Capacity
        /\ OneEach(fromEngine') /\ CmdsIn(fromEngine') \subseteq CmdsIn(fromEngine) \cup {c, d}
        /\ d = None => CmdsIn(fromEngine') \subseteq CmdsIn(fromEngine) \cup {c}
    <2>1. CASE d = None
      <3>1. fromEngine' = Write(fromEngine, fromSpent, <<Do(c)>>)
        BY <1>1, <2>1
      <3> QED BY SMTT(40), <3>1, <2>1, <1>1, <1>3, Before, MsgFacts, WriteNames
    <2>2. CASE d # None
      <3>1. fromEngine' = Write(fromEngine, fromSpent, <<Do(d), Do(c)>>)
        BY <1>1, <2>2
      <3>2. /\ Do(c) \in FifoMsgs /\ Do(d) \in FifoMsgs /\ Do(c).cmd = c /\ Do(d).cmd = d
            /\ Do(c).cmd \notin CmdsIn(fromEngine) /\ Do(d).cmd \notin CmdsIn(fromEngine)
            /\ Do(d).cmd # Do(c).cmd
        BY <1>3, <1>4, <1>5, <2>2, MsgFacts
      <3>0. /\ fromEngine \in Seq(FifoMsgs) /\ fromSpent \in Nat
            /\ Len(fromEngine) + fromSpent <= Capacity /\ OneEach(fromEngine)
        BY Before
      <3>3. /\ fromEngine' \in Seq(FifoMsgs) /\ Len(fromEngine') + fromSpent <= Capacity
            /\ OneEach(fromEngine')
            /\ CmdsIn(fromEngine') \subseteq CmdsIn(fromEngine) \cup {Do(d).cmd, Do(c).cmd}
        <4>1. NamedTwo(fromEngine, fromSpent, Do(d), Do(c), fromEngine')
          BY ONLY <3>0, <3>1, <3>2, WriteNamesTwo
        <4> QED BY ONLY <4>1 DEF NamedTwo
      <3> QED BY <3>2, <3>3, <2>2, <1>1
    <2> QED BY <2>1, <2>2
  <1>7. /\ mNextStage' \in [Cmds -> 1 .. 5] /\ mNextStage'[c] = 4
        /\ d # None => mNextStage'[d] = 2
        /\ \A e \in Cmds : e # c /\ e # d => mNextStage'[e] = mNextStage[e]
    BY <1>1, <1>4, Before
  <1> QED BY <1>2, <1>3, <1>4, <1>5, <1>6, <1>7

LEMMA Stage3Inv ==
  ASSUME IInv, NEW c \in Cmds, Stage3(c) PROVE IInv'
  <1> SUFFICES ASSUME NEW d, d = completion[c] PROVE IInv'
    OBVIOUS
  <1>1. /\ TakeToEngine(Do(c))
        /\ fromEngine' = Write(fromEngine, fromSpent,
                               IF d = None THEN <<Do(c)>> ELSE <<Do(d), Do(c)>>)
        /\ mNextStage' = [e \in Cmds |-> IF e = c THEN 4 ELSE IF e = d THEN 2 ELSE mNextStage[e]]
        /\ UNCHANGED <<kind, completion, packets, fromSpent, audio, nrt, msgFrees, replies, freed>>
    BY DEF Stage3, client, outcome
  <1>2. /\ toEngine' \in Seq(FifoMsgs) /\ toSpent' \in Nat
        /\ Len(toEngine') + toSpent' <= Capacity
        /\ OneEach(toEngine') /\ CmdsIn(toEngine') \subseteq CmdsIn(toEngine) \ {c}
        /\ DosIn(toEngine') \subseteq DosIn(toEngine) \ {c} /\ c \in CmdsIn(toEngine)
        /\ c \in DosIn(toEngine)
    BY Stage3Facts
  <1>3. /\ c \notin freed /\ mNextStage[c] = 3 /\ c \notin CmdsIn(fromEngine)
        /\ c \notin In(packets) /\ c \notin In(replies)
    BY Stage3Facts
  <1>4. d # None => /\ d \in Cmds /\ d # c /\ mNextStage[d] = 1 /\ d \notin In(packets)
                    /\ kind[d] # None
    BY Stage3Facts
  <1>5. d # None => /\ d \notin freed /\ d \notin CmdsIn(fromEngine)
                    /\ d \notin CmdsIn(toEngine) /\ d \notin In(replies)
    BY Stage3Facts
  <1>6. /\ fromEngine' \in Seq(FifoMsgs) /\ Len(fromEngine') + fromSpent' <= Capacity
        /\ OneEach(fromEngine') /\ CmdsIn(fromEngine') \subseteq CmdsIn(fromEngine) \cup {c, d}
        /\ d = None => CmdsIn(fromEngine') \subseteq CmdsIn(fromEngine) \cup {c}
    BY Stage3Facts
  <1>7. /\ mNextStage' \in [Cmds -> 1 .. 5] /\ mNextStage'[c] = 4
        /\ d # None => mNextStage'[d] = 2
        /\ \A e \in Cmds : e # c /\ e # d => mNextStage'[e] = mNextStage[e]
    BY Stage3Facts
  <1>8. /\ In(packets) \subseteq Cmds /\ In(replies) \subseteq Cmds /\ None \notin Cmds
    BY SMTT(40), Before, NoneAssumption DEF In, TypeOK
  <1>9. Room'
    BY <1>1, <1>2, <1>6, Before DEF Room
  <1>10. Once'
    BY ZenonT(60), <1>1, <1>2, <1>3, <1>5, <1>6, Before DEF Once
  <1>11. Stages'
    <2>1. \A e \in In(packets') : mNextStage'[e] = 1 /\ kind'[e] # None
      BY <1>1, <1>3, <1>4, <1>7, <1>8, Before DEF Stages
    <2>2. \A e \in CmdsIn(fromEngine') : e \notin freed' /\ mNextStage'[e] \in {2, 4}
      BY ZenonT(60), <1>1, <1>3, <1>5, <1>6, <1>7, <1>8, Before DEF Stages
    <2>3. \A e \in CmdsIn(toEngine') : e \notin freed' /\ mNextStage'[e] # 1
      BY <1>1, <1>2, <1>5, <1>7, <1>8, Before DEF Stages
    <2>4. \A e \in DosIn(toEngine') : mNextStage'[e] = 3
      BY SMTT(40), <1>2, <1>5, <1>7, <1>8, Before DEF Stages
    <2>5. \A e \in freed' : mNextStage'[e] # 1
      BY <1>1, <1>3, <1>5, <1>7, <1>8, Before DEF Stages
    <2> QED BY <1>1, <2>1, <2>2, <2>3, <2>4, <2>5, Before DEF Stages
  <1>12. Completions'
    <2>1. ASSUME NEW e \in Cmds, kind'[e] = None
          PROVE  /\ completion'[e] = None /\ mNextStage'[e] = 1
                 /\ \A f \in Cmds : f > e => kind'[f] = None
      <3>1. /\ completion[e] = None /\ mNextStage[e] = 1
            /\ \A f \in Cmds : f > e => kind[f] = None
        BY <1>1, <2>1, Before DEF Completions
      <3>2. e # c /\ e # d
        BY <1>1, <1>3, <1>4, <2>1, <3>1, <1>8
      <3> QED BY <3>1, <3>2, <1>1, <1>7
    <2>2. ASSUME NEW e \in Cmds, NEW f \in Cmds, completion'[e] = f
          PROVE  /\ f = e + 1 /\ kind'[f] # None /\ f \notin In(packets')
                 /\ mNextStage'[e] <= 3 => mNextStage'[f] = 1
      <3>1. /\ f = e + 1 /\ kind[f] # None /\ f \notin In(packets)
            /\ mNextStage[e] <= 3 => mNextStage[f] = 1
        BY <1>1, <2>2, Before DEF Completions
      <3>2. ASSUME mNextStage'[e] <= 3 PROVE mNextStage'[f] = 1
        <4>1. e # c
          BY <1>7, <3>2
        <4>2. e # d => mNextStage[e] <= 3
          BY <1>7, <3>2, <4>1
        <4>3. mNextStage[e] <= 3
          BY <4>2, <1>4, <1>8
        <4>4. mNextStage[f] = 1 /\ f # c
          BY <3>1, <4>3, <1>3
        <4>5. d # None => d = c + 1
          BY <1>4, Before DEF Completions
        <4>6. f # d
          BY <4>1, <4>5, <3>1, <1>8 DEF Cmds
        <4> QED BY <4>4, <4>6, <1>7
      <3> QED BY <3>1, <3>2, <1>1
    <2> QED BY <2>1, <2>2 DEF Completions
  <1>13. Answered'
    <2>1. ASSUME NEW e \in In(replies)
          PROVE  mNextStage'[e] # 1 /\ e \notin CmdsIn(fromEngine') /\ e \notin DosIn(toEngine')
      <3>1. /\ mNextStage[e] # 1 /\ e \notin CmdsIn(fromEngine) /\ e \notin DosIn(toEngine)
            /\ e # c /\ e \in Cmds
        BY <1>3, <1>8, Before DEF Answered
      <3>2. e # d
        BY <1>5, <1>8, <3>1
      <3> QED BY <3>1, <3>2, <1>2, <1>6, <1>7
    <2> QED BY <1>1, <2>1, Before DEF Answered
  <1> QED BY <1>1, <1>7, <1>9, <1>10, <1>11, <1>12, <1>13, Before, After DEF TypeOK

LEMMA StartFacts ==
  ASSUME IInv, Start, NEW c, c = Head(packets)
  PROVE  /\ c \in In(packets) /\ c \in Cmds /\ packets' \in Seq(Cmds)
         /\ Distinct(packets') /\ In(packets') \subseteq In(packets) \ {c}
         /\ mNextStage[c] = 1 /\ kind[c] # None
         /\ c \notin freed /\ c \notin CmdsIn(fromEngine) /\ c \notin CmdsIn(toEngine)
         /\ c \notin In(replies)
         /\ fromEngine' \in Seq(FifoMsgs) /\ Len(fromEngine') + fromSpent' <= Capacity
         /\ OneEach(fromEngine') /\ CmdsIn(fromEngine') \subseteq CmdsIn(fromEngine) \cup {c}
         /\ mNextStage' \in [Cmds -> 1 .. 5] /\ mNextStage'[c] = 2
         /\ \A e \in Cmds : e # c => mNextStage'[e] = mNextStage[e]
  <1>1. /\ packets # <<>> /\ packets' = Tail(packets)
        /\ mNextStage' = [mNextStage EXCEPT ![c] = 2]
        /\ fromEngine' = Write(fromEngine, fromSpent, <<Do(c)>>)
        /\ UNCHANGED <<kind, completion, fromSpent, toEngine, toSpent, audio, nrt,
                       msgFrees, replies, freed>>
    BY DEF Start, client, toFifo, outcome
  <1>2. /\ c \in In(packets) /\ c \in Cmds /\ packets' \in Seq(Cmds)
        /\ Distinct(packets') /\ In(packets') \subseteq In(packets) \ {c}
    BY <1>1, Before, TailNames DEF TypeOK, Once
  <1>3. mNextStage[c] = 1 /\ kind[c] # None
    BY <1>2, Before DEF Stages
  <1>4. /\ c \notin freed /\ c \notin CmdsIn(fromEngine) /\ c \notin CmdsIn(toEngine)
        /\ c \notin In(replies)
    BY <1>3, Before DEF Stages, Answered
  <1>5. /\ fromEngine' \in Seq(FifoMsgs) /\ Len(fromEngine') + fromSpent' <= Capacity
        /\ OneEach(fromEngine') /\ CmdsIn(fromEngine') \subseteq CmdsIn(fromEngine) \cup {c}
    <2>1. Do(c) \in FifoMsgs /\ Do(c).cmd = c
      BY <1>2, MsgFacts
    <2>2. /\ fromEngine \in Seq(FifoMsgs) /\ fromSpent \in Nat
          /\ Len(fromEngine) + fromSpent <= Capacity /\ OneEach(fromEngine)
      BY Before
    <2>3. /\ fromEngine' \in Seq(FifoMsgs) /\ Len(fromEngine') + fromSpent <= Capacity
          /\ OneEach(fromEngine') /\ CmdsIn(fromEngine') \subseteq CmdsIn(fromEngine) \cup {Do(c).cmd}
      BY ONLY SMTT(40), <1>1, <1>4, <2>1, <2>2, WriteNames
    <2> QED BY <1>1, <2>1, <2>3
  <1>6. /\ mNextStage' \in [Cmds -> 1 .. 5] /\ mNextStage'[c] = 2
        /\ \A e \in Cmds : e # c => mNextStage'[e] = mNextStage[e]
    BY <1>1, <1>2, Before
  <1> QED BY <1>2, <1>3, <1>4, <1>5, <1>6

LEMMA StartInv ==
  ASSUME IInv, Start PROVE IInv'
  <1> SUFFICES ASSUME NEW c, c = Head(packets) PROVE IInv'
    OBVIOUS
  <1>1. /\ packets # <<>> /\ packets' = Tail(packets)
        /\ mNextStage' = [mNextStage EXCEPT ![c] = 2]
        /\ fromEngine' = Write(fromEngine, fromSpent, <<Do(c)>>)
        /\ UNCHANGED <<kind, completion, fromSpent, toEngine, toSpent, audio, nrt,
                       msgFrees, replies, freed>>
    BY DEF Start, client, toFifo, outcome
  <1>2. /\ c \in In(packets) /\ c \in Cmds /\ packets' \in Seq(Cmds)
        /\ Distinct(packets') /\ In(packets') \subseteq In(packets) \ {c}
    BY StartFacts
  <1>3. mNextStage[c] = 1 /\ kind[c] # None
    BY StartFacts
  <1>4. /\ c \notin freed /\ c \notin CmdsIn(fromEngine) /\ c \notin CmdsIn(toEngine)
        /\ c \notin In(replies)
    BY StartFacts
  <1>5. /\ fromEngine' \in Seq(FifoMsgs) /\ Len(fromEngine') + fromSpent' <= Capacity
        /\ OneEach(fromEngine') /\ CmdsIn(fromEngine') \subseteq CmdsIn(fromEngine) \cup {c}
    BY StartFacts
  <1>6. /\ mNextStage' \in [Cmds -> 1 .. 5] /\ mNextStage'[c] = 2
        /\ \A e \in Cmds : e # c => mNextStage'[e] = mNextStage[e]
    BY StartFacts
  <1>7. /\ In(packets) \subseteq Cmds /\ In(replies) \subseteq Cmds
    BY Before DEF In, TypeOK
  <1>8. Room'
    BY <1>1, <1>5, Before DEF Room
  <1>9. Once'
    BY <1>1, <1>2, <1>4, <1>5, Before DEF Once
  <1>10. Stages'
    <2>1. \A e \in In(packets') : mNextStage'[e] = 1 /\ kind'[e] # None
      BY <1>1, <1>2, <1>6, <1>7, Before DEF Stages
    <2>2. \A e \in CmdsIn(fromEngine') : e \notin freed' /\ mNextStage'[e] \in {2, 4}
      BY <1>1, <1>4, <1>5, <1>6, Before, ZenonT(60) DEF Stages
    <2>3. \A e \in CmdsIn(toEngine) : e \notin freed' /\ mNextStage'[e] # 1
      BY <1>1, <1>4, <1>6, Before DEF Stages
    <2>4. \A e \in DosIn(toEngine) : mNextStage'[e] = 3
      BY <1>4, <1>6, Before DEF Stages
    <2>5. \A e \in freed : mNextStage'[e] # 1
      BY <1>4, <1>6, Before DEF Stages
    <2> QED BY <1>1, <2>1, <2>2, <2>3, <2>4, <2>5, Before DEF Stages
  <1>11. Completions'
    <2>1. \A e \in Cmds : completion[e] # c
      BY <1>2, Before DEF Completions
    <2> QED BY <1>1, <1>2, <1>3, <1>6, <2>1, Before DEF Completions
  <1>12. Answered'
    BY <1>1, <1>4, <1>5, <1>6, <1>7, Before DEF Answered
  <1> QED BY <1>1, <1>2, <1>6, <1>8, <1>9, <1>10, <1>11, <1>12, Before, After DEF TypeOK

LEMMA PerformFacts ==
  ASSUME IInv, NEW c \in Cmds, NEW n \in {2, 4}, NEW m \in FifoMsgs, m.cmd = c,
         PerformStage(c, n, m)
  PROVE  /\ fromEngine' \in Seq(FifoMsgs) /\ Len(fromEngine') + 1 = Len(fromEngine)
         /\ Len(fromEngine') \in Nat
         /\ OneEach(fromEngine') /\ CmdsIn(fromEngine') \subseteq CmdsIn(fromEngine) \ {c}
         /\ c \in CmdsIn(fromEngine)
         /\ fromSpent' \in Nat /\ Len(fromEngine') + fromSpent' <= Capacity
         /\ c \notin freed /\ c \notin CmdsIn(toEngine) /\ c \notin In(packets)
         /\ c \notin In(replies)
         /\ toEngine' \in Seq(FifoMsgs) /\ Len(toEngine') + 0 <= Capacity
         /\ OneEach(toEngine') /\ CmdsIn(toEngine') \subseteq CmdsIn(toEngine) \cup {c}
         /\ \A e \in DosIn(toEngine') : e \in DosIn(toEngine) \/ m = Do(e)
         /\ mNextStage' \in [Cmds -> 1 .. 5] /\ mNextStage'[c] = n + 1
         /\ \A e \in Cmds : e # c => mNextStage'[e] = mNextStage[e]
  <1>1. /\ fromEngine # <<>> /\ Do(c) = Head(fromEngine)
        /\ mNextStage[c] = n
        /\ fromEngine' = Tail(fromEngine) /\ fromSpent' = fromSpent + 1
        /\ toEngine' = Write(toEngine, 0, <<m>>) /\ toSpent' = 0
        /\ mNextStage' = [mNextStage EXCEPT ![c] = n + 1]
        /\ UNCHANGED <<kind, completion, packets, audio, nrt, msgFrees, freed>>
    BY DEF PerformStage, client
  <1>2. /\ fromEngine' \in Seq(FifoMsgs) /\ Len(fromEngine') + 1 = Len(fromEngine)
        /\ Len(fromEngine') \in Nat
        /\ OneEach(fromEngine') /\ CmdsIn(fromEngine') \subseteq CmdsIn(fromEngine) \ {c}
        /\ c \in CmdsIn(fromEngine)
    BY SMTT(40), <1>1, Before, TailFacts, MsgFacts
  <1>3. /\ fromSpent' \in Nat /\ Len(fromEngine') + fromSpent' <= Capacity
    BY SMTT(40), <1>1, <1>2, Before, CapacityAssumption
  <1>4. /\ c \notin freed /\ c \notin CmdsIn(toEngine) /\ c \notin In(packets)
        /\ c \notin In(replies)
    BY SMTT(40), <1>2, Before DEF Stages, Once, Answered
  <1>5. /\ toEngine' \in Seq(FifoMsgs) /\ Len(toEngine') + 0 <= Capacity
        /\ OneEach(toEngine') /\ CmdsIn(toEngine') \subseteq CmdsIn(toEngine) \cup {c}
        /\ \A e \in DosIn(toEngine') : e \in DosIn(toEngine) \/ m = Do(e)
    <2>1. /\ toEngine \in Seq(FifoMsgs) /\ 0 \in Nat /\ Len(toEngine) + 0 <= Capacity
          /\ OneEach(toEngine) /\ m.cmd \notin CmdsIn(toEngine)
          /\ toEngine' = Write(toEngine, 0, <<m>>)
      BY <1>1, <1>4, Before, CapacityAssumption
    <2>2. /\ toEngine' \in Seq(FifoMsgs) /\ Len(toEngine') + 0 <= Capacity
          /\ OneEach(toEngine') /\ CmdsIn(toEngine') \subseteq CmdsIn(toEngine) \cup {m.cmd}
          /\ \A e \in DosIn(toEngine') : e \in DosIn(toEngine) \/ m = Do(e)
      BY ONLY <2>1, m \in FifoMsgs, WriteNames
    <2> QED BY <2>2
  <1>6. /\ mNextStage' \in [Cmds -> 1 .. 5] /\ mNextStage'[c] = n + 1
        /\ \A e \in Cmds : e # c => mNextStage'[e] = mNextStage[e]
    BY <1>1, Before
  <1> QED BY <1>2, <1>3, <1>4, <1>5, <1>6

(* A stage of the other thread: what it hands back is performed or ends    *)
(* the command, and it may have answered.                                  *)
LEMMA PerformStageInv ==
  ASSUME IInv, NEW c \in Cmds, NEW n \in {2, 4}, NEW m \in FifoMsgs, m.cmd = c,
         PerformStage(c, n, m), n = 4 => \A e \in Cmds : m # Do(e),
         \/ replies' = replies
         \/ replies' = Append(replies, c) /\ \A e \in Cmds : m # Do(e)
  PROVE  IInv'
  <1>1. /\ fromEngine # <<>> /\ Do(c) = Head(fromEngine)
        /\ mNextStage[c] = n
        /\ fromEngine' = Tail(fromEngine) /\ fromSpent' = fromSpent + 1
        /\ toEngine' = Write(toEngine, 0, <<m>>) /\ toSpent' = 0
        /\ mNextStage' = [mNextStage EXCEPT ![c] = n + 1]
        /\ UNCHANGED <<kind, completion, packets, audio, nrt, msgFrees, freed>>
    BY DEF PerformStage, client
  <1>2. /\ fromEngine' \in Seq(FifoMsgs) /\ Len(fromEngine') + 1 = Len(fromEngine)
        /\ Len(fromEngine') \in Nat
        /\ OneEach(fromEngine') /\ CmdsIn(fromEngine') \subseteq CmdsIn(fromEngine) \ {c}
        /\ c \in CmdsIn(fromEngine)
    BY PerformFacts
  <1>3. /\ fromSpent' \in Nat /\ Len(fromEngine') + fromSpent' <= Capacity
    BY PerformFacts
  <1>4. /\ c \notin freed /\ c \notin CmdsIn(toEngine) /\ c \notin In(packets)
        /\ c \notin In(replies)
    BY PerformFacts
  <1>5. /\ toEngine' \in Seq(FifoMsgs) /\ Len(toEngine') + 0 <= Capacity
        /\ OneEach(toEngine') /\ CmdsIn(toEngine') \subseteq CmdsIn(toEngine) \cup {c}
        /\ \A e \in DosIn(toEngine') : e \in DosIn(toEngine) \/ m = Do(e)
    BY PerformFacts
  <1>6. /\ mNextStage' \in [Cmds -> 1 .. 5] /\ mNextStage'[c] = n + 1
        /\ \A e \in Cmds : e # c => mNextStage'[e] = mNextStage[e]
    BY PerformFacts
  <1>7. /\ In(packets) \subseteq Cmds /\ In(replies) \subseteq Cmds /\ replies \in Seq(Cmds)
        /\ CmdsIn(toEngine) \subseteq Cmds /\ DosIn(toEngine) \subseteq CmdsIn(toEngine)
        /\ DosIn(toEngine') \subseteq Cmds
    BY Before DEF In, TypeOK, DosIn
  <1>8. \A e \in Cmds : m = Do(e) => e = c /\ n = 2
    BY MsgFacts
  <1>9. Room'
    BY <1>1, <1>2, <1>3, <1>5, CapacityAssumption DEF Room
  <1>10. Once'
    BY <1>1, <1>2, <1>4, <1>5, Before DEF Once
  <1>11. Stages'
    <2>1. \A e \in In(packets') : mNextStage'[e] = 1 /\ kind'[e] # None
      BY <1>1, <1>4, <1>6, <1>7, Before DEF Stages
    <2>2. \A e \in CmdsIn(fromEngine') : e \notin freed' /\ mNextStage'[e] \in {2, 4}
      BY <1>1, <1>2, <1>6, Before DEF Stages
    <2>3. ASSUME NEW e \in CmdsIn(toEngine') PROVE e \notin freed' /\ mNextStage'[e] # 1
      <3>1. CASE e = c
        BY <3>1, <1>1, <1>4, <1>6
      <3>2. CASE e # c
        BY <3>2, <1>1, <1>5, <1>6, <1>7, Before DEF Stages
      <3> QED BY <3>1, <3>2
    <2>4. ASSUME NEW e \in DosIn(toEngine') PROVE mNextStage'[e] = 3
      <3>1. CASE e \in DosIn(toEngine)
        BY <3>1, <1>4, <1>6, <1>7, Before DEF Stages
      <3>2. CASE m = Do(e)
        BY <3>2, <1>6, <1>7, <1>8
      <3> QED BY <3>1, <3>2, <1>5
    <2>5. \A e \in freed' : mNextStage'[e] # 1
      BY <1>1, <1>4, <1>6, Before DEF Stages
    <2> QED BY <1>1, <2>1, <2>2, <2>3, <2>4, <2>5, Before DEF Stages
  <1>12. Completions'
    <2>1. kind[c] # None
      BY SMTT(40), <1>1, Before DEF Completions
    <2>2. \A e \in Cmds : completion[e] = c => ~(mNextStage[e] <= 3)
      BY SMTT(40), <1>1, Before DEF Completions
    <2>3. \A e \in Cmds : mNextStage'[e] <= 3 => mNextStage[e] <= 3
      BY <1>1, <1>6
    <2> QED BY SMTT(40), <1>1, <1>6, <2>1, <2>2, <2>3, Before DEF Completions
  <1>13. /\ Distinct(replies') /\ In(replies') \subseteq In(replies) \cup {c}
         /\ replies' \in Seq(Cmds)
         /\ c \in In(replies') => \A e \in Cmds : m # Do(e)
    <2>1. Distinct(replies)
      BY Before DEF Answered
    <2>2. CASE replies' = replies
      BY <2>1, <2>2, <1>4, <1>7
    <2>3. CASE replies' = Append(replies, c) /\ \A e \in Cmds : m # Do(e)
      <3>1. /\ Append(replies, c) \in Seq(Cmds)
            /\ In(Append(replies, c)) = In(replies) \cup {c} /\ Distinct(Append(replies, c))
        BY ONLY <2>1, <1>4, <1>7, c \in Cmds, AppendNames
      <3> QED BY ONLY <3>1, <2>3
    <2> QED BY <2>2, <2>3
  <1>14. Answered'
    <2>1. ASSUME NEW e \in In(replies')
          PROVE  mNextStage'[e] # 1 /\ e \notin CmdsIn(fromEngine') /\ e \notin DosIn(toEngine')
      <3>1. CASE e = c
        BY <3>1, <2>1, <1>2, <1>4, <1>5, <1>6, <1>7, <1>13
      <3>2. CASE e # c
        BY <3>2, <2>1, <1>2, <1>5, <1>6, <1>7, <1>8, <1>13, Before DEF Answered
      <3> QED BY <3>1, <3>2
    <2> QED BY <2>1, <1>13 DEF Answered
  <1> QED BY <1>1, <1>6, <1>9, <1>10, <1>11, <1>12, <1>13, <1>14, Before, After DEF TypeOK

LEMMA StagesOfNRTInv ==
  ASSUME IInv, NEW c \in Cmds, Stage2(c) \/ Stage2Stops(c) \/ Stage4(c) PROVE IInv'
  <1>1. /\ Do(c) \in FifoMsgs /\ Do(c).cmd = c /\ Free(c) \in FifoMsgs /\ Free(c).cmd = c
        /\ \A e \in Cmds : Free(c) # Do(e)
    BY MsgFacts
  <1>2. CASE Stage2(c)
    BY <1>1, <1>2, PerformStageInv DEF Stage2
  <1>3. CASE Stage2Stops(c)
    BY <1>1, <1>3, PerformStageInv DEF Stage2Stops
  <1>4. CASE Stage4(c)
    BY <1>1, <1>4, PerformStageInv DEF Stage4
  <1> QED BY <1>2, <1>3, <1>4

(* A packet that arrives brings a command that nothing names yet.          *)
LEMMA ReceiveInv ==
  ASSUME IInv, NEW c \in Cmds, NEW d \in Cmds \cup {None}, NEW k \in Kinds, NEW l \in Kinds,
         Receive(c, d, k, l)
  PROVE  IInv'
  <1>1. /\ kind[c] = None /\ \A e \in 1 .. c - 1 : kind[e] # None
        /\ d = None \/ (d = c + 1 /\ d \in Cmds)
        /\ kind' = [e \in Cmds |-> IF e = c THEN k ELSE IF e = d THEN l ELSE kind[e]]
        /\ completion' = [completion EXCEPT ![c] = d]
        /\ packets' = Append(packets, c)
        /\ UNCHANGED <<mNextStage, fromEngine, fromSpent, toEngine, toSpent, audio, nrt,
                       msgFrees, replies, freed>>
    BY DEF Receive, fromFifo, toFifo, outcome
  <1>2. /\ kind \in [Cmds -> Kinds \cup {None}] /\ completion \in [Cmds -> Cmds \cup {None}]
        /\ packets \in Seq(Cmds) /\ In(packets) \subseteq Cmds
    BY Before DEF TypeOK, In
  <1>3. /\ None \notin Kinds /\ None \notin Cmds
    BY KindAssumption, NoneAssumption
  <1>4. /\ completion[c] = None /\ mNextStage[c] = 1
        /\ \A e \in Cmds : e > c => kind[e] = None
    BY <1>1, Before DEF Completions
  <1>5. c \notin In(packets) /\ \A e \in Cmds : completion[e] # c
    BY <1>1, Before DEF Stages, Completions
  <1>6. d # None => /\ kind[d] = None /\ mNextStage[d] = 1 /\ d \notin In(packets) /\ d # c
    <2>1. d # None => d > c /\ d \in Cmds
      BY <1>1 DEF Cmds
    <2> QED BY <2>1, <1>4, Before DEF Completions, Stages, Cmds
  <1>7. /\ packets' \in Seq(Cmds) /\ In(packets') = In(packets) \cup {c} /\ Distinct(packets')
    <2>1. Distinct(packets)
      BY Before DEF Once
    <2>2. /\ Append(packets, c) \in Seq(Cmds) /\ In(Append(packets, c)) = In(packets) \cup {c}
          /\ Distinct(Append(packets, c))
      BY ONLY <2>1, <1>2, <1>5, c \in Cmds, AppendNames
    <2> QED BY ONLY <2>2, <1>1
  <1>8. /\ kind' \in [Cmds -> Kinds \cup {None}] /\ kind'[c] # None
        /\ d # None => kind'[d] # None
        /\ \A e \in Cmds : e # c /\ e # d => kind'[e] = kind[e]
        /\ \A e \in Cmds : kind[e] # None => kind'[e] # None
    <2>1. \A e \in Cmds : kind'[e] = IF e = c THEN k ELSE IF e = d THEN l ELSE kind[e]
      BY <1>1
    <2>2. kind' \in [Cmds -> Kinds \cup {None}]
      BY <1>1, <1>2
    <2>3. k # None /\ l # None
      BY <1>3
    <2> QED BY <2>1, <2>2, <2>3, <1>1
  <1>9. /\ completion' \in [Cmds -> Cmds \cup {None}] /\ completion'[c] = d
        /\ \A e \in Cmds : e # c => completion'[e] = completion[e]
    BY <1>1, <1>2
  <1>10. Room' /\ Answered'
    BY <1>1, Before DEF Room, Answered
  <1>11. Once'
    BY <1>1, <1>7, Before DEF Once
  <1>12. Stages'
    <2>1. \A e \in In(packets') : mNextStage'[e] = 1 /\ kind'[e] # None
      BY <1>1, <1>2, <1>4, <1>7, <1>8, Before DEF Stages
    <2> QED BY <1>1, <2>1, Before DEF Stages
  <1>13. Completions'
    <2>1. ASSUME NEW e \in Cmds, kind'[e] = None
          PROVE  /\ completion'[e] = None /\ mNextStage'[e] = 1
                 /\ \A f \in Cmds : f > e => kind'[f] = None
      <3>1. e # c /\ e # d /\ kind[e] = None
        BY <2>1, <1>3, <1>8
      <3>2. /\ completion[e] = None /\ mNextStage[e] = 1
            /\ \A f \in Cmds : f > e => kind[f] = None
        BY <3>1, Before DEF Completions
      <3>3. e > c
        BY <3>1, <1>1 DEF Cmds
      <3>4. ASSUME NEW f \in Cmds, f > e PROVE f # c /\ f # d
        BY <3>1, <3>3, <3>4, <1>1, <1>3 DEF Cmds
      <3> QED BY <3>1, <3>2, <3>4, <1>1, <1>8, <1>9
    <2>2. ASSUME NEW e \in Cmds, NEW f \in Cmds, completion'[e] = f
          PROVE  /\ f = e + 1 /\ kind'[f] # None /\ f \notin In(packets')
                 /\ mNextStage'[e] <= 3 => mNextStage'[f] = 1
      <3>1. CASE e = c
        BY <3>1, <2>2, <1>1, <1>3, <1>6, <1>7, <1>8, <1>9
      <3>2. CASE e # c
        <4>1. /\ f = e + 1 /\ kind[f] # None /\ f \notin In(packets)
              /\ mNextStage[e] <= 3 => mNextStage[f] = 1
          BY <3>2, <2>2, <1>9, Before DEF Completions
        <4>2. f # c
          BY <3>2, <2>2, <1>5, <1>9
        <4> QED BY <4>1, <4>2, <1>1, <1>7, <1>8
      <3> QED BY <3>1, <3>2
    <2> QED BY <2>1, <2>2 DEF Completions
  <1>14. TypeOK'
    BY <1>1, <1>7, <1>8, <1>9, Before DEF TypeOK
  <1> QED BY <1>10, <1>11, <1>12, <1>13, <1>14 DEF IInv

(* The steps that only begin or end a turn of a thread.                    *)
LEMMA TurnsInv ==
  ASSUME IInv, Callback \/ ToEngineEmpty \/ CallbackEnd \/ FromEngineEmpty \/ WaitNext
  PROVE  IInv'
  <1>1. /\ UNCHANGED <<kind, completion, packets, mNextStage, fromEngine, toEngine, toSpent,
                       msgFrees, replies, freed>>
        /\ fromSpent' \in {fromSpent, 0}
        /\ audio' \in {audio, "out", "toEngine", "packets"}
        /\ nrt' \in {nrt, "waiting", "performing", "done"}
    BY DEF Callback, ToEngineEmpty, CallbackEnd, FromEngineEmpty, WaitNext, client, fromFifo,
           toFifo, outcome
  <1>2. Room'
    BY <1>1, Before, CapacityAssumption DEF Room
  <1>3. Once' /\ Stages' /\ Completions' /\ Answered'
    BY <1>1, Before DEF Once, Stages, Completions, Answered
  <1> QED BY <1>1, <1>2, <1>3, Before, After DEF TypeOK

LEMMA InitInv == Init => IInv
  <1> SUFFICES ASSUME Init PROVE IInv
    OBVIOUS
  <1>1. /\ Len(packets) = 0 /\ Len(fromEngine) = 0 /\ Len(toEngine) = 0 /\ Len(replies) = 0
        /\ packets \in Seq(Cmds) /\ fromEngine \in Seq(FifoMsgs) /\ toEngine \in Seq(FifoMsgs)
        /\ replies \in Seq(Cmds) /\ fromSpent = 0 /\ toSpent = 0 /\ freed = {}
    BY DEF Init
  <1>2. /\ kind = [c \in Cmds |-> None] /\ completion = [c \in Cmds |-> None]
        /\ msgFrees = [c \in Cmds |-> 0] /\ mNextStage = [c \in Cmds |-> 1]
        /\ audio = "out" /\ nrt = "waiting"
    BY DEF Init
  <1>3. Room /\ TypeOK
    BY <1>1, <1>2, CapacityAssumption DEF Room, TypeOK
  <1>4. /\ In(packets) = {} /\ In(replies) = {}
        /\ CmdsIn(fromEngine) = {} /\ CmdsIn(toEngine) = {} /\ DosIn(toEngine) = {}
    BY <1>1 DEF In, CmdsIn, DosIn
  <1>5. Once /\ Answered
    BY <1>1, <1>4 DEF Once, Answered, Distinct, OneEach
  <1>6. Stages /\ Completions
    BY <1>1, <1>2, <1>4, NoneAssumption DEF Stages, Completions
  <1> QED BY <1>3, <1>5, <1>6 DEF IInv

LEMMA StepInv == IInv /\ [Next]_vars => IInv'
  <1> SUFFICES ASSUME IInv, [Next]_vars PROVE IInv'
    OBVIOUS
  <1>1. CASE Client
    BY <1>1, ReceiveInv DEF Client
  <1>2. CASE AudioThread
    BY <1>2, TurnsInv, StartInv, Stage3Inv, Stage3StopsInv, DeleteInv DEF AudioThread
  <1>3. CASE NRTThread
    BY <1>3, TurnsInv, StagesOfNRTInv DEF NRTThread
  <1>4. CASE UNCHANGED vars
    BY <1>4 DEF vars, client, fromFifo, toFifo, outcome, IInv, TypeOK, Room, Once, Stages,
                Completions, Answered
  <1> QED BY <1>1, <1>2, <1>3, <1>4 DEF Next

-----------------------------------------------------------------------------
(* A command object is named by one message at most, and by none after it  *)
(* was deleted.                                                            *)
LEMMA OneOwnerInv == IInv => OneOwner
  <1> SUFFICES ASSUME IInv, NEW c \in Cmds,
                      NEW from, from = {i \in 1 .. Len(fromEngine) : fromEngine[i].cmd = c},
                      NEW to, to = {i \in 1 .. Len(toEngine) : toEngine[i].cmd = c}
               PROVE  Cardinality(from) + Cardinality(to) <= IF c \in freed THEN 0 ELSE 1
    BY DEF OneOwner
  <1>1. \A i, j \in from : i = j
    BY DEF IInv, Once, OneEach
  <1>2. \A i, j \in to : i = j
    BY DEF IInv, Once, OneEach
  <1>3. from # {} => c \in CmdsIn(fromEngine)
    BY DEF CmdsIn
  <1>4. to # {} => c \in CmdsIn(toEngine)
    BY DEF CmdsIn
  <1>5. from = {} \/ to = {}
    BY <1>3, <1>4 DEF IInv, Once
  <1>6. c \in freed => from = {} /\ to = {}
    BY <1>3, <1>4 DEF IInv, Stages
  <1>7. /\ from = {} \/ \E i \in from : from = {i}
        /\ to = {} \/ \E i \in to : to = {i}
    BY <1>1, <1>2
  <1>8. /\ Cardinality(from) = 0 \/ (from # {} /\ Cardinality(from) = 1)
        /\ Cardinality(to) = 0 \/ (to # {} /\ Cardinality(to) = 1)
        /\ from = {} => Cardinality(from) = 0
        /\ to = {} => Cardinality(to) = 0
    <2>1. Cardinality({}) = 0 /\ \A i : Cardinality({i}) = 1
      BY FS_EmptySet, FS_Singleton
    <2> QED BY ONLY <1>7, <2>1
  <1> QED BY <1>5, <1>6, <1>8

LEMMA IntactInv == IInv => CommandsIntact
  <1> SUFFICES ASSUME IInv PROVE CommandsIntact
    OBVIOUS
  <1>1. TypeOK /\ OneOwner
    BY OneOwnerInv DEF IInv
  <1>2. StagesAlternate
    <2>1. \A i \in 1 .. Len(fromEngine) : mNextStage[fromEngine[i].cmd] \in {2, 4}
      BY DEF IInv, Stages, CmdsIn
    <2>2. ASSUME NEW i \in 1 .. Len(toEngine), toEngine[i].func = "do"
          PROVE  mNextStage[toEngine[i].cmd] = 3
      <3>1. toEngine[i] \in FifoMsgs
        BY DEF IInv, Room
      <3>2. toEngine[i].cmd \in Cmds /\ toEngine[i] = Do(toEngine[i].cmd)
        BY <3>1, <2>2 DEF FifoMsgs, Do
      <3>3. toEngine[i].cmd \in DosIn(toEngine)
        BY <3>2 DEF DosIn
      <3> QED BY <3>3 DEF IInv, Stages
    <2> QED BY <2>1, <2>2 DEF StagesAlternate
  <1>3. AnsweredOnce
    BY DEF IInv, Answered, Distinct, AnsweredOnce
  <1> QED BY <1>1, <1>2, <1>3 DEF CommandsIntact

(* The command objects of SC_SequencedCommand.cpp stay in order whatever a *)
(* full fifo loses: one owner, alternating stages, one answer.             *)
THEOREM CommandsStayIntact == Spec => []CommandsIntact
  <1>1. Spec => []IInv
    BY InitInv, StepInv, PTL DEF Spec
  <1> QED BY <1>1, IntactInv, PTL

(* The other thread's stages are those of a command it owns: what waits in *)
(* mFromEngine was neither answered nor deleted, and no message to the     *)
(* engine names it.                                                        *)
THEOREM StagesOwnTheirCommand ==
  Spec => [](\A c \in CmdsIn(fromEngine) :
                c \notin freed /\ c \notin In(replies) /\ c \notin CmdsIn(toEngine))
  <1>1. Spec => []IInv
    BY InitInv, StepInv, PTL DEF Spec
  <1>2. IInv => \A c \in CmdsIn(fromEngine) :
                   c \notin freed /\ c \notin In(replies) /\ c \notin CmdsIn(toEngine)
    BY DEF IInv, Once, Stages, Answered
  <1> QED BY <1>1, <1>2, PTL

-----------------------------------------------------------------------------
(* The order of the answers.  A command that a client sent waits in the    *)
(* packets until it is started, and they wait in the order of arrival; a   *)
(* command of the server that is sent to be deleted was answered.          *)
Arrivals ==
    /\ \A i, j \in 1 .. Len(packets) : i < j => packets[i] < packets[j]
    /\ \A c \in Received : mNextStage[c] = 1 => c \in In(packets)
EndIsAnswered ==
    \A c \in Cmds :
        kind[c] = "done" /\ c \in freed \cup (CmdsIn(toEngine) \ DosIn(toEngine))
            => c \in In(replies)

(* A command that came before a /sync, and one that is done with.          *)
Pair(c, s) == /\ c \in Received /\ s \in Received /\ c < s
              /\ kind[c] = "done" /\ kind[s] = "sync"
Settled(c) == c \in Lost \/ c \in In(replies)
Ahead(q, a, b) == \E i, j \in 1 .. Len(q) : i < j /\ q[i].cmd = a /\ q[j].cmd = b

(* No /sync overtakes a command that is not done with.                     *)
NotOvertaken(c, s) ==
    /\ mNextStage[s] <= mNextStage[c]
    /\ mNextStage[s] = mNextStage[c] =>
          ~Ahead(fromEngine, s, c) /\ ~Ahead(toEngine, s, c)
InOrder == \A c, s \in Cmds : Pair(c, s) /\ ~Settled(c) => NotOvertaken(c, s)

OrderInv == IInv /\ Arrivals /\ EndIsAnswered /\ InOrder /\ SyncedAfterAllBefore

(* Who is ahead of whom in a fifo: the first message is ahead of all, and  *)
(* one that is written last is ahead of none.                              *)
LEMMA AheadNames ==
  ASSUME NEW q, NEW a, NEW b, Ahead(q, a, b)
  PROVE  a \in CmdsIn(q) /\ b \in CmdsIn(q)
  BY DEF Ahead, CmdsIn

LEMMA AheadHead ==
  ASSUME NEW q \in Seq(FifoMsgs), q # <<>>, NEW b \in CmdsIn(q), b # Head(q).cmd
  PROVE  Ahead(q, Head(q).cmd, b)
  <1>1. 1 \in 1 .. Len(q) /\ q[1] = Head(q)
    OBVIOUS
  <1>2. PICK j \in 1 .. Len(q) : q[j].cmd = b
    BY DEF CmdsIn
  <1>3. 1 < j
    BY <1>1, <1>2
  <1> QED BY <1>1, <1>2, <1>3 DEF Ahead

LEMMA AheadTail ==
  ASSUME NEW q \in Seq(FifoMsgs), q # <<>>, NEW a, NEW b, Ahead(Tail(q), a, b)
  PROVE  Ahead(q, a, b)
  <1> DEFINE t == Tail(q)
  <1>1. \A i \in 1 .. Len(t) : i \in Nat /\ i + 1 \in 1 .. Len(q) /\ t[i] = q[i + 1]
    OBVIOUS
  <1> HIDE DEF t
  <1>2. PICK i \in 1 .. Len(t), j \in 1 .. Len(t) : i < j /\ t[i].cmd = a /\ t[j].cmd = b
    BY DEF Ahead, t
  <1>3. i + 1 \in 1 .. Len(q) /\ j + 1 \in 1 .. Len(q) /\ i + 1 < j + 1
    BY <1>1, <1>2
  <1>4. q[i + 1].cmd = a /\ q[j + 1].cmd = b
    BY <1>1, <1>2
  <1> QED BY <1>3, <1>4 DEF Ahead

(* r holds nothing but what q held, and m.                                 *)
TakenFrom(q, r, m) ==
    \A i \in 1 .. Len(r) : r[i] = m \/ \E j \in 1 .. Len(q) : r[i] = q[j]

(* r holds what q held, and after that messages that name members of T.    *)
Longer(q, r, T) ==
    /\ Len(q) \in Nat /\ Len(r) \in Nat
    /\ \A i \in 1 .. Len(r) : \/ i \in 1 .. Len(q) /\ r[i] = q[i]
                              \/ i > Len(q) /\ r[i].cmd \in T

LEMMA AheadLonger ==
  ASSUME NEW q, NEW r, NEW T, Longer(q, r, T), NEW a, NEW b, b \notin T, Ahead(r, a, b)
  PROVE  Ahead(q, a, b)
  <1>1. PICK i \in 1 .. Len(r), j \in 1 .. Len(r) : i < j /\ r[i].cmd = a /\ r[j].cmd = b
    BY DEF Ahead
  <1>2. j \in 1 .. Len(q) /\ r[j] = q[j]
    BY <1>1 DEF Longer
  <1>3. i \in 1 .. Len(q) /\ r[i] = q[i]
    BY <1>1, <1>2 DEF Longer
  <1> QED BY <1>1, <1>2, <1>3 DEF Ahead

LEMMA LongerOne ==
  ASSUME NEW q \in Seq(FifoMsgs), NEW spent \in Nat, Len(q) + spent <= Capacity,
         NEW c \in Cmds, NEW m \in FifoMsgs, m.cmd = c, NEW r, r = Write(q, spent, <<m>>)
  PROVE  Longer(q, r, {c}) /\ TakenFrom(q, r, m)
  <1>1. WrittenOne(q, spent, m, r)
    BY WriteOne
  <1>2. Len(q) \in Nat
    OBVIOUS
  <1> QED BY ONLY <1>1, <1>2, m.cmd = c DEF WrittenOne, Longer, TakenFrom

LEMMA LongerTwo ==
  ASSUME NEW q \in Seq(FifoMsgs), NEW spent \in Nat, Len(q) + spent <= Capacity,
         NEW d \in Cmds, NEW c \in Cmds, NEW r, r = Write(q, spent, <<Do(d), Do(c)>>)
  PROVE  Longer(q, r, {c, d})
  <1>1. WrittenTwo(q, spent, Do(d), Do(c), r)
    BY MsgFacts, WriteTwo
  <1>2. Len(q) \in Nat /\ Do(c).cmd = c /\ Do(d).cmd = d
    BY MsgFacts
  <1> QED BY ONLY <1>1, <1>2 DEF WrittenTwo, Longer

(* The commands a fifo asks to delete are those it asked to delete before, *)
(* and the one that is written.                                            *)
LEMMA EndsOf ==
  ASSUME NEW q, OneEach(q), NEW r, NEW m, TakenFrom(q, r, m),
         NEW e \in Cmds, e \in CmdsIn(r), e \notin DosIn(r)
  PROVE  \/ e \in CmdsIn(q) /\ e \notin DosIn(q)
         \/ m.cmd = e /\ m # Do(e)
  <1>1. PICK i \in 1 .. Len(r) : r[i].cmd = e
    BY DEF CmdsIn
  <1>2. r[i] # Do(e)
    BY <1>1 DEF DosIn
  <1>3. CASE \E j \in 1 .. Len(q) : r[i] = q[j]
    <2>1. PICK j \in 1 .. Len(q) : r[i] = q[j]
      BY <1>3
    <2>2. e \in CmdsIn(q)
      BY <1>1, <2>1 DEF CmdsIn
    <2>3. e \notin DosIn(q)
      BY <1>1, <1>2, <2>1, MsgFacts DEF DosIn, OneEach
    <2> QED BY <2>2, <2>3
  <1>4. CASE r[i] = m
    BY <1>1, <1>2, <1>4
  <1> QED BY <1>3, <1>4 DEF TakenFrom

LEMMA EndsOfTail ==
  ASSUME NEW q \in Seq(FifoMsgs), q # <<>>, OneEach(q),
         NEW e \in Cmds, e \in CmdsIn(Tail(q)), e \notin DosIn(Tail(q))
  PROVE  e \in CmdsIn(q) /\ e \notin DosIn(q)
  <1> DEFINE t == Tail(q)
  <1>1. \A i \in 1 .. Len(t) : i + 1 \in 1 .. Len(q) /\ t[i] = q[i + 1]
    OBVIOUS
  <1> HIDE DEF t
  <1>2. TakenFrom(q, t, Do(e))
    BY <1>1 DEF TakenFrom
  <1>3. e \in CmdsIn(q) /\ e \notin DosIn(q)
    <2>1. e \in CmdsIn(t) /\ e \notin DosIn(t)
      BY DEF t
    <2> QED BY ONLY <1>2, <2>1, OneEach(q), e \in Cmds, EndsOf
  <1> QED BY <1>3

-----------------------------------------------------------------------------
(* A step that takes commands of T further and leaves the others alone.    *)
Only(T) ==
    /\ UNCHANGED <<kind, completion>>
    /\ \A e \in Cmds : e \notin T =>
          /\ mNextStage'[e] = mNextStage[e]
          /\ e \in freed' => e \in freed
          /\ e \in CmdsIn(fromEngine') => e \in CmdsIn(fromEngine)
          /\ e \in CmdsIn(toEngine') => e \in CmdsIn(toEngine)
    /\ \A a, b \in Cmds : b \notin T =>
          /\ Ahead(fromEngine', a, b) => Ahead(fromEngine, a, b)
          /\ Ahead(toEngine', a, b) => Ahead(toEngine, a, b)
    /\ In(replies) \subseteq In(replies')
    /\ T \cap Lost = {}

LEMMA LostIs ==
  ASSUME NEW c \in Cmds
  PROVE  c \in Lost <=> /\ mNextStage[c] > 1 /\ c \notin freed
                        /\ c \notin CmdsIn(fromEngine) /\ c \notin CmdsIn(toEngine)
  BY DEF Lost, CmdsIn

LEMMA LostIsNext ==
  ASSUME NEW c \in Cmds
  PROVE  c \in Lost' <=> /\ mNextStage'[c] > 1 /\ c \notin freed'
                         /\ c \notin CmdsIn(fromEngine') /\ c \notin CmdsIn(toEngine')
  BY DEF Lost, CmdsIn

(* What a full fifo lost stays lost, and an answer is not taken back.      *)
LEMMA SettledStays ==
  ASSUME NEW T, Only(T), NEW c \in Cmds
  PROVE  /\ c \in Lost => c \in Lost'
         /\ Settled(c) => Settled(c)'
  <1>1. c \in Lost => c \in Lost'
    BY LostIs, LostIsNext DEF Only
  <1> QED BY <1>1 DEF Settled, Only

(* Where a command of the server is that is not done with.                 *)
LEMMA UnsettledPlace ==
  ASSUME OrderInv, NEW c \in Cmds, NEW s \in Cmds, Pair(c, s), ~Settled(c)
  PROVE  /\ mNextStage[c] \in 1 .. 4 /\ c \notin freed
         /\ mNextStage[c] = 1 => c \in In(packets)
         /\ mNextStage[c] = 3 => c \in CmdsIn(toEngine)
         /\ mNextStage[c] \in {2, 4} => c \in CmdsIn(fromEngine)
  <1>1. /\ IInv /\ Arrivals /\ EndIsAnswered
        /\ kind[c] = "done" /\ c \in Received /\ c \notin Lost /\ c \notin In(replies)
    BY DEF OrderInv, Pair, Settled
  <1>2. c \notin freed /\ c \notin CmdsIn(toEngine) \ DosIn(toEngine)
    BY <1>1 DEF EndIsAnswered
  <1>3. mNextStage[c] \in 1 .. 5
    BY <1>1, Before
  <1>4. mNextStage[c] = 1 \/ c \in CmdsIn(fromEngine) \/ c \in DosIn(toEngine)
    BY <1>1, <1>2, <1>3, LostIs
  <1>5. /\ c \in CmdsIn(fromEngine) => mNextStage[c] \in {2, 4}
        /\ c \in DosIn(toEngine) => mNextStage[c] = 3 /\ c \in CmdsIn(toEngine)
    BY <1>1, Before DEF Stages
  <1>6. mNextStage[c] = 1 => c \in In(packets)
    BY <1>1 DEF Arrivals
  <1> QED BY <1>2, <1>3, <1>4, <1>5, <1>6

LEMMA PairTypes ==
  ASSUME NEW c, NEW s, Pair(c, s)
  PROVE  c \in Cmds /\ s \in Cmds /\ c # s /\ c < s
  BY DEF Pair, Received, Cmds

(* The commands of T are not overtaken either, because the one that moves  *)
(* is first, and d is in a completion message or is not moved.             *)
LEMMA MovedInOrder ==
  ASSUME OrderInv, NEW x \in Cmds, NEW d, d \notin Received, Only({x, d}),
         mNextStage' \in [Cmds -> 1 .. 5], mNextStage'[x] = mNextStage[x] + 1,
         \A c \in Cmds : Pair(c, x) /\ ~Settled(c) => mNextStage[c] # mNextStage[x],
         x \notin CmdsIn(fromEngine) \/ ~\E c \in Cmds : Ahead(fromEngine', x, c),
         x \notin CmdsIn(toEngine) \/ ~\E c \in Cmds : Ahead(toEngine', x, c)
  PROVE  InOrder'
  <1> SUFFICES ASSUME NEW c \in Cmds, NEW s \in Cmds, Pair(c, s)', ~Settled(c)'
               PROVE  NotOvertaken(c, s)'
    BY DEF InOrder
  <1>1. Pair(c, s) /\ ~Settled(c) /\ c # d /\ s # d /\ c # s
    <2>1. Pair(c, s)
      BY DEF Only, Pair, Received
    <2> QED BY <2>1, SettledStays, PairTypes DEF Pair
  <1>2. NotOvertaken(c, s)
    BY <1>1 DEF OrderInv, InOrder
  <1>3. mNextStage \in [Cmds -> 1 .. 5]
    BY Before DEF OrderInv
  <1>4. CASE c = x
    <2>1. mNextStage'[s] < mNextStage'[c]
      BY <1>1, <1>2, <1>3, <1>4 DEF Only, NotOvertaken
    <2> QED BY <2>1, <1>3 DEF NotOvertaken
  <1>5. CASE s = x
    <2>1. mNextStage'[s] <= mNextStage'[c]
      BY <1>1, <1>2, <1>3, <1>5 DEF Only, NotOvertaken
    <2>2. c \notin {x, d}
      BY <1>1, <1>5
    <2>3. ~Ahead(fromEngine', x, c)
      BY <2>2, AheadNames DEF Only
    <2>4. ~Ahead(toEngine', x, c)
      BY <2>2, AheadNames DEF Only
    <2> QED BY <2>1, <2>3, <2>4, <1>5 DEF NotOvertaken
  <1>6. CASE c # x /\ s # x
    BY <1>1, <1>2, <1>6 DEF Only, NotOvertaken
  <1> QED BY <1>4, <1>5, <1>6

(* What is ahead in a fifo is not ahead of what was ahead of it.           *)
LEMMA StartFirst ==
  ASSUME OrderInv, Start, NEW x, x = Head(packets), NEW c \in Cmds, Pair(c, x), ~Settled(c)
  PROVE  mNextStage[c] # mNextStage[x]
  <1>1. IInv /\ packets \in Seq(Cmds) /\ packets # <<>> /\ c # x /\ c < x /\ x \in Cmds
    BY Before, PairTypes DEF OrderInv, TypeOK, Start
  <1>2. 1 \in 1 .. Len(packets) /\ packets[1] = x
    BY <1>1
  <1>3. mNextStage[x] = 1
    BY <1>1, StartFacts
  <1>4. c \notin In(packets)
    <2> SUFFICES ASSUME NEW j \in 1 .. Len(packets), packets[j] = c PROVE FALSE
      BY DEF In
    <2>1. 1 < j
      BY <1>1, <1>2
    <2>2. x < c
      BY <1>2, <2>1 DEF OrderInv, Arrivals
    <2> QED BY <1>1, <2>2 DEF Cmds
  <1> QED BY <1>1, <1>3, <1>4, UnsettledPlace

LEMMA Stage3First ==
  ASSUME OrderInv, NEW x \in Cmds, TakeToEngine(Do(x)), NEW c \in Cmds, Pair(c, x), ~Settled(c)
  PROVE  mNextStage[c] # mNextStage[x]
  <1>1. /\ IInv /\ toEngine \in Seq(FifoMsgs) /\ toEngine # <<>> /\ Head(toEngine) = Do(x)
        /\ c # x /\ Do(x).cmd = x
    BY Before, PairTypes, MsgFacts DEF OrderInv, TakeToEngine
  <1>2. mNextStage[x] = 3
    BY <1>1, TakeFacts, Before DEF Stages
  <1>3. c \in CmdsIn(toEngine) => Ahead(toEngine, x, c)
    BY <1>1, AheadHead
  <1>4. mNextStage[x] = mNextStage[c] => ~Ahead(toEngine, x, c)
    BY DEF OrderInv, InOrder, NotOvertaken
  <1> QED BY <1>2, <1>3, <1>4, UnsettledPlace

LEMMA PerformFirst ==
  ASSUME OrderInv, NEW x \in Cmds, NEW n \in {2, 4}, NEW m, PerformStage(x, n, m),
         NEW c \in Cmds, Pair(c, x), ~Settled(c)
  PROVE  mNextStage[c] # mNextStage[x]
  <1>1. /\ IInv /\ fromEngine \in Seq(FifoMsgs) /\ fromEngine # <<>> /\ Head(fromEngine) = Do(x)
        /\ c # x /\ Do(x).cmd = x /\ mNextStage[x] \in {2, 4}
    BY Before, PairTypes, MsgFacts DEF OrderInv, PerformStage
  <1>2. c \in CmdsIn(fromEngine) => Ahead(fromEngine, x, c)
    BY <1>1, AheadHead
  <1>3. mNextStage[x] = mNextStage[c] => ~Ahead(fromEngine, x, c)
    BY DEF OrderInv, InOrder, NotOvertaken
  <1> QED BY <1>1, <1>2, <1>3, UnsettledPlace

(* Which commands each step moves.                                         *)
LEMMA StartOnly ==
  ASSUME IInv, Start, NEW x, x = Head(packets)
  PROVE  Only({x, None}) /\ ~\E c \in Cmds : c # x /\ Ahead(fromEngine', x, c)
  <1>1. /\ packets # <<>> /\ packets' = Tail(packets)
        /\ fromEngine' = Write(fromEngine, fromSpent, <<Do(x)>>)
        /\ UNCHANGED <<kind, completion, fromSpent, toEngine, toSpent, audio, nrt,
                       msgFrees, replies, freed>>
    BY DEF Start, client, toFifo, outcome
  <1>2. /\ IInv /\ x \in Cmds /\ x \notin CmdsIn(fromEngine) /\ mNextStage[x] = 1
        /\ CmdsIn(fromEngine') \subseteq CmdsIn(fromEngine) \cup {x}
        /\ \A e \in Cmds : e # x => mNextStage'[e] = mNextStage[e]
    BY StartFacts
  <1>3. Longer(fromEngine, fromEngine', {x})
    <2>1. /\ fromEngine \in Seq(FifoMsgs) /\ fromSpent \in Nat
          /\ Len(fromEngine) + fromSpent <= Capacity
      BY <1>2, Before
    <2> QED BY ONLY <1>1, <1>2, <2>1, MsgFacts, LongerOne
  <1>4. \A a, b \in Cmds : b # x /\ Ahead(fromEngine', a, b) => Ahead(fromEngine, a, b)
    BY <1>3, AheadLonger
  <1>5. x \notin Lost /\ None \notin Lost
    BY <1>2, LostIs, NoneAssumption DEF Lost
  <1>6. Only({x, None})
    BY <1>1, <1>2, <1>4, <1>5 DEF Only
  <1> QED BY <1>2, <1>4, <1>6, AheadNames

LEMMA Stage3Only ==
  ASSUME IInv, NEW x \in Cmds, Stage3(x), NEW d, d = completion[x]
  PROVE  Only({x, d}) /\ ~\E c \in Cmds : c # x /\ c # d /\ Ahead(fromEngine', x, c)
  <1>1. /\ toEngine # <<>> /\ toEngine' = Tail(toEngine)
        /\ fromEngine' = Write(fromEngine, fromSpent,
                               IF d = None THEN <<Do(x)>> ELSE <<Do(d), Do(x)>>)
        /\ UNCHANGED <<kind, completion, packets, fromSpent, audio, nrt, msgFrees, replies, freed>>
    BY DEF Stage3, TakeToEngine, client, outcome
  <1>2. /\ IInv /\ x \notin CmdsIn(fromEngine) /\ x \in CmdsIn(toEngine)
        /\ CmdsIn(fromEngine') \subseteq CmdsIn(fromEngine) \cup {x, d}
        /\ CmdsIn(toEngine') \subseteq CmdsIn(toEngine)
        /\ \A e \in Cmds : e # x /\ e # d => mNextStage'[e] = mNextStage[e]
        /\ d # None => d \in Cmds /\ mNextStage[d] = 1
    BY Stage3Facts
  <1>3. Longer(fromEngine, fromEngine', {x, d})
    <2>1. /\ fromEngine \in Seq(FifoMsgs) /\ fromSpent \in Nat
          /\ Len(fromEngine) + fromSpent <= Capacity
      BY <1>2, Before
    <2>2. CASE d = None
      <3>1. Longer(fromEngine, fromEngine', {x})
        BY ONLY <1>1, <2>1, <2>2, x \in Cmds, MsgFacts, LongerOne
      <3> QED BY <3>1 DEF Longer
    <2>3. CASE d # None
      BY ONLY <1>1, <1>2, <2>1, <2>3, x \in Cmds, LongerTwo
    <2> QED BY <2>2, <2>3
  <1>4. \A a, b \in Cmds :
           b \notin {x, d} /\ Ahead(fromEngine', a, b) => Ahead(fromEngine, a, b)
    BY <1>3, AheadLonger
  <1>5. \A a, b \in Cmds : Ahead(toEngine', a, b) => Ahead(toEngine, a, b)
    BY <1>1, <1>2, Before, AheadTail
  <1>6. x \notin Lost /\ d \notin Lost
    BY <1>2, LostIs, NoneAssumption DEF Lost
  <1>7. Only({x, d})
    BY <1>1, <1>2, <1>4, <1>5, <1>6 DEF Only
  <1> QED BY <1>2, <1>4, <1>7, AheadNames

LEMMA PerformOnly ==
  ASSUME IInv, NEW x \in Cmds, NEW n \in {2, 4}, NEW m \in FifoMsgs, m.cmd = x,
         PerformStage(x, n, m), replies' = replies \/ replies' = Append(replies, x)
  PROVE  Only({x, None}) /\ ~\E c \in Cmds : c # x /\ Ahead(toEngine', x, c)
  <1>1. /\ fromEngine # <<>> /\ fromEngine' = Tail(fromEngine)
        /\ toEngine' = Write(toEngine, 0, <<m>>)
        /\ UNCHANGED <<kind, completion, packets, audio, nrt, msgFrees, freed>>
    BY DEF PerformStage, client
  <1>2. /\ IInv /\ x \in CmdsIn(fromEngine) /\ x \notin CmdsIn(toEngine)
        /\ CmdsIn(fromEngine') \subseteq CmdsIn(fromEngine)
        /\ CmdsIn(toEngine') \subseteq CmdsIn(toEngine) \cup {x}
        /\ \A e \in Cmds : e # x => mNextStage'[e] = mNextStage[e]
    BY PerformFacts
  <1>3. Longer(toEngine, toEngine', {x})
    <2>1. /\ toEngine \in Seq(FifoMsgs) /\ 0 \in Nat /\ Len(toEngine) + 0 <= Capacity
      BY <1>2, Before, CapacityAssumption
    <2> QED BY ONLY <1>1, <2>1, m \in FifoMsgs, m.cmd = x, x \in Cmds, LongerOne
  <1>4. \A a, b \in Cmds : b # x /\ Ahead(toEngine', a, b) => Ahead(toEngine, a, b)
    BY <1>3, AheadLonger
  <1>5. \A a, b \in Cmds : Ahead(fromEngine', a, b) => Ahead(fromEngine, a, b)
    BY <1>1, <1>2, Before, AheadTail
  <1>6. x \notin Lost /\ None \notin Lost
    BY <1>2, LostIs, NoneAssumption DEF Lost
  <1>7. In(replies) \subseteq In(replies')
    <2>1. replies \in Seq(Cmds)
      BY <1>2, Before DEF TypeOK
    <2>2. In(Append(replies, x)) = In(replies) \cup {x}
      BY ONLY <2>1, x \in Cmds, AppendNames
    <2>3. CASE replies' = replies
      BY <2>3
    <2>4. CASE replies' = Append(replies, x)
      BY <2>2, <2>4
    <2> QED BY <2>3, <2>4
  <1>8. Only({x, None})
    BY <1>1, <1>2, <1>4, <1>5, <1>6, <1>7 DEF Only
  <1> QED BY <1>2, <1>4, <1>8, AheadNames

LEMMA DeleteOnly ==
  ASSUME IInv, NEW x \in Cmds, NEW m, m.cmd = x, TakeToEngine(m), DeleteCmd(x),
         UNCHANGED <<kind, completion, fromEngine, replies>>,
         \A e \in Cmds : e # x => mNextStage'[e] = mNextStage[e]
  PROVE  Only({x}) /\ \A a, b \in Cmds : Ahead(toEngine', a, b) => Ahead(toEngine, a, b)
  <1>1. /\ toEngine # <<>> /\ toEngine' = Tail(toEngine) /\ toEngine \in Seq(FifoMsgs)
        /\ freed' = freed \cup {x}
    BY Before DEF TakeToEngine, DeleteCmd
  <1>2. /\ CmdsIn(toEngine') \subseteq CmdsIn(toEngine) \ {x} /\ x \in CmdsIn(toEngine)
    BY TakeFacts
  <1>3. \A a, b \in Cmds : Ahead(toEngine', a, b) => Ahead(toEngine, a, b)
    BY <1>1, AheadTail
  <1>4. x \notin Lost
    BY <1>2, LostIs
  <1> QED BY <1>1, <1>2, <1>3, <1>4 DEF Only

(* No step takes anything back that a full fifo lost.                      *)
LEMMA LostStays ==
  ASSUME IInv, Next
  PROVE  Lost \subseteq Lost'
  <1> SUFFICES ASSUME NEW c \in Lost PROVE c \in Lost'
    OBVIOUS
  <1>0. c \in Cmds
    BY DEF Lost
  <1>1. ASSUME NEW T, Only(T) PROVE c \in Lost'
    BY <1>0, <1>1, SettledStays
  <1>2. ASSUME UNCHANGED <<mNextStage, freed, fromEngine, toEngine>> PROVE c \in Lost'
    BY <1>2 DEF Lost
  <1>3. CASE Client
    BY <1>2, <1>3 DEF Client, Receive, fromFifo, toFifo, outcome
  <1>4. CASE Callback \/ ToEngineEmpty \/ CallbackEnd \/ FromEngineEmpty \/ WaitNext
    BY <1>2, <1>4 DEF Callback, ToEngineEmpty, CallbackEnd, FromEngineEmpty, WaitNext, fromFifo,
                      toFifo, outcome
  <1>5. CASE Start
    BY <1>1, <1>5, StartOnly
  <1>6. ASSUME NEW x \in Cmds, Stage3(x) PROVE c \in Lost'
    BY <1>1, <1>6, Stage3Only
  <1>7. ASSUME NEW x \in Cmds, Stage3Stops(x) PROVE c \in Lost'
    <2>1. /\ TakeToEngine(Do(x)) /\ DeleteCmd(x) /\ Do(x).cmd = x
          /\ UNCHANGED <<kind, completion, fromEngine, replies>>
          /\ \A e \in Cmds : e # x => mNextStage'[e] = mNextStage[e]
      BY <1>7, Before, MsgFacts DEF Stage3Stops, client, fromFifo
    <2> QED BY <1>1, <2>1, DeleteOnly
  <1>8. ASSUME NEW x \in Cmds, Delete(x) PROVE c \in Lost'
    <2>1. /\ TakeToEngine(Free(x)) /\ DeleteCmd(x) /\ Free(x).cmd = x
          /\ UNCHANGED <<kind, completion, fromEngine, replies, mNextStage>>
      BY <1>8, MsgFacts DEF Delete, client, fromFifo
    <2> QED BY <1>1, <2>1, DeleteOnly
  <1>9. ASSUME NEW x \in Cmds, Stage2(x) \/ Stage2Stops(x) \/ Stage4(x) PROVE c \in Lost'
    <2>1. /\ Do(x) \in FifoMsgs /\ Do(x).cmd = x /\ Free(x) \in FifoMsgs /\ Free(x).cmd = x
      BY MsgFacts
    <2>2. CASE Stage2(x)
      BY <1>1, <2>1, <2>2, PerformOnly DEF Stage2
    <2>3. CASE Stage2Stops(x)
      BY <1>1, <2>1, <2>3, PerformOnly DEF Stage2Stops
    <2>4. CASE Stage4(x)
      BY <1>1, <2>1, <2>4, PerformOnly DEF Stage4
    <2> QED BY <1>9, <2>2, <2>3, <2>4
  <1> QED BY <1>3, <1>4, <1>5, <1>6, <1>7, <1>8, <1>9 DEF Next, AudioThread, NRTThread

-----------------------------------------------------------------------------
(* The rest of the invariant, for the steps that leave the clients alone.  *)
LEMMA ArrivalsStay ==
  ASSUME Arrivals, UNCHANGED <<kind, completion, packets>>,
         \A e \in Cmds : mNextStage'[e] = 1 => mNextStage[e] = 1
  PROVE  Arrivals'
  <1>1. Received' = Received /\ Received \subseteq Cmds
    BY DEF Received
  <1> QED BY <1>1 DEF Arrivals

LEMMA AnswersStayInOrder ==
  ASSUME OrderInv, NEW T, Only(T), NEW x \in Cmds,
         \/ replies' = replies
         \/ /\ replies' = Append(replies, x)
            /\ kind[x] = "sync" => \A c \in Cmds : Pair(c, x) => Settled(c)
  PROVE  SyncedAfterAllBefore'
  <1> SUFFICES ASSUME NEW i \in 1 .. Len(replies'), kind'[replies'[i]] = "sync",
                      NEW c \in Received', replies'[i] \in Received',
                      c < replies'[i], kind'[c] = "done"
               PROVE  c \in Lost' \/ \E j \in 1 .. i : replies'[j] = c
    BY DEF SyncedAfterAllBefore, AnsweredBefore
  <1>1. /\ replies \in Seq(Cmds) /\ UNCHANGED <<kind, completion>>
        /\ c \in Received /\ replies'[i] \in Received /\ c \in Cmds
    BY Before DEF OrderInv, TypeOK, Only, Received
  <1>2. \A j \in 1 .. Len(replies) : j \in 1 .. Len(replies') /\ replies'[j] = replies[j]
    BY <1>1
  <1>3. CASE i \in 1 .. Len(replies)
    <2>1. c \in Lost \/ \E j \in 1 .. i : replies[j] = c
      BY <1>1, <1>2, <1>3 DEF OrderInv, SyncedAfterAllBefore, AnsweredBefore
    <2>2. \A j \in 1 .. i : j \in 1 .. Len(replies)
      BY <1>1, <1>3
    <2> QED BY <1>1, <1>2, <2>1, <2>2, SettledStays
  <1>4. CASE i \notin 1 .. Len(replies)
    <2>1. replies' = Append(replies, x) /\ i = Len(replies) + 1 /\ replies'[i] = x
      BY <1>1, <1>4
    <2>2. Settled(c)
      BY <2>1, <1>1 DEF Pair
    <2>3. ASSUME c \in In(replies) PROVE \E j \in 1 .. i : replies'[j] = c
      <3>1. PICK j \in 1 .. Len(replies) : replies[j] = c
        BY <2>3 DEF In
      <3>2. j \in 1 .. i
        BY <1>1, <2>1
      <3> QED BY <3>1, <3>2, <1>2
    <2> QED BY <2>2, <2>3, <1>1, SettledStays DEF Settled
  <1> QED BY <1>3, <1>4

LEMMA StartInOrder ==
  ASSUME OrderInv, Start PROVE OrderInv'
  <1> SUFFICES ASSUME NEW x, x = Head(packets) PROVE OrderInv'
    OBVIOUS
  <1>1. /\ IInv /\ Arrivals /\ EndIsAnswered /\ IInv'
    BY StartInv DEF OrderInv
  <1>2. /\ packets # <<>> /\ packets' = Tail(packets) /\ packets \in Seq(Cmds)
        /\ UNCHANGED <<kind, completion, toEngine, replies, freed>>
    BY <1>1, Before DEF Start, client, toFifo, outcome, TypeOK
  <1>3. /\ x \in Cmds /\ mNextStage[x] = 1 /\ mNextStage'[x] = 2
        /\ x \notin CmdsIn(fromEngine) /\ x \notin CmdsIn(toEngine)
        /\ mNextStage' \in [Cmds -> 1 .. 5]
        /\ \A e \in Cmds : e # x => mNextStage'[e] = mNextStage[e]
    BY <1>1, StartFacts
  <1>4. Only({x, None})
    BY <1>1, StartOnly
  <1>5. Arrivals'
    <2>1. \A i, j \in 1 .. Len(packets') : i < j => packets'[i] < packets'[j]
      <3>1. \A i \in 1 .. Len(packets') :
               i \in Nat /\ i + 1 \in 1 .. Len(packets) /\ packets'[i] = packets[i + 1]
        BY <1>2
      <3>2. ASSUME NEW i \in 1 .. Len(packets'), NEW j \in 1 .. Len(packets'), i < j
            PROVE  packets'[i] < packets'[j]
        <4>1. i + 1 < j + 1
          BY <3>1, <3>2
        <4> QED BY <1>1, <3>1, <4>1 DEF Arrivals
      <3> QED BY <3>2
    <2>2. In(packets) \subseteq In(packets') \cup {x}
      <3> SUFFICES ASSUME NEW i \in 1 .. Len(packets), packets[i] # x
                   PROVE  packets[i] \in In(packets')
        BY DEF In
      <3>1. i - 1 \in 1 .. Len(packets') /\ packets'[i - 1] = packets[i]
        BY <1>2
      <3> QED BY <3>1 DEF In
    <2>3. Received' = Received /\ Received \subseteq Cmds
      BY <1>2 DEF Received
    <2> QED BY <1>1, <1>3, <2>1, <2>2, <2>3 DEF Arrivals
  <1>6. EndIsAnswered'
    BY <1>1, <1>2 DEF EndIsAnswered
  <1>7. InOrder'
    <2>1. None \notin Received
      BY NoneAssumption DEF Received
    <2>2. \A c \in Cmds : Pair(c, x) /\ ~Settled(c) => mNextStage[c] # mNextStage[x]
      BY StartFirst
    <2> QED BY <1>3, <1>4, <2>1, <2>2, MovedInOrder
  <1>8. SyncedAfterAllBefore'
    BY <1>2, <1>3, <1>4, AnswersStayInOrder
  <1> QED BY <1>1, <1>5, <1>6, <1>7, <1>8 DEF OrderInv

LEMMA Stage3InOrder ==
  ASSUME OrderInv, NEW x \in Cmds, Stage3(x) PROVE OrderInv'
  <1> SUFFICES ASSUME NEW d, d = completion[x] PROVE OrderInv'
    OBVIOUS
  <1>1. /\ IInv /\ Arrivals /\ EndIsAnswered /\ IInv'
    BY Stage3Inv DEF OrderInv
  <1>2. /\ toEngine # <<>> /\ toEngine' = Tail(toEngine) /\ TakeToEngine(Do(x))
        /\ UNCHANGED <<kind, completion, packets, replies, freed>>
    BY DEF Stage3, TakeToEngine, client, outcome
  <1>3. /\ mNextStage[x] = 3 /\ mNextStage'[x] = 4
        /\ x \notin CmdsIn(fromEngine) /\ x \notin CmdsIn(toEngine')
        /\ mNextStage' \in [Cmds -> 1 .. 5]
        /\ d # None => mNextStage'[d] = 2
        /\ \A e \in Cmds : e # x /\ e # d => mNextStage'[e] = mNextStage[e]
    BY <1>1, Stage3Facts
  <1>4. Only({x, d})
    BY <1>1, Stage3Only
  <1>5. Arrivals'
    BY <1>1, <1>2, <1>3, NoneAssumption, ArrivalsStay
  <1>6. EndIsAnswered'
    <2>1. OneEach(toEngine) /\ toEngine \in Seq(FifoMsgs)
      BY <1>1, Before
    <2> QED BY <1>1, <1>2, <2>1, EndsOfTail DEF EndIsAnswered
  <1>7. InOrder'
    <2>1. d \notin Received
      BY DEF Received
    <2>2. \A c \in Cmds : Pair(c, x) /\ ~Settled(c) => mNextStage[c] # mNextStage[x]
      BY <1>2, Stage3First
    <2>3. ~\E c \in Cmds : Ahead(toEngine', x, c)
      BY <1>3, AheadNames
    <2> QED BY <1>3, <1>4, <2>1, <2>2, <2>3, MovedInOrder
  <1>8. SyncedAfterAllBefore'
    BY <1>2, <1>4, AnswersStayInOrder
  <1> QED BY <1>1, <1>5, <1>6, <1>7, <1>8 DEF OrderInv

LEMMA PerformInOrder ==
  ASSUME OrderInv, NEW x \in Cmds, NEW n \in {2, 4}, NEW m \in FifoMsgs, m.cmd = x,
         PerformStage(x, n, m), n = 4 => \A e \in Cmds : m # Do(e),
         \/ replies' = replies /\ (kind[x] = "done" => m = Do(x))
         \/ /\ replies' = Append(replies, x) /\ \A e \in Cmds : m # Do(e)
            /\ kind[x] = "sync" => n = 4
  PROVE  OrderInv'
  <1>1. /\ IInv /\ Arrivals /\ EndIsAnswered /\ replies \in Seq(Cmds)
    BY Before DEF OrderInv, TypeOK
  <1>2. IInv'
    BY <1>1, PerformStageInv
  <1>3. /\ mNextStage[x] = n /\ UNCHANGED <<kind, completion, packets, freed>>
        /\ toEngine' = Write(toEngine, 0, <<m>>)
    BY DEF PerformStage, client
  <1>4. /\ mNextStage'[x] = n + 1 /\ x \notin CmdsIn(fromEngine') /\ x \notin CmdsIn(toEngine)
        /\ mNextStage' \in [Cmds -> 1 .. 5]
        /\ \A e \in Cmds : e # x => mNextStage'[e] = mNextStage[e]
    BY <1>1, PerformFacts
  <1>5. Only({x, None})
    BY <1>1, PerformOnly
  <1>6. Arrivals'
    BY <1>1, <1>3, <1>4, ArrivalsStay
  <1>7. EndIsAnswered'
    <2>1. OneEach(toEngine) /\ TakenFrom(toEngine, toEngine', m)
      <3>1. /\ toEngine \in Seq(FifoMsgs) /\ 0 \in Nat /\ Len(toEngine) + 0 <= Capacity
            /\ OneEach(toEngine)
        BY <1>1, Before, CapacityAssumption
      <3> QED BY ONLY <1>3, <3>1, m \in FifoMsgs, m.cmd = x, x \in Cmds, LongerOne
    <2>2. ASSUME NEW e \in Cmds, kind[e] = "done",
                 e \in freed \/ (e \in CmdsIn(toEngine') /\ e \notin DosIn(toEngine'))
          PROVE  e \in In(replies')
      <3>1. \/ e \in freed \/ (e \in CmdsIn(toEngine) /\ e \notin DosIn(toEngine))
            \/ e = x /\ m # Do(e)
        BY <2>1, <2>2, EndsOf
      <3>2. In(replies) \subseteq In(replies')
        BY <1>5 DEF Only
      <3>3. e = x /\ m # Do(e) => e \in In(replies')
        BY <1>1, <2>2, AppendNames
      <3> QED BY <1>1, <2>2, <3>1, <3>2, <3>3 DEF EndIsAnswered
    <2> QED BY <1>3, <2>2 DEF EndIsAnswered
  <1>8. \A c \in Cmds : Pair(c, x) /\ ~Settled(c) => mNextStage[c] # mNextStage[x]
    BY PerformFirst
  <1>9. InOrder'
    <2>1. None \notin Received
      BY NoneAssumption DEF Received
    <2>2. ~\E c \in Cmds : Ahead(fromEngine', x, c)
      BY <1>4, AheadNames
    <2> QED BY <1>3, <1>4, <1>5, <1>8, <2>1, <2>2, MovedInOrder
  <1>10. SyncedAfterAllBefore'
    <2>1. ASSUME n = 4, NEW c \in Cmds, Pair(c, x), ~Settled(c) PROVE FALSE
      <3>1. mNextStage[c] \in 1 .. 4 /\ mNextStage[c] # 4
        BY <2>1, <1>3, <1>8, UnsettledPlace
      <3>2. 4 <= mNextStage[c]
        BY <2>1, <1>3 DEF OrderInv, InOrder, NotOvertaken
      <3> QED BY <3>1, <3>2
    <2> QED BY <1>5, <2>1, AnswersStayInOrder
  <1> QED BY <1>1, <1>2, <1>6, <1>7, <1>9, <1>10 DEF OrderInv

LEMMA NRTInOrder ==
  ASSUME OrderInv, NEW c \in Cmds, Stage2(c) \/ Stage2Stops(c) \/ Stage4(c)
  PROVE  OrderInv'
  <1>1. /\ Do(c) \in FifoMsgs /\ Do(c).cmd = c /\ Free(c) \in FifoMsgs /\ Free(c).cmd = c
        /\ \A e \in Cmds : Free(c) # Do(e)
    BY MsgFacts
  <1>2. CASE Stage2(c)
    BY <1>1, <1>2, PerformInOrder DEF Stage2
  <1>3. CASE Stage2Stops(c)
    BY <1>1, <1>3, PerformInOrder DEF Stage2Stops
  <1>4. CASE Stage4(c)
    BY <1>1, <1>4, PerformInOrder DEF Stage4
  <1> QED BY <1>2, <1>3, <1>4

(* A deletion: what is deleted was answered, or no /done is sent for it.   *)
LEMMA DeletedInOrder ==
  ASSUME OrderInv, IInv', NEW x \in Cmds, NEW m, m.cmd = x, TakeToEngine(m), DeleteCmd(x),
         UNCHANGED <<kind, completion, packets, fromEngine, replies>>,
         \A e \in Cmds : e # x => mNextStage'[e] = mNextStage[e],
         kind[x] = "plugin" \/ (m = Free(x) /\ mNextStage' = mNextStage),
         mNextStage'[x] # 1
  PROVE  OrderInv'
  <1>1. /\ IInv /\ Arrivals /\ EndIsAnswered
        /\ toEngine # <<>> /\ toEngine' = Tail(toEngine) /\ toEngine \in Seq(FifoMsgs)
        /\ OneEach(toEngine) /\ m = Head(toEngine) /\ freed' = freed \cup {x}
    BY Before DEF OrderInv, TakeToEngine, DeleteCmd
  <1>2. /\ CmdsIn(toEngine') \subseteq CmdsIn(toEngine) \ {x} /\ x \in CmdsIn(toEngine)
    BY <1>1, TakeFacts
  <1>3. \A a, b \in Cmds : Ahead(toEngine', a, b) => Ahead(toEngine, a, b)
    BY <1>1, AheadTail
  <1>4. Only({x})
    BY <1>1, DeleteOnly
  <1>5. kind[x] = "done" => x \in In(replies)
    <2>1. ASSUME m = Free(x) PROVE x \notin DosIn(toEngine)
      <3>1. 1 \in 1 .. Len(toEngine) /\ toEngine[1] = Free(x)
        BY <1>1, <2>1
      <3> QED BY <3>1, <1>1, MsgFacts DEF DosIn, OneEach
    <2> QED BY <1>1, <1>2, <2>1 DEF EndIsAnswered
  <1>6. Arrivals'
    BY <1>1, ArrivalsStay
  <1>7. EndIsAnswered'
    BY <1>1, <1>5, EndsOfTail DEF EndIsAnswered
  <1>8. InOrder'
    <2> SUFFICES ASSUME NEW c \in Cmds, NEW s \in Cmds, Pair(c, s)', ~Settled(c)'
                 PROVE  NotOvertaken(c, s)'
      BY DEF InOrder
    <2>1. Pair(c, s) /\ ~Settled(c) /\ c # s
      <3>1. Pair(c, s)
        BY DEF Pair, Received
      <3> QED BY <3>1, <1>4, SettledStays, PairTypes
    <2>2. c # x
      BY <1>5, <2>1 DEF Pair, Settled
    <2>3. mNextStage'[s] = mNextStage[s] /\ mNextStage'[c] = mNextStage[c]
      BY <2>1, <2>2 DEF Pair
    <2>4. NotOvertaken(c, s)
      BY <2>1 DEF OrderInv, InOrder
    <2> QED BY <2>3, <2>4, <1>3 DEF NotOvertaken
  <1>9. SyncedAfterAllBefore'
    BY <1>4, AnswersStayInOrder
  <1> QED BY <1>6, <1>7, <1>8, <1>9 DEF OrderInv

LEMMA DeletesInOrder ==
  ASSUME OrderInv, NEW c \in Cmds, Delete(c) \/ Stage3Stops(c)
  PROVE  OrderInv'
  <1>1. IInv /\ Do(c).cmd = c /\ Free(c).cmd = c
    BY MsgFacts DEF OrderInv
  <1>2. CASE Delete(c)
    <2>1. mNextStage[c] # 1
      BY <1>1, <1>2, TakeFacts, Before DEF Delete, Stages
    <2> QED BY <1>1, <1>2, <2>1, DeleteInv, DeletedInOrder DEF Delete, client, fromFifo
  <1>3. CASE Stage3Stops(c)
    <2>1. /\ mNextStage'[c] = 4 /\ \A e \in Cmds : e # c => mNextStage'[e] = mNextStage[e]
      BY <1>1, <1>3, Before DEF Stage3Stops
    <2>2. /\ TakeToEngine(Do(c)) /\ kind[c] = "plugin" /\ DeleteCmd(c)
          /\ UNCHANGED <<kind, completion, packets, fromEngine, replies>>
      BY <1>3 DEF Stage3Stops, client, fromFifo
    <2>3. IInv' /\ mNextStage'[c] # 1
      BY <1>1, <1>3, <2>1, Stage3StopsInv
    <2> QED BY ONLY OrderInv, c \in Cmds, <1>1, <2>1, <2>2, <2>3, DeletedInOrder
  <1> QED BY <1>2, <1>3

(* A packet that arrives is the last one, and the command in it waits.     *)
LEMMA ReceiveInOrder ==
  ASSUME OrderInv, NEW x \in Cmds, NEW d \in Cmds \cup {None}, NEW k \in Kinds, NEW l \in Kinds,
         Receive(x, d, k, l)
  PROVE  OrderInv'
  <1>1. /\ kind[x] = None
        /\ d = None \/ (d = x + 1 /\ d \in Cmds)
        /\ kind' = [e \in Cmds |-> IF e = x THEN k ELSE IF e = d THEN l ELSE kind[e]]
        /\ completion' = [completion EXCEPT ![x] = d]
        /\ packets' = Append(packets, x)
        /\ UNCHANGED <<mNextStage, fromEngine, toEngine, replies, freed>>
    BY DEF Receive, fromFifo, toFifo, outcome
  <1>2. /\ IInv /\ IInv' /\ Arrivals /\ EndIsAnswered /\ InOrder /\ SyncedAfterAllBefore
        /\ packets \in Seq(Cmds) /\ replies \in Seq(Cmds)
        /\ kind \in [Cmds -> Kinds \cup {None}] /\ completion \in [Cmds -> Cmds \cup {None}]
        /\ None \notin Kinds /\ None \notin Cmds
    BY ReceiveInv, Before, KindAssumption, NoneAssumption DEF OrderInv, TypeOK
  <1>3. /\ completion[x] = None /\ mNextStage[x] = 1
        /\ \A e \in Cmds : e > x => kind[e] = None
    BY <1>1, <1>2, Before DEF Completions
  <1>4. d # None => d \in Cmds /\ d > x /\ kind[d] = None /\ mNextStage[d] = 1
    <2>1. d # None => d \in Cmds /\ d > x
      BY <1>1 DEF Cmds
    <2> QED BY <2>1, <1>2, <1>3, Before DEF Completions
  <1>5. Received' \subseteq Received \cup {x}
    <2> SUFFICES ASSUME NEW e \in Cmds, e # x, kind'[e] # None,
                        \A f \in Cmds : completion'[f] # e
                 PROVE  e \in Received
      BY DEF Received
    <2>1. completion'[x] = d /\ \A f \in Cmds : f # x => completion'[f] = completion[f]
      BY <1>1, <1>2
    <2>2. e # d /\ \A f \in Cmds : completion[f] # e
      BY <2>1, <1>2, <1>3
    <2> QED BY <2>2, <1>1, <1>2 DEF Received
  <1>6. ASSUME NEW c, NEW s, c \in Received', s \in Received', c < s,
               kind'[c] = "done", kind'[s] = "sync"
        PROVE  Pair(c, s) \/ s = x
    <2>1. c \in Cmds /\ s \in Cmds
      BY <1>6 DEF Received
    <2>2. c # d /\ s # d
      <3>1. completion'[x] = d
        BY <1>1, <1>2
      <3> QED BY <1>6, <2>1, <3>1 DEF Received
    <2>3. c # x
      <3>1. c = x => s \in Received /\ s > x
        BY <1>5, <1>6, <2>1 DEF Cmds
      <3> QED BY <3>1, <2>1, <1>3 DEF Received
    <2>4. s # x => Pair(c, s)
      BY <1>1, <1>2, <1>5, <1>6, <2>1, <2>2, <2>3 DEF Pair
    <2> QED BY <2>4
  <1>7. Arrivals'
    <2>1. ASSUME NEW i \in 1 .. Len(packets'), NEW j \in 1 .. Len(packets'), i < j
          PROVE  packets'[i] < packets'[j]
      <3>1. i \in 1 .. Len(packets) /\ packets'[i] = packets[i] /\ packets[i] \in Cmds
        BY <1>1, <1>2, <2>1
      <3>2. j \in 1 .. Len(packets) => packets'[j] = packets[j]
        BY <1>1, <1>2
      <3>3. j \notin 1 .. Len(packets) => packets'[j] = x
        BY <1>1, <1>2
      <3>4. packets[i] < x
        <4>1. kind[packets[i]] # None
          BY <3>1, <1>2, Before DEF Stages, In
        <4> QED BY <3>1, <4>1, <1>1, <1>3 DEF Cmds
      <3> QED BY <3>1, <3>2, <3>3, <3>4, <2>1, <1>2 DEF Arrivals
    <2>2. In(packets') = In(packets) \cup {x}
      BY <1>1, <1>2, AppendNames
    <2> QED BY <2>1, <2>2, <1>1, <1>2, <1>5 DEF Arrivals
  <1>8. EndIsAnswered'
    <2>1. \A e \in Cmds : e \in freed \cup (CmdsIn(toEngine) \ DosIn(toEngine))
                             => e # x /\ e # d
      BY <1>2, <1>3, <1>4, Before DEF Stages
    <2>2. \A e \in Cmds : e # x /\ e # d => kind'[e] = kind[e]
      BY <1>1
    <2> QED BY <1>1, <1>2, <2>1, <2>2 DEF EndIsAnswered
  <1>9. Lost' = Lost
    BY <1>1 DEF Lost
  <1>10. InOrder'
    <2> SUFFICES ASSUME NEW c \in Cmds, NEW s \in Cmds, Pair(c, s)', ~Settled(c)'
                 PROVE  NotOvertaken(c, s)'
      BY DEF InOrder
    <2>1. ~Settled(c)
      BY <1>1, <1>9 DEF Settled
    <2>2. Pair(c, s) \/ s = x
      BY <1>6 DEF Pair
    <2>3. NotOvertaken(c, s)' <=> NotOvertaken(c, s)
      BY <1>1 DEF NotOvertaken
    <2>4. CASE s = x
      <3>1. x \notin CmdsIn(fromEngine) /\ x \notin CmdsIn(toEngine)
        <4>1. Stages
          BY <1>2, Before
        <4> QED BY ONLY <4>1, <1>3 DEF Stages
      <3>2. mNextStage[c] \in 1 .. 5
        BY <1>2, Before
      <3> QED BY <2>3, <2>4, <3>1, <3>2, <1>3, AheadNames DEF NotOvertaken
    <2> QED BY <2>1, <2>2, <2>3, <2>4, <1>2 DEF InOrder
  <1>11. SyncedAfterAllBefore'
    <2> SUFFICES ASSUME NEW i \in 1 .. Len(replies'), kind'[replies'[i]] = "sync",
                        NEW c \in Received', replies'[i] \in Received',
                        c < replies'[i], kind'[c] = "done"
                 PROVE  c \in Lost' \/ AnsweredBefore(c, i)'
      BY DEF SyncedAfterAllBefore
    <2>0. /\ i \in 1 .. Len(replies) /\ replies'[i] = replies[i]
          /\ c \in Lost \/ AnsweredBefore(c, i) => c \in Lost' \/ AnsweredBefore(c, i)'
      BY <1>1, <1>9 DEF AnsweredBefore
    <2>1. replies[i] # x
      BY <2>0, <1>2, <1>3, Before DEF Answered, In
    <2>2. Pair(c, replies[i])
      BY <2>0, <2>1, <1>6
    <2> QED BY <2>0, <2>2, <1>2 DEF SyncedAfterAllBefore, Pair
  <1> QED BY <1>2, <1>7, <1>8, <1>10, <1>11 DEF OrderInv

LEMMA TurnsInOrder ==
  ASSUME OrderInv, \/ UNCHANGED vars
                   \/ Callback \/ ToEngineEmpty \/ CallbackEnd \/ FromEngineEmpty \/ WaitNext
  PROVE  OrderInv'
  <1>1. UNCHANGED <<kind, completion, packets, mNextStage, fromEngine, toEngine, replies, freed>>
    BY DEF Callback, ToEngineEmpty, CallbackEnd, FromEngineEmpty, WaitNext, client, fromFifo,
           toFifo, outcome, vars
  <1>2. IInv'
    BY StepInv, TurnsInv DEF OrderInv, Next
  <1>3. Received' = Received /\ Lost' = Lost
    BY <1>1 DEF Received, Lost
  <1>4. Arrivals' /\ EndIsAnswered'
    BY <1>1, <1>3 DEF OrderInv, Arrivals, EndIsAnswered
  <1>5. InOrder'
    BY <1>1, <1>3 DEF OrderInv, InOrder, Pair, Settled, NotOvertaken
  <1>6. SyncedAfterAllBefore'
    BY <1>1, <1>3 DEF OrderInv, SyncedAfterAllBefore, AnsweredBefore
  <1> QED BY <1>2, <1>4, <1>5, <1>6 DEF OrderInv

LEMMA InitInOrder == Init => OrderInv
  <1> SUFFICES ASSUME Init PROVE OrderInv
    OBVIOUS
  <1>1. /\ Len(packets) = 0 /\ Len(toEngine) = 0 /\ Len(replies) = 0 /\ freed = {}
        /\ kind = [c \in Cmds |-> None] /\ None \notin Cmds
    BY NoneAssumption DEF Init
  <1>2. Received = {} /\ CmdsIn(toEngine) = {}
    BY <1>1 DEF Received, CmdsIn
  <1>3. Arrivals /\ EndIsAnswered
    BY <1>1, <1>2 DEF Arrivals, EndIsAnswered
  <1>4. InOrder
    BY <1>2 DEF InOrder, Pair
  <1>5. SyncedAfterAllBefore
    BY <1>1 DEF SyncedAfterAllBefore
  <1> QED BY <1>3, <1>4, <1>5, InitInv DEF OrderInv

LEMMA StepInOrder == OrderInv /\ [Next]_vars => OrderInv'
  <1> SUFFICES ASSUME OrderInv, [Next]_vars PROVE OrderInv'
    OBVIOUS
  <1>1. CASE Client
    BY <1>1, ReceiveInOrder DEF Client
  <1>2. CASE AudioThread
    BY <1>2, TurnsInOrder, StartInOrder, Stage3InOrder, DeletesInOrder DEF AudioThread
  <1>3. CASE NRTThread
    BY <1>3, TurnsInOrder, NRTInOrder DEF NRTThread
  <1> QED BY <1>1, <1>2, <1>3, TurnsInOrder DEF Next

(* /synced is an answer for all before it: a command of the server that    *)
(* arrived before the /sync was answered before the /synced, unless a full *)
(* fifo had lost it (SyncCmd::Stage2 to Stage4 and what they wait for).    *)
THEOREM SyncedComesLast == Spec => []SyncedAfterAllBefore
  <1>1. OrderInv => SyncedAfterAllBefore
    BY DEF OrderInv
  <1> QED BY <1>1, InitInOrder, StepInOrder, PTL DEF Spec

-----------------------------------------------------------------------------
(* From here on, BufferCommands.                                           *)

(* d is performed before c, or is c.                                       *)
NoLater(q, d, c) ==
    \E i, j \in 1 .. Len(q) : i <= j /\ q[i] = Do(d) /\ q[j] = Do(c)

(* The commands on their way to stage 4, and those to stage 3 or 4.        *)
Late == {c \in CmdsIn(fromEngine) : mNextStage[c] = 4}
UnderWay == DosIn(toEngine) \cup Late

(* Nobody is to free the mirror's data; the next stage 2 may.              *)
MirrorData ==
    \A b \in Bufs : nrtBuf[b].data # None =>
        /\ nrtBuf[b].data \in heap /\ bufOf[nrtBuf[b].data] = b
        /\ \A d \in UnderWay : mFreeData[d] # nrtBuf[b].data

(* The audio thread's data is freed by no command that is past stage 3.    *)
RtData ==
    \A b \in Bufs : rtBuf[b].data # None =>
        /\ rtBuf[b].data \in heap /\ bufOf[rtBuf[b].data] = b
        /\ \A d \in Late : mFreeData[d] # rtBuf[b].data

(* What stage 3 of c installs is freed by a command that comes after c.    *)
NextData ==
    \A c \in DosIn(toEngine) :
        /\ bufOf[c] \in Bufs
        /\ mSndBuf[c].data # None =>
              /\ mSndBuf[c].data \in heap /\ bufOf[mSndBuf[c].data] = bufOf[c]
              /\ \A d \in Late : mFreeData[d] # mSndBuf[c].data
              /\ \A d \in Cmds : NoLater(toEngine, d, c) => mFreeData[d] # mSndBuf[c].data

(* What a command under way is to free is its alone, and its stage 3 takes *)
(* it from the audio thread.                                               *)
OldData ==
    \A c \in UnderWay : mFreeData[c] # None =>
        /\ mFreeData[c] \in heap /\ bufOf[mFreeData[c]] = bufOf[c]
        /\ op[c] \in Replacing
        /\ \A d \in UnderWay : mFreeData[d] = mFreeData[c] => d = c

(* A command before its stage 2 has left no trace.                         *)
Fresh ==
    \A c \in Cmds : mNextStage[c] <= 2 =>
        c \notin heap /\ c \notin openFiles /\ mSndBuf[c] = NoBuf /\ mFreeData[c] = None

(* A file that the mirror names is open, and a file belongs to one buffer. *)
Files ==
    /\ FilesAccountedFor
    /\ \A b \in Bufs : nrtBuf[b].sndfile # None => bufOf[nrtBuf[b].sndfile] = b

BufInv ==
    /\ IInv /\ BufTypeOK
    /\ MirrorData /\ RtData /\ NextData /\ OldData /\ Fresh /\ Files

-----------------------------------------------------------------------------
(* The order of the messages stays when the first one is taken, and a new  *)
(* one comes last.                                                         *)
LEMMA TailOrder ==
  ASSUME NEW q \in Seq(FifoMsgs), q # <<>>
  PROVE  /\ \A d, e \in Cmds : NoLater(Tail(q), d, e) => NoLater(q, d, e)
         /\ \A d \in Cmds : Head(q) = Do(d) => \A e \in DosIn(q) : NoLater(q, d, e)
  <1>1. 1 \in 1 .. Len(q) /\ q[1] = Head(q) /\ \A i \in 1 .. Len(q) : 1 <= i
    OBVIOUS
  <1> DEFINE t == Tail(q)
  <1>2. \A i \in 1 .. Len(t) : i \in Nat /\ i + 1 \in 1 .. Len(q) /\ t[i] = q[i + 1]
    OBVIOUS
  <1> HIDE DEF t
  <1>3. ASSUME NEW d \in Cmds, NEW e \in Cmds, NoLater(t, d, e)
        PROVE  NoLater(q, d, e)
    <2>1. PICK i \in 1 .. Len(t), j \in 1 .. Len(t) : i <= j /\ t[i] = Do(d) /\ t[j] = Do(e)
      BY <1>3 DEF NoLater
    <2>2. /\ i + 1 \in 1 .. Len(q) /\ j + 1 \in 1 .. Len(q) /\ i + 1 <= j + 1
          /\ q[i + 1] = Do(d) /\ q[j + 1] = Do(e)
      BY <2>1, <1>2
    <2> QED BY <2>2 DEF NoLater
  <1>4. ASSUME NEW d \in Cmds, Head(q) = Do(d), NEW e \in DosIn(q)
        PROVE  NoLater(q, d, e)
    <2>1. PICK j \in 1 .. Len(q) : q[j] = Do(e)
      BY DEF DosIn
    <2> QED BY <2>1, <1>1, <1>4 DEF NoLater
  <1> QED BY <1>3, <1>4 DEF t

Ordered(q, m, r) ==
    \A d, e \in Cmds : NoLater(r, d, e) =>
        \/ NoLater(q, d, e)
        \/ m = Do(e) /\ (d \in DosIn(q) \/ m = Do(d))

LEMMA WriteOrder ==
  ASSUME NEW q \in Seq(FifoMsgs), NEW spent \in Nat, Len(q) + spent <= Capacity,
         NEW m \in FifoMsgs, NEW r, r = Write(q, spent, <<m>>)
  PROVE  Ordered(q, m, r)
  <1> SUFFICES ASSUME NEW d \in Cmds, NEW e \in Cmds, NoLater(r, d, e)
               PROVE  \/ NoLater(q, d, e)
                      \/ m = Do(e) /\ (d \in DosIn(q) \/ m = Do(d))
    BY DEF Ordered
  <1>1. WrittenOne(q, spent, m, r)
    BY WriteOne
  <1>2. Len(q) \in Nat /\ \A i \in 1 .. Len(r) :
           \/ i \in 1 .. Len(q) /\ r[i] = q[i]
           \/ i = Len(q) + 1 /\ r[i] = m
    BY SMTT(40), <1>1 DEF WrittenOne
  <1>3. PICK i \in 1 .. Len(r), j \in 1 .. Len(r) : i <= j /\ r[i] = Do(d) /\ r[j] = Do(e)
    BY DEF NoLater
  <1>4. CASE j \in 1 .. Len(q) /\ r[j] = q[j]
    <2>1. i # Len(q) + 1
      BY <1>2, <1>3, <1>4
    <2>2. i \in 1 .. Len(q) /\ r[i] = q[i]
      BY <1>2, <2>1
    <2> QED BY <1>3, <1>4, <2>2 DEF NoLater
  <1>5. CASE r[j] = m
    <2>1. CASE i \in 1 .. Len(q) /\ r[i] = q[i]
      BY <2>1, <1>3, <1>5 DEF DosIn
    <2>2. CASE r[i] = m
      BY <2>2, <1>3, <1>5
    <2> QED BY <2>1, <2>2, <1>2
  <1> QED BY <1>2, <1>4, <1>5

-----------------------------------------------------------------------------
(* What a step may use: the types as functions, and who is under way.      *)
LEMMA BufBefore ==
  ASSUME BufInv
  PROVE  /\ IInv /\ MirrorData /\ RtData /\ NextData /\ OldData /\ Fresh /\ Files
         /\ op \in [Cmds -> Ops \cup {None}] /\ bufOf \in [Cmds -> Bufs \cup {None}]
         /\ nrtBuf \in [Bufs -> SndBufs] /\ rtBuf \in [Bufs -> SndBufs]
         /\ heap \subseteq Cmds /\ openFiles \subseteq Cmds /\ staleCopies \subseteq Cmds
         /\ mSndBuf \in [Cmds -> SndBufs] /\ mFreeData \in [Cmds -> Cmds \cup {None}]
         /\ UnderWay \subseteq Cmds /\ Late \subseteq UnderWay /\ DosIn(toEngine) \subseteq UnderWay
         /\ Late \subseteq Cmds /\ DosIn(toEngine) \subseteq Cmds
         /\ \A c \in UnderWay : mNextStage[c] \in {3, 4}
         /\ mNextStage \in [Cmds -> 1 .. 5]
  <1>1. /\ IInv /\ BufTypeOK /\ MirrorData /\ RtData /\ NextData /\ OldData /\ Fresh /\ Files
    BY DEF BufInv
  <1>2. /\ CmdsIn(fromEngine) \subseteq Cmds /\ CmdsIn(toEngine) \subseteq Cmds
        /\ DosIn(toEngine) \subseteq CmdsIn(toEngine) /\ mNextStage \in [Cmds -> 1 .. 5]
        /\ \A c \in DosIn(toEngine) : mNextStage[c] = 3
    BY <1>1, Before DEF Stages
  <1> QED BY <1>1, <1>2 DEF BufTypeOK, UnderWay, Late

(* A step that brings no command to stage 3 or 4 and leaves the buffers    *)
(* alone leaves fewer commands under way, in the same order.               *)
Shrinks ==
    /\ DosIn(toEngine') \subseteq DosIn(toEngine) /\ Late' \subseteq Late
    /\ \A d, e \in Cmds : NoLater(toEngine', d, e) => NoLater(toEngine, d, e)
    /\ \A c \in Cmds : mNextStage'[c] <= 2 => mNextStage[c] <= 2

LEMMA ShrinkInv ==
  ASSUME BufInv, IInv', Shrinks, UNCHANGED bufVars
  PROVE  BufInv'
  <1>1. UNCHANGED <<op, bufOf, nrtBuf, rtBuf, heap, openFiles, mSndBuf, mFreeData, staleCopies>>
    BY DEF bufVars
  <1>2. UnderWay' \subseteq UnderWay
    BY DEF Shrinks, UnderWay
  <1>3. BufTypeOK'
    BY <1>1 DEF BufInv, BufTypeOK, IInv
  <1>4. MirrorData' /\ RtData'
    BY <1>1, <1>2, BufBefore DEF MirrorData, RtData, Shrinks
  <1>5. NextData'
    BY <1>1, BufBefore DEF NextData, Shrinks
  <1>6. OldData'
    BY <1>1, <1>2, BufBefore DEF OldData
  <1>7. Fresh'
    BY <1>1, BufBefore DEF Fresh, Shrinks
  <1>8. Files'
    BY <1>1, BufBefore DEF Files, FilesAccountedFor
  <1> QED BY <1>3, <1>4, <1>5, <1>6, <1>7, <1>8 DEF BufInv

LEMMA TakeOrder ==
  ASSUME IInv, NEW m, TakeToEngine(m)
  PROVE  /\ \A d, e \in Cmds : NoLater(toEngine', d, e) => NoLater(toEngine, d, e)
         /\ \A d \in Cmds : m = Do(d) => \A e \in DosIn(toEngine) : NoLater(toEngine, d, e)
  BY Before, TailOrder DEF TakeToEngine

LEMMA PerformOrder ==
  ASSUME IInv, NEW c \in Cmds, NEW n \in {2, 4}, NEW m \in FifoMsgs, PerformStage(c, n, m)
  PROVE  Ordered(toEngine, m, toEngine')
  <1>1. /\ toEngine \in Seq(FifoMsgs) /\ 0 \in Nat /\ Len(toEngine) + 0 <= Capacity
        /\ toEngine' = Write(toEngine, 0, <<m>>)
    BY Before, CapacityAssumption DEF PerformStage
  <1> QED BY ONLY <1>1, m \in FifoMsgs, WriteOrder

LEMMA OtherShrinks == ASSUME BufInv, BufOther PROVE Shrinks
  <1>0. IInv /\ mNextStage \in [Cmds -> 1 .. 5]
    BY BufBefore
  <1>1. CASE Client \/ Callback \/ ToEngineEmpty \/ CallbackEnd \/ FromEngineEmpty \/ WaitNext
    <2>1. UNCHANGED <<fromEngine, toEngine, mNextStage>>
      BY <1>1 DEF Client, Receive, Callback, ToEngineEmpty, CallbackEnd, FromEngineEmpty,
                  WaitNext, fromFifo, toFifo
    <2> QED BY <2>1 DEF Shrinks, Late
  <1>2. CASE Start
    <2> SUFFICES ASSUME NEW c, c = Head(packets) PROVE Shrinks
      OBVIOUS
    <2>1. /\ c \in Cmds /\ mNextStage[c] = 1 /\ UNCHANGED toEngine
          /\ CmdsIn(fromEngine') \subseteq CmdsIn(fromEngine) \cup {c}
          /\ mNextStage'[c] = 2 /\ \A e \in Cmds : e # c => mNextStage'[e] = mNextStage[e]
      BY <1>0, <1>2, StartFacts DEF Start, toFifo
    <2>2. CmdsIn(fromEngine) \subseteq Cmds
      BY <1>0, Before
    <2> QED BY <2>1, <2>2 DEF Shrinks, Late
  <1>3. CASE \E c \in Cmds : Delete(c)
    <2>1. PICK c \in Cmds : Delete(c)
      BY <1>3
    <2>2. TakeToEngine(Free(c)) /\ UNCHANGED <<fromEngine, mNextStage>>
      BY <2>1 DEF Delete, fromFifo
    <2> QED BY <1>0, <2>2, TakeFacts, TakeOrder DEF Shrinks, Late
  <1> QED BY <1>1, <1>2, <1>3 DEF BufOther

LEMMA Stage2StopsShrinks == ASSUME BufInv, NEW c \in Cmds, Stage2Stops(c) PROVE Shrinks
  <1>1. /\ IInv /\ PerformStage(c, 2, Free(c)) /\ Free(c) \in FifoMsgs /\ Free(c).cmd = c
        /\ \A e \in Cmds : Free(c) # Do(e)
    BY BufBefore, MsgFacts DEF Stage2Stops
  <1>2. /\ CmdsIn(fromEngine') \subseteq CmdsIn(fromEngine) \ {c}
        /\ \A e \in DosIn(toEngine') : e \in DosIn(toEngine) \/ Free(c) = Do(e)
        /\ mNextStage'[c] = 2 + 1 /\ \A e \in Cmds : e # c => mNextStage'[e] = mNextStage[e]
    BY <1>1, PerformFacts
  <1>3. Ordered(toEngine, Free(c), toEngine')
    BY <1>1, PerformOrder
  <1>4. DosIn(toEngine') \subseteq Cmds /\ CmdsIn(fromEngine) \subseteq Cmds
    BY <1>1, Before DEF DosIn
  <1> QED BY <1>1, <1>2, <1>3, <1>4 DEF Shrinks, Late, Ordered

-----------------------------------------------------------------------------
(* Stage 4 frees data that nobody else uses.                               *)
LEMMA Stage4Inv == ASSUME BufInv, IInv', NEW c \in Cmds, BufStage4(c) PROVE BufInv'
  <1>1. /\ IInv /\ PerformStage(c, 4, Free(c)) /\ Free(c) \in FifoMsgs /\ Free(c).cmd = c
        /\ \A e \in Cmds : Free(c) # Do(e)
        /\ heap' = heap \ {mFreeData[c]}
        /\ UNCHANGED <<op, bufOf, nrtBuf, rtBuf, openFiles, mSndBuf, mFreeData, staleCopies>>
    BY BufBefore, MsgFacts DEF BufStage4, Stage4
  <1>2. /\ CmdsIn(fromEngine') \subseteq CmdsIn(fromEngine) \ {c} /\ c \in CmdsIn(fromEngine)
        /\ \A e \in DosIn(toEngine') : e \in DosIn(toEngine) \/ Free(c) = Do(e)
        /\ mNextStage'[c] = 4 + 1 /\ \A e \in Cmds : e # c => mNextStage'[e] = mNextStage[e]
        /\ c \notin CmdsIn(toEngine)
    BY <1>1, PerformFacts
  <1>3. mNextStage[c] = 4
    BY <1>1 DEF PerformStage
  <1>4. /\ DosIn(toEngine') \subseteq DosIn(toEngine) /\ c \notin DosIn(toEngine)
        /\ Late' \subseteq Late \ {c} /\ c \in Late
        /\ UnderWay' \subseteq UnderWay \ {c} /\ c \in UnderWay
    <2>1. DosIn(toEngine') \subseteq DosIn(toEngine)
      BY <1>1, <1>2 DEF DosIn
    <2>2. c \notin DosIn(toEngine)
      BY <1>1, <1>2, Before
    <2>3. Late' \subseteq Late \ {c} /\ c \in Late
      BY <1>1, <1>2, <1>3, Before DEF Late
    <2> QED BY <2>1, <2>2, <2>3 DEF UnderWay
  <1>5. \A d, e \in Cmds : NoLater(toEngine', d, e) => NoLater(toEngine, d, e)
    BY <1>1, PerformOrder DEF Ordered
  <1>6. BufTypeOK'
    BY <1>1 DEF BufInv, BufTypeOK, IInv
  <1>7. MirrorData'
    BY <1>1, <1>4, BufBefore DEF MirrorData
  <1>8. RtData'
    BY <1>1, <1>4, BufBefore DEF RtData
  <1>9. NextData'
    BY <1>1, <1>4, <1>5, BufBefore DEF NextData
  <1>10. OldData'
    BY <1>1, <1>4, BufBefore DEF OldData
  <1>11. Fresh'
    BY <1>1, <1>2, BufBefore DEF Fresh
  <1>12. Files'
    BY <1>1, BufBefore DEF Files, FilesAccountedFor
  <1> QED BY <1>6, <1>7, <1>8, <1>9, <1>10, <1>11, <1>12 DEF BufInv

(* Stage 3 takes from the audio thread what stage 4 is to free, and gives  *)
(* it data that no command before this one frees.                          *)
LEMMA Stage3KeepsData ==
  ASSUME BufInv, IInv', NEW c \in Cmds, BufStage3(c) PROVE BufInv'
  <1> SUFFICES ASSUME NEW d, d = completion[c] PROVE BufInv'
    OBVIOUS
  <1>1. /\ IInv /\ Stage3(c) /\ TakeToEngine(Do(c))
        /\ rtBuf' = [rtBuf EXCEPT ![bufOf[c]] = Installed(c, @)]
        /\ UNCHANGED <<op, bufOf, nrtBuf, heap, openFiles, mSndBuf, mFreeData, staleCopies>>
    BY BufBefore DEF BufStage3, Stage3
  <1>2. /\ DosIn(toEngine') \subseteq DosIn(toEngine) \ {c} /\ c \in DosIn(toEngine)
        /\ mNextStage[c] = 3 /\ c \notin CmdsIn(fromEngine)
        /\ d # None => d \in Cmds /\ d # c /\ mNextStage[d] = 1
        /\ d # None => d \notin CmdsIn(fromEngine)
        /\ CmdsIn(fromEngine') \subseteq CmdsIn(fromEngine) \cup {c, d}
        /\ d = None => CmdsIn(fromEngine') \subseteq CmdsIn(fromEngine) \cup {c}
        /\ mNextStage'[c] = 4 /\ (d # None => mNextStage'[d] = 2)
        /\ \A e \in Cmds : e # c /\ e # d => mNextStage'[e] = mNextStage[e]
    BY <1>1, Stage3Facts
  <1>3. Late' \subseteq Late \cup {c}
    <2> SUFFICES ASSUME NEW e \in CmdsIn(fromEngine'), mNextStage'[e] = 4, e # c
                 PROVE  e \in CmdsIn(fromEngine) /\ mNextStage[e] = 4
      BY DEF Late
    <2>0. CmdsIn(fromEngine) \subseteq Cmds
      BY <1>1, Before
    <2>1. e # d
      <3>1. CASE d = None
        BY <3>1, <2>0, <1>2, NoneAssumption
      <3>2. CASE d # None
        BY <3>2, <1>2
      <3> QED BY <3>1, <3>2
    <2>2. e \in CmdsIn(fromEngine) /\ e \in Cmds
      BY <1>1, <1>2, <2>1, Before
    <2> QED BY <1>2, <2>1, <2>2
  <1>4. /\ UnderWay' \subseteq UnderWay /\ c \in UnderWay
    BY <1>2, <1>3 DEF UnderWay
  <1>5. /\ \A e, f \in Cmds : NoLater(toEngine', e, f) => NoLater(toEngine, e, f)
        /\ \A f \in DosIn(toEngine) : NoLater(toEngine, c, f)
    <2>1. /\ \A e, f \in Cmds : NoLater(toEngine', e, f) => NoLater(toEngine, e, f)
          /\ \A e \in Cmds : Do(c) = Do(e) => \A f \in DosIn(toEngine) : NoLater(toEngine, e, f)
      BY <1>1, TakeOrder
    <2> QED BY <2>1
  <1>6. /\ bufOf[c] \in Bufs
        /\ mSndBuf[c].data # None =>
              /\ mSndBuf[c].data \in heap /\ bufOf[mSndBuf[c].data] = bufOf[c]
              /\ \A e \in Late : mFreeData[e] # mSndBuf[c].data
              /\ mFreeData[c] # mSndBuf[c].data
    BY <1>2, <1>5, BufBefore DEF NextData
  <1>7. /\ rtBuf' \in [Bufs -> SndBufs]
        /\ \A b \in Bufs : b # bufOf[c] => rtBuf'[b] = rtBuf[b]
        /\ rtBuf'[bufOf[c]].data \in {rtBuf[bufOf[c]].data, mSndBuf[c].data, None}
        /\ op[c] \in Replacing => rtBuf'[bufOf[c]].data \in {mSndBuf[c].data, None}
    <2>1. /\ Installed(c, rtBuf[bufOf[c]]) \in SndBufs
          /\ Installed(c, rtBuf[bufOf[c]]).data \in {rtBuf[bufOf[c]].data, mSndBuf[c].data, None}
          /\ op[c] \in Replacing => Installed(c, rtBuf[bufOf[c]]).data \in {mSndBuf[c].data, None}
      <3>1. rtBuf[bufOf[c]] \in SndBufs /\ mSndBuf[c] \in SndBufs
        BY <1>6, BufBefore
      <3>2. CASE op[c] = "free"
        BY <3>1, <3>2 DEF Installed, Cleared, SndBufs
      <3>3. CASE op[c] = "read"
        BY <3>1, <3>3 DEF Installed, SndBufs, Replacing
      <3>4. CASE op[c] \in Replacing \ {"free"}
        BY <3>1, <3>4 DEF Installed, Replacing
      <3>5. CASE op[c] # "free" /\ op[c] # "read" /\ op[c] \notin Replacing
        BY <3>1, <3>5 DEF Installed, Replacing
      <3> QED BY <3>2, <3>3, <3>4, <3>5
    <2> QED BY <2>1, <1>1, <1>6, BufBefore
  <1>8. BufTypeOK'
    BY <1>1, <1>7 DEF BufInv, BufTypeOK, IInv
  <1>9. MirrorData'
    BY <1>1, <1>4, BufBefore DEF MirrorData
  <1>10. RtData'
    <2> SUFFICES ASSUME NEW b \in Bufs, NEW x, x = rtBuf'[b].data, x # None
                 PROVE  x \in heap /\ bufOf[x] = b /\ \A e \in Late' : mFreeData[e] # x
      BY <1>1 DEF RtData
    <2>1. CASE x = rtBuf[b].data /\ mFreeData[c] # x
      BY <2>1, <1>3, BufBefore DEF RtData
    <2>2. CASE b = bufOf[c] /\ x = mSndBuf[c].data
      BY <2>2, <1>3, <1>6
    <2>3. CASE x = rtBuf[b].data /\ mFreeData[c] = x
      <3>1. bufOf[x] = b
        BY <2>3, BufBefore DEF RtData
      <3>2. bufOf[x] = bufOf[c] /\ op[c] \in Replacing
        BY <2>3, <1>4, BufBefore DEF OldData
      <3>3. x = mSndBuf[c].data
        BY <3>1, <3>2, <1>7
      <3> QED BY <3>3, <2>3, <1>6
    <2> QED BY <2>1, <2>2, <2>3, <1>7
  <1>11. NextData'
    <2> SUFFICES ASSUME NEW e \in DosIn(toEngine')
                 PROVE  /\ bufOf[e] \in Bufs
                        /\ mSndBuf[e].data # None =>
                              /\ mSndBuf[e].data \in heap /\ bufOf[mSndBuf[e].data] = bufOf[e]
                              /\ \A f \in Late' : mFreeData[f] # mSndBuf[e].data
                              /\ \A f \in Cmds : NoLater(toEngine', f, e) =>
                                                    mFreeData[f] # mSndBuf[e].data
      BY <1>1 DEF NextData
    <2>1. e \in DosIn(toEngine) /\ e \in Cmds /\ NoLater(toEngine, c, e)
      BY <1>2, <1>5, BufBefore
    <2> QED BY <2>1, <1>3, <1>5, BufBefore DEF NextData
  <1>12. OldData'
    BY <1>1, <1>4, BufBefore DEF OldData
  <1>13. Fresh'
    <2>1. ASSUME NEW e \in Cmds, mNextStage'[e] <= 2 PROVE mNextStage[e] <= 2
      <3>1. e # c
        BY <1>2, <2>1
      <3>2. e = d => d # None
        BY NoneAssumption
      <3> QED BY <1>2, <2>1, <3>1, <3>2
    <2> QED BY <2>1, <1>1, BufBefore DEF Fresh
  <1>14. Files'
    BY <1>1, BufBefore DEF Files, FilesAccountedFor
  <1> QED BY <1>8, <1>9, <1>10, <1>11, <1>12, <1>13, <1>14 DEF BufInv

-----------------------------------------------------------------------------
(* What stage 2 of c makes of the mirror of buffer b: its data is kept, is *)
(* taken to be freed, or is replaced by new data.                          *)
DataEffect(c, b) ==
    \/ /\ nrtBuf'[b].data = nrtBuf[b].data /\ heap' = heap /\ mFreeData'[c] = None
    \/ /\ nrtBuf'[b].data = None /\ heap' = heap
       /\ mFreeData'[c] = nrtBuf[b].data
    \/ /\ nrtBuf'[b].data = c /\ heap' = heap \cup {c}
       /\ mFreeData'[c] = nrtBuf[b].data

FileEffect(c, b) ==
    \/ nrtBuf'[b].sndfile = nrtBuf[b].sndfile /\ openFiles' = openFiles
    \/ /\ nrtBuf'[b].sndfile \in {c, None}
       /\ openFiles' = (openFiles \ {nrtBuf[b].sndfile})
                       \cup ({nrtBuf'[b].sndfile} \ {None})

Effect(o, c, b) ==
    /\ nrtBuf' \in [Bufs -> SndBufs] /\ \A e \in Bufs : e # b => nrtBuf'[e] = nrtBuf[e]
    /\ mSndBuf' \in [Cmds -> SndBufs] /\ \A e \in Cmds : e # c => mSndBuf'[e] = mSndBuf[e]
    /\ mSndBuf'[c].data \in {nrtBuf'[b].data, None}
    /\ mFreeData' \in [Cmds -> Cmds \cup {None}]
    /\ \A e \in Cmds : e # c => mFreeData'[e] = mFreeData[e]
    /\ mFreeData'[c] # None => o \in Replacing
    /\ DataEffect(c, b) /\ FileEffect(c, b)
    /\ staleCopies' \subseteq Cmds

LEMMA SavesFacts ==
  ASSUME BufInv, NEW c \in Cmds, NEW b \in Bufs, NEW free \in Cmds \cup {None},
         Saves(c, b, free), nrtBuf' \in [Bufs -> SndBufs]
  PROVE  /\ mSndBuf' \in [Cmds -> SndBufs] /\ \A e \in Cmds : e # c => mSndBuf'[e] = mSndBuf[e]
         /\ mSndBuf'[c] = nrtBuf'[b]
         /\ mFreeData' \in [Cmds -> Cmds \cup {None}]
         /\ \A e \in Cmds : e # c => mFreeData'[e] = mFreeData[e]
         /\ mFreeData'[c] = free
  BY BufBefore DEF Saves

LEMMA Types ==
  ASSUME BufInv, NEW b \in Bufs
  PROVE  /\ nrtBuf[b] \in SndBufs /\ nrtBuf[b].data \in Cmds \cup {None}
         /\ nrtBuf[b].sndfile \in Cmds \cup {None}
  BY BufBefore DEF SndBufs

LEMMA StaysFacts ==
  ASSUME BufInv, NEW c \in Cmds, NEW b \in Bufs, Stays
  PROVE  /\ nrtBuf' \in [Bufs -> SndBufs] /\ \A e \in Bufs : e # b => nrtBuf'[e] = nrtBuf[e]
         /\ nrtBuf'[b].data = nrtBuf[b].data /\ heap' = heap
         /\ FileEffect(c, b)
  BY BufBefore DEF Stays, FileEffect

LEMMA AllocatesFacts ==
  ASSUME BufInv, ~EmptyReallocs, NEW c \in Cmds, NEW b \in Bufs,
         NEW rate \in {"server", "file"}, Allocates(c, b, rate), Saves(c, b, nrtBuf[b].data)
  PROVE  /\ nrtBuf' \in [Bufs -> SndBufs] /\ \A e \in Bufs : e # b => nrtBuf'[e] = nrtBuf[e]
         /\ DataEffect(c, b) /\ FileEffect(c, b)
  <1>1. CASE /\ nrtBuf' = [nrtBuf EXCEPT ![b] = [@ EXCEPT !.data = c, !.room = TRUE, !.rate = rate]]
             /\ heap' = heap \cup {c} /\ UNCHANGED openFiles
    <2>1. nrtBuf' = [nrtBuf EXCEPT ![b] = [@ EXCEPT !.data = c, !.room = TRUE, !.rate = rate]]
      BY <1>1
    <2>2. /\ [nrtBuf[b] EXCEPT !.data = c, !.room = TRUE, !.rate = rate] \in SndBufs
          /\ [nrtBuf[b] EXCEPT !.data = c, !.room = TRUE, !.rate = rate].data = c
          /\ [nrtBuf[b] EXCEPT !.data = c, !.room = TRUE, !.rate = rate].sndfile = nrtBuf[b].sndfile
      BY Types DEF SndBufs
    <2>3. /\ nrtBuf' \in [Bufs -> SndBufs] /\ \A e \in Bufs : e # b => nrtBuf'[e] = nrtBuf[e]
          /\ nrtBuf'[b].data = c /\ nrtBuf'[b].sndfile = nrtBuf[b].sndfile
      BY <2>1, <2>2, BufBefore
    <2>4. mFreeData'[c] = nrtBuf[b].data
      BY <2>3, Types, SavesFacts
    <2> QED BY <1>1, <2>3, <2>4 DEF DataEffect, FileEffect
  <1>2. CASE Stays /\ (nrtBuf[b].data = None \/ EmptyReallocs)
    <2>1. nrtBuf[b].data = None
      BY <1>2
    <2>2. /\ nrtBuf' \in [Bufs -> SndBufs] /\ \A e \in Bufs : e # b => nrtBuf'[e] = nrtBuf[e]
          /\ nrtBuf'[b].data = nrtBuf[b].data /\ heap' = heap /\ FileEffect(c, b)
      BY <1>2, StaysFacts
    <2>3. mFreeData'[c] = nrtBuf[b].data
      BY <2>2, Types, SavesFacts
    <2> QED BY <2>1, <2>2, <2>3 DEF DataEffect
  <1>3. CASE /\ nrtBuf' = [nrtBuf EXCEPT ![b] = [@ EXCEPT !.data = None]]
             /\ UNCHANGED <<heap, openFiles>>
    <2>1. /\ [nrtBuf[b] EXCEPT !.data = None] \in SndBufs
          /\ [nrtBuf[b] EXCEPT !.data = None].data = None
          /\ [nrtBuf[b] EXCEPT !.data = None].sndfile = nrtBuf[b].sndfile
      BY Types DEF SndBufs
    <2>2. /\ nrtBuf' \in [Bufs -> SndBufs] /\ \A e \in Bufs : e # b => nrtBuf'[e] = nrtBuf[e]
          /\ nrtBuf'[b].data = None /\ nrtBuf'[b].sndfile = nrtBuf[b].sndfile
      BY <1>3, <2>1, BufBefore
    <2>3. mFreeData'[c] = nrtBuf[b].data
      BY <2>2, Types, SavesFacts
    <2> QED BY <1>3, <2>2, <2>3 DEF DataEffect, FileEffect
  <1> QED BY <1>1, <1>2, <1>3 DEF Allocates

(* The mirror without data, without a file, or with another file.          *)
LEMMA MirrorFacts ==
  ASSUME BufInv, NEW b \in Bufs, NEW file \in Cmds \cup {None}
  PROVE  /\ [nrtBuf EXCEPT ![b].sndfile = file] \in [Bufs -> SndBufs]
         /\ \A e \in Bufs : e # b => [nrtBuf EXCEPT ![b].sndfile = file][e] = nrtBuf[e]
         /\ [nrtBuf EXCEPT ![b].sndfile = file][b].sndfile = file
         /\ [nrtBuf EXCEPT ![b].sndfile = file][b].data = nrtBuf[b].data
         /\ [nrtBuf EXCEPT ![b].sndfile = file][b].room = nrtBuf[b].room
         /\ [nrtBuf EXCEPT ![b] = Cleared(@)] \in [Bufs -> SndBufs]
         /\ \A e \in Bufs : e # b => [nrtBuf EXCEPT ![b] = Cleared(@)][e] = nrtBuf[e]
         /\ [nrtBuf EXCEPT ![b] = Cleared(@)][b].sndfile = None
         /\ [nrtBuf EXCEPT ![b] = Cleared(@)][b].data = None
         /\ [nrtBuf EXCEPT ![b] = Cleared(@)][b].room = FALSE
  <1>1. /\ [nrtBuf[b] EXCEPT !.sndfile = file] \in SndBufs
        /\ [nrtBuf[b] EXCEPT !.sndfile = file].sndfile = file
        /\ [nrtBuf[b] EXCEPT !.sndfile = file].data = nrtBuf[b].data
        /\ [nrtBuf[b] EXCEPT !.sndfile = file].room = nrtBuf[b].room
    BY Types DEF SndBufs
  <1>2. /\ Cleared(nrtBuf[b]) \in SndBufs
        /\ Cleared(nrtBuf[b]).sndfile = None /\ Cleared(nrtBuf[b]).data = None
        /\ Cleared(nrtBuf[b]).room = FALSE
    BY Types DEF SndBufs, Cleared
  <1>3. [nrtBuf EXCEPT ![b].sndfile = file] = [nrtBuf EXCEPT ![b] = [@ EXCEPT !.sndfile = file]]
    BY BufBefore
  <1> QED BY <1>1, <1>2, <1>3, BufBefore

LEMMA OperationFacts ==
  ASSUME BufInv, ~EmptyReallocs, NEW c \in Cmds, NEW b \in Bufs, NEW o, Operation(o, c, b),
         mSndBuf[c] = NoBuf, mFreeData[c] = None
  PROVE  Effect(o, c, b)
  <1>1. /\ mSndBuf \in [Cmds -> SndBufs] /\ mFreeData \in [Cmds -> Cmds \cup {None}]
        /\ staleCopies \subseteq Cmds /\ mSndBuf[c].data = None
        /\ nrtBuf[b].data \in Cmds \cup {None} /\ None \in Cmds \cup {None}
    BY BufBefore, Types DEF NoBuf
  <1>2. ASSUME NEW rate \in {"server", "file"}, Allocates(c, b, rate),
               Saves(c, b, nrtBuf[b].data), UNCHANGED staleCopies, o \in Replacing
        PROVE  Effect(o, c, b)
    <2>1. /\ nrtBuf' \in [Bufs -> SndBufs] /\ \A e \in Bufs : e # b => nrtBuf'[e] = nrtBuf[e]
          /\ DataEffect(c, b) /\ FileEffect(c, b)
      BY <1>2, AllocatesFacts
    <2> QED BY <1>1, <1>2, <2>1, SavesFacts DEF Effect
  <1>3. ASSUME Stays, Saves(c, b, None), staleCopies' \subseteq Cmds
        PROVE  Effect(o, c, b)
    <2>1. /\ nrtBuf' \in [Bufs -> SndBufs] /\ \A e \in Bufs : e # b => nrtBuf'[e] = nrtBuf[e]
          /\ nrtBuf'[b].data = nrtBuf[b].data /\ heap' = heap /\ FileEffect(c, b)
      BY <1>3, StaysFacts
    <2>2. /\ mSndBuf' \in [Cmds -> SndBufs] /\ \A e \in Cmds : e # c => mSndBuf'[e] = mSndBuf[e]
          /\ mSndBuf'[c] = nrtBuf'[b]
          /\ mFreeData' \in [Cmds -> Cmds \cup {None}]
          /\ \A e \in Cmds : e # c => mFreeData'[e] = mFreeData[e]
          /\ mFreeData'[c] = None
      BY <1>1, <1>3, <2>1, SavesFacts
    <2> QED BY <1>3, <2>1, <2>2 DEF Effect, DataEffect
  <1>4. ASSUME OpensFile(c, b) \/ Stays, UNCHANGED <<mFreeData, staleCopies>>,
               NEW buf \in SndBufs, buf.data = None, mSndBuf' = [mSndBuf EXCEPT ![c] = buf]
        PROVE  Effect(o, c, b)
    <2>1. /\ mSndBuf' \in [Cmds -> SndBufs] /\ \A e \in Cmds : e # c => mSndBuf'[e] = mSndBuf[e]
          /\ mSndBuf'[c].data = None
      BY <1>1, <1>4
    <2>2. /\ nrtBuf' \in [Bufs -> SndBufs] /\ \A e \in Bufs : e # b => nrtBuf'[e] = nrtBuf[e]
          /\ nrtBuf'[b].data = nrtBuf[b].data /\ heap' = heap /\ FileEffect(c, b)
      <3>1. CASE OpensFile(c, b)
        <4>1. PICK file \in {c, None} :
                 /\ nrtBuf' = [nrtBuf EXCEPT ![b].sndfile = file]
                 /\ openFiles' = (openFiles \ {nrtBuf[b].sndfile}) \cup ({file} \ {None})
                 /\ UNCHANGED heap
          BY <3>1 DEF OpensFile
        <4>2. file \in Cmds \cup {None}
          OBVIOUS
        <4> QED BY <4>1, <4>2, MirrorFacts DEF FileEffect
      <3>2. CASE Stays
        BY <3>2, StaysFacts
      <3> QED BY <3>1, <3>2, <1>4
    <2> QED BY <1>1, <1>4, <2>1, <2>2 DEF Effect, DataEffect
  <1>5. /\ mSndBuf[c] \in SndBufs /\ mSndBuf = [mSndBuf EXCEPT ![c] = mSndBuf[c]]
        /\ [mSndBuf EXCEPT ![c].rate = "file"] = [mSndBuf EXCEPT ![c] = [NoBuf EXCEPT !.rate = "file"]]
        /\ [mSndBuf EXCEPT ![c].rate = "undefined"]
             = [mSndBuf EXCEPT ![c] = [NoBuf EXCEPT !.rate = "undefined"]]
        /\ [NoBuf EXCEPT !.rate = "file"] \in SndBufs /\ [NoBuf EXCEPT !.rate = "file"].data = None
        /\ [NoBuf EXCEPT !.rate = "undefined"] \in SndBufs
        /\ [NoBuf EXCEPT !.rate = "undefined"].data = None
    BY <1>1 DEF NoBuf, SndBufs
  <1>6. CASE o = "copy" /\ BufCopy(c, b)
    <2>1. Stays /\ Saves(c, b, None) /\ staleCopies' \subseteq Cmds
      BY <1>1, <1>6 DEF BufCopy
    <2> QED BY <2>1, <1>3
  <1>7. ASSUME UNCHANGED staleCopies, o = "alloc" /\ BufAlloc(c, b) PROVE Effect(o, c, b)
    BY <1>2, <1>7 DEF BufAlloc, Replacing
  <1>8. ASSUME UNCHANGED staleCopies, o = "allocRead" /\ BufAllocRead(c, b) PROVE Effect(o, c, b)
    BY <1>2, <1>8 DEF BufAllocRead, Replacing
  <1>9. ASSUME UNCHANGED staleCopies, o = "free" /\ BufFree(c, b) PROVE Effect(o, c, b)
    <2>1. /\ nrtBuf' = [nrtBuf EXCEPT ![b] = Cleared(@)]
          /\ openFiles' = openFiles \ {nrtBuf[b].sndfile}
          /\ heap' = heap /\ Saves(c, b, nrtBuf[b].data)
      BY <1>9 DEF BufFree
    <2>2. /\ nrtBuf' \in [Bufs -> SndBufs] /\ \A e \in Bufs : e # b => nrtBuf'[e] = nrtBuf[e]
          /\ nrtBuf'[b].sndfile = None /\ nrtBuf'[b].data = None
      BY <1>1, <2>1, MirrorFacts
    <2>3. /\ mSndBuf' \in [Cmds -> SndBufs] /\ \A e \in Cmds : e # c => mSndBuf'[e] = mSndBuf[e]
          /\ mSndBuf'[c] = nrtBuf'[b]
          /\ mFreeData' \in [Cmds -> Cmds \cup {None}]
          /\ \A e \in Cmds : e # c => mFreeData'[e] = mFreeData[e]
          /\ mFreeData'[c] = nrtBuf[b].data
      BY <1>1, <2>1, <2>2, SavesFacts
    <2>4. DataEffect(c, b) /\ FileEffect(c, b)
      BY <2>1, <2>2, <2>3 DEF DataEffect, FileEffect
    <2> QED BY <1>1, <1>9, <2>2, <2>3, <2>4 DEF Effect, Replacing
  <1>10. ASSUME UNCHANGED staleCopies, o = "gen" /\ BufGen(c, b) PROVE Effect(o, c, b)
    <2>1. \/ Stays /\ Saves(c, b, None)
          \/ Allocates(c, b, "server") /\ Saves(c, b, nrtBuf[b].data)
      BY <1>10 DEF BufGen
    <2> QED BY <2>1, <1>1, <1>2, <1>3, <1>10 DEF Replacing
  <1>11. ASSUME UNCHANGED staleCopies, o = "zero" /\ BufZero(c, b) PROVE Effect(o, c, b)
    BY <1>1, <1>4, <1>5, <1>11 DEF BufZero
  <1>12. ASSUME UNCHANGED staleCopies, o = "read" /\ BufRead(c, b) PROVE Effect(o, c, b)
    BY <1>4, <1>5, <1>12 DEF BufRead
  <1>13. ASSUME UNCHANGED staleCopies, o = "write" /\ BufWrite(c, b) PROVE Effect(o, c, b)
    BY <1>1, <1>4, <1>5, <1>13 DEF BufWrite
  <1>14. ASSUME UNCHANGED staleCopies, o = "close" /\ BufClose(c, b) PROVE Effect(o, c, b)
    <2>1. OpensFile(c, b) /\ UNCHANGED <<mSndBuf, mFreeData>>
      BY <1>14 DEF BufClose, OpensFile
    <2> QED BY <2>1, <1>1, <1>4, <1>5, <1>14
  <1> QED BY <1>6, <1>7, <1>8, <1>9, <1>10, <1>11, <1>12, <1>13, <1>14 DEF Operation

-----------------------------------------------------------------------------
(* Stage 2 works on the mirror, whose data no command under way is to free.*)
LEMMA Stage2KeepsData ==
  ASSUME BufInv, IInv', ~EmptyReallocs, NEW c \in Cmds, BufStage2(c) PROVE BufInv'
  <1>1. PICK o \in Ops, b \in Bufs :
           /\ Operation(o, c, b)
           /\ op' = [op EXCEPT ![c] = o] /\ bufOf' = [bufOf EXCEPT ![c] = b]
    BY DEF BufStage2
  <1>2. /\ IInv /\ PerformStage(c, 2, Do(c)) /\ Do(c) \in FifoMsgs /\ Do(c).cmd = c
        /\ \A e \in Cmds : Do(c) = Do(e) => e = c
        /\ UNCHANGED rtBuf
    BY BufBefore, MsgFacts DEF BufStage2, Stage2
  <1>3. /\ mNextStage[c] = 2 /\ c \notin UnderWay
        /\ c \notin heap /\ c \notin openFiles /\ mSndBuf[c] = NoBuf /\ mFreeData[c] = None
    BY <1>2, BufBefore DEF PerformStage, Fresh
  <1>4. /\ CmdsIn(fromEngine') \subseteq CmdsIn(fromEngine) \ {c}
        /\ \A e \in DosIn(toEngine') : e \in DosIn(toEngine) \/ Do(c) = Do(e)
        /\ mNextStage'[c] = 2 + 1 /\ \A e \in Cmds : e # c => mNextStage'[e] = mNextStage[e]
    BY <1>2, PerformFacts
  <1>5. /\ DosIn(toEngine') \subseteq DosIn(toEngine) \cup {c}
        /\ Late' \subseteq Late /\ UnderWay' \subseteq UnderWay \cup {c}
    <2>1. DosIn(toEngine') \subseteq Cmds /\ CmdsIn(fromEngine) \subseteq Cmds
      BY <1>2, Before DEF DosIn
    <2>2. DosIn(toEngine') \subseteq DosIn(toEngine) \cup {c}
      BY <1>2, <1>4, <2>1
    <2>3. Late' \subseteq Late
      BY <1>4, <2>1 DEF Late
    <2> QED BY <2>2, <2>3 DEF UnderWay
  <1>6. \A d, e \in Cmds : NoLater(toEngine', d, e) =>
           \/ NoLater(toEngine, d, e)
           \/ e = c /\ d \in UnderWay \cup {c}
    <2>1. Ordered(toEngine, Do(c), toEngine')
      BY <1>2, PerformOrder
    <2> QED BY <1>2, <2>1 DEF Ordered, UnderWay
  <1>7. Effect(o, c, b)
    BY <1>1, <1>3, OperationFacts
  <1>8. /\ nrtBuf' \in [Bufs -> SndBufs] /\ \A e \in Bufs : e # b => nrtBuf'[e] = nrtBuf[e]
        /\ mSndBuf' \in [Cmds -> SndBufs] /\ \A e \in Cmds : e # c => mSndBuf'[e] = mSndBuf[e]
        /\ mSndBuf'[c].data \in {nrtBuf'[b].data, None}
        /\ mFreeData' \in [Cmds -> Cmds \cup {None}]
        /\ \A e \in Cmds : e # c => mFreeData'[e] = mFreeData[e]
        /\ mFreeData'[c] # None => o \in Replacing
        /\ DataEffect(c, b) /\ FileEffect(c, b)
        /\ staleCopies' \subseteq Cmds
    BY <1>7 DEF Effect
  <1>9. /\ op' \in [Cmds -> Ops \cup {None}] /\ bufOf' \in [Cmds -> Bufs \cup {None}]
        /\ op'[c] = o /\ bufOf'[c] = b
        /\ \A e \in Cmds : e # c => op'[e] = op[e] /\ bufOf'[e] = bufOf[e]
    BY <1>1, BufBefore
  <1>10. /\ heap \subseteq heap' /\ heap' \subseteq heap \cup {c}
    BY <1>8 DEF DataEffect
  <1>11. /\ \A e \in UnderWay : mFreeData[e] = None \/ mFreeData[e] \in heap
         /\ \A e \in UnderWay : e # c /\ e \in Cmds /\ mFreeData'[e] = mFreeData[e]
         /\ c # None
    BY <1>3, <1>8, BufBefore, NoneAssumption DEF OldData
  <1>12. \A x \in heap : bufOf'[x] = bufOf[x]
    BY <1>3, <1>9, BufBefore
  (* The mirror's data after the step, and who frees it.                   *)
  <1>13. ASSUME NEW e \in Bufs, NEW x, x = nrtBuf'[e].data, x # None
         PROVE  /\ x \in heap' /\ bufOf'[x] = e
                /\ \A d \in UnderWay \cup {c} : mFreeData'[d] # x
    <2>1. CASE x = nrtBuf[e].data /\ (e = b => mFreeData'[c] = None)
      <3>1. x \in heap /\ bufOf[x] = e /\ \A d \in UnderWay : mFreeData[d] # x
        <4>1. /\ nrtBuf[e].data \in heap /\ bufOf[nrtBuf[e].data] = e
              /\ \A d \in UnderWay : mFreeData[d] # nrtBuf[e].data
          BY <2>1, <1>13, BufBefore DEF MirrorData
        <4> QED BY <4>1, <2>1
      <3>2. e # b => mFreeData'[c] # x
        <4> SUFFICES ASSUME e # b, mFreeData'[c] = x PROVE FALSE
          OBVIOUS
        <4>1. x = nrtBuf[b].data
          BY <1>8, <1>13 DEF DataEffect
        <4>2. bufOf[x] = b
          BY <4>1, <1>13, BufBefore DEF MirrorData
        <4> QED BY <3>1, <4>2
      <3> QED BY <3>1, <3>2, <2>1, <1>10, <1>11, <1>12, <1>13
    <2>2. CASE e = b /\ x = c /\ heap' = heap \cup {c} /\ mFreeData'[c] = nrtBuf[b].data
      <3>1. nrtBuf[b].data # c
        BY <1>3, <1>11, BufBefore DEF MirrorData
      <3>2. \A d \in UnderWay : mFreeData'[d] # c
        BY <1>3, <1>11
      <3> QED BY <3>1, <3>2, <2>2, <1>9
    <2> QED BY <2>1, <2>2, <1>8, <1>13 DEF DataEffect
  (* What c is to free was the mirror's, and is nobody else's to free.     *)
  <1>14. ASSUME NEW x, x = mFreeData'[c], x # None
         PROVE  /\ x \in heap /\ bufOf[x] = b /\ x = nrtBuf[b].data
                /\ \A d \in UnderWay : mFreeData[d] # x
    <2>1. x = nrtBuf[b].data
      BY <1>8, <1>14 DEF DataEffect
    <2> QED BY ZenonT(60), <2>1, <1>14, BufBefore DEF MirrorData
  <1>15. BufTypeOK'
    <2>1. openFiles' \subseteq Cmds
      <3>1. nrtBuf'[b].sndfile \in Cmds \cup {None}
        BY <1>8 DEF SndBufs
      <3> QED BY <3>1, <1>8, BufBefore DEF FileEffect
    <2> QED BY <2>1, <1>2, <1>8, <1>9, <1>10, BufBefore DEF BufTypeOK, IInv
  <1>16. MirrorData'
    BY <1>5, <1>13 DEF MirrorData
  <1>17. RtData'
    <2> SUFFICES ASSUME NEW e \in Bufs, NEW x, x = rtBuf[e].data, x # None
                 PROVE  x \in heap' /\ bufOf'[x] = e /\ \A d \in Late' : mFreeData'[d] # x
      BY <1>2 DEF RtData
    <2>1. x \in heap /\ bufOf[x] = e /\ \A d \in Late : mFreeData[d] # x
      BY BufBefore DEF RtData
    <2> QED BY <2>1, <1>5, <1>10, <1>11, <1>12, BufBefore
  <1>18. NextData'
    <2> SUFFICES ASSUME NEW e \in DosIn(toEngine')
                 PROVE  /\ bufOf'[e] \in Bufs
                        /\ mSndBuf'[e].data # None =>
                              /\ mSndBuf'[e].data \in heap' /\ bufOf'[mSndBuf'[e].data] = bufOf'[e]
                              /\ \A f \in Late' : mFreeData'[f] # mSndBuf'[e].data
                              /\ \A f \in Cmds : NoLater(toEngine', f, e) =>
                                                    mFreeData'[f] # mSndBuf'[e].data
      BY DEF NextData
    <2>1. CASE e = c
      <3>1. ASSUME NEW x, x = mSndBuf'[c].data, x # None
            PROVE  /\ x \in heap' /\ bufOf'[x] = b
                   /\ \A d \in UnderWay \cup {c} : mFreeData'[d] # x
        <4>1. x = nrtBuf'[b].data
          BY <1>8, <3>1
        <4> QED BY <4>1, <3>1, <1>13
      <3>2. ASSUME NEW f \in Cmds, NoLater(toEngine', f, c)
            PROVE  f \in UnderWay \cup {c}
        <4>1. NoLater(toEngine, f, c) => c \in DosIn(toEngine)
          BY DEF NoLater, DosIn
        <4> QED BY <3>2, <4>1, <1>3, <1>6, BufBefore
      <3>3. Late' \subseteq UnderWay
        BY <1>5, BufBefore
      <3> QED BY <2>1, <3>1, <3>2, <3>3, <1>9
    <2>2. CASE e # c
      <3>1. e \in DosIn(toEngine) /\ e \in Cmds
        BY <2>2, <1>5, BufBefore
      <3>2. mSndBuf'[e] = mSndBuf[e] /\ bufOf'[e] = bufOf[e]
        BY <2>2, <3>1, <1>8, <1>9
      <3>3. /\ bufOf[e] \in Bufs
            /\ mSndBuf[e].data # None =>
                  /\ mSndBuf[e].data \in heap /\ bufOf[mSndBuf[e].data] = bufOf[e]
                  /\ \A f \in Late : mFreeData[f] # mSndBuf[e].data
                  /\ \A f \in Cmds : NoLater(toEngine, f, e) => mFreeData[f] # mSndBuf[e].data
        BY <3>1, BufBefore DEF NextData
      <3>4. ASSUME NEW f \in Cmds, NoLater(toEngine', f, e) PROVE f # c /\ NoLater(toEngine, f, e)
        <4>1. NoLater(toEngine, f, e)
          BY <2>2, <3>1, <3>4, <1>6
        <4>2. f \in DosIn(toEngine)
          BY <4>1 DEF NoLater, DosIn
        <4> QED BY <4>1, <4>2, <1>3, BufBefore
      <3>5. \A f \in Late' : f \in Late /\ mFreeData'[f] = mFreeData[f]
        BY <1>5, <1>11, BufBefore
      <3> QED BY <3>1, <3>2, <3>3, <3>4, <3>5, <1>8, <1>10, <1>12
    <2> QED BY <2>1, <2>2
  <1>19. OldData'
    <2> SUFFICES ASSUME NEW e \in UnderWay', mFreeData'[e] # None
                 PROVE  /\ mFreeData'[e] \in heap' /\ bufOf'[mFreeData'[e]] = bufOf'[e]
                        /\ op'[e] \in Replacing
                        /\ \A d \in UnderWay' : mFreeData'[d] = mFreeData'[e] => d = e
      BY DEF OldData
    <2>1. CASE e = c
      BY <2>1, <1>5, <1>8, <1>9, <1>10, <1>11, <1>12, <1>14
    <2>2. CASE e # c
      <3>1. e \in UnderWay /\ mFreeData'[e] = mFreeData[e] /\ e \in Cmds
        BY <2>2, <1>5, <1>11
      <3>2. /\ mFreeData[e] \in heap /\ bufOf[mFreeData[e]] = bufOf[e]
            /\ op[e] \in Replacing
            /\ \A d \in UnderWay : mFreeData[d] = mFreeData[e] => d = e
        BY <3>1, <2>2, BufBefore DEF OldData
      <3>3. mFreeData'[c] # mFreeData[e]
        BY <3>1, <1>14
      <3> QED BY <2>2, <3>1, <3>2, <3>3, <1>5, <1>9, <1>10, <1>11, <1>12
    <2> QED BY <2>1, <2>2
  <1>20. Fresh'
    <2> SUFFICES ASSUME NEW e \in Cmds, mNextStage'[e] <= 2
                 PROVE  /\ e \notin heap' /\ e \notin openFiles'
                        /\ mSndBuf'[e] = NoBuf /\ mFreeData'[e] = None
      BY DEF Fresh
    <2>1. e # c
      BY <1>4
    <2>2. /\ e \notin heap /\ e \notin openFiles /\ mSndBuf[e] = NoBuf /\ mFreeData[e] = None
      BY <2>1, <1>4, BufBefore DEF Fresh
    <2>3. openFiles' \subseteq openFiles \cup {c}
      BY <1>8 DEF FileEffect
    <2> QED BY <2>1, <2>2, <2>3, <1>8, <1>10
  <1>21. Files'
    <2>1. /\ openFiles = {nrtBuf[e].sndfile : e \in Bufs} \ {None}
          /\ \A e \in Bufs : nrtBuf[e].sndfile # None => bufOf[nrtBuf[e].sndfile] = e
      BY BufBefore DEF Files, FilesAccountedFor
    <2>2. \A e \in Bufs : nrtBuf[e].sndfile # None =>
             nrtBuf[e].sndfile \in openFiles /\ nrtBuf[e].sndfile # c
      BY <2>1, <1>3
    <2>3. ASSUME NEW e \in Bufs, nrtBuf'[e].sndfile # None
          PROVE  bufOf'[nrtBuf'[e].sndfile] = e /\ nrtBuf'[e].sndfile \in openFiles'
      <3>1. CASE nrtBuf'[e].sndfile = nrtBuf[e].sndfile /\ (e = b => openFiles' = openFiles)
        <4>1. nrtBuf[e].sndfile \in openFiles /\ nrtBuf[e].sndfile # c /\ nrtBuf[e].sndfile \in Cmds
          BY <2>2, <2>3, <3>1, BufBefore
        <4>2. e # b => nrtBuf[e].sndfile # nrtBuf[b].sndfile
          BY <2>1, <2>3, <3>1
        <4> QED BY <2>1, <2>3, <3>1, <4>1, <4>2, <1>8, <1>9 DEF FileEffect
      <3>2. CASE e = b /\ nrtBuf'[b].sndfile = c /\ c \in openFiles'
        BY <3>2, <1>9
      <3> QED BY <2>3, <3>1, <3>2, <1>8, <1>11 DEF FileEffect
    <2>4. ASSUME NEW x \in openFiles' PROVE x # None /\ \E e \in Bufs : nrtBuf'[e].sndfile = x
      <3>1. CASE x \in openFiles /\ (x # nrtBuf[b].sndfile \/ nrtBuf'[b].sndfile = nrtBuf[b].sndfile)
        <4>1. x # None /\ \E e \in Bufs : nrtBuf[e].sndfile = x
          BY <2>1, <3>1
        <4> QED BY <4>1, <3>1, <1>8
      <3>2. CASE x = nrtBuf'[b].sndfile /\ x # None
        BY <3>2
      <3> QED BY <2>4, <3>1, <3>2, <1>8 DEF FileEffect
    <2> QED BY <2>3, <2>4 DEF Files, FilesAccountedFor
  <1> QED BY <1>15, <1>16, <1>17, <1>18, <1>19, <1>20, <1>21 DEF BufInv

-----------------------------------------------------------------------------
LEMMA BufInitInv == BufInit => BufInv
  <1> SUFFICES ASSUME BufInit PROVE BufInv
    OBVIOUS
  <1>1. /\ IInv /\ mNextStage = [c \in Cmds |-> 1]
        /\ op = [c \in Cmds |-> None] /\ bufOf = [c \in Cmds |-> None]
        /\ nrtBuf = [b \in Bufs |-> NoBuf] /\ rtBuf = [b \in Bufs |-> NoBuf]
        /\ heap = {} /\ openFiles = {} /\ staleCopies = {}
        /\ mSndBuf = [c \in Cmds |-> NoBuf] /\ mFreeData = [c \in Cmds |-> None]
    BY InitInv DEF BufInit, Init
  <1>2. /\ DosIn(toEngine) = {} /\ Late = {} /\ UnderWay = {}
    <2>1. Len(fromEngine) = 0 /\ Len(toEngine) = 0
      BY DEF BufInit, Init
    <2> QED BY <2>1 DEF DosIn, CmdsIn, Late, UnderWay
  <1>3. NoBuf \in SndBufs /\ NoBuf.data = None /\ NoBuf.sndfile = None
    BY DEF NoBuf, SndBufs
  <1>4. BufTypeOK
    BY <1>1, <1>3 DEF BufTypeOK, IInv
  <1>5. MirrorData /\ RtData /\ NextData /\ OldData
    BY <1>1, <1>2, <1>3 DEF MirrorData, RtData, NextData, OldData
  <1>6. Fresh
    BY <1>1 DEF Fresh
  <1>7. Files
    BY <1>1, <1>3 DEF Files, FilesAccountedFor
  <1> QED BY <1>1, <1>4, <1>5, <1>6, <1>7 DEF BufInv

(* The steps of the buffer commands are steps of sequenced commands.       *)
LEMMA StepOfCommands == BufNext => Next
  BY DEF BufNext, BufOther, BufStage2, BufStage2Stops, BufStage3, BufStage4, Next, AudioThread,
         NRTThread

LEMMA BufStepInv == ~EmptyReallocs /\ BufInv /\ [BufNext]_allVars => BufInv'
  <1> SUFFICES ASSUME ~EmptyReallocs, BufInv, [BufNext]_allVars PROVE BufInv'
    OBVIOUS
  <1>1. CASE BufNext
    <2>1. IInv'
      BY <1>1, StepOfCommands, StepInv, BufBefore
    <2>2. CASE BufOther
      <3>1. Shrinks /\ UNCHANGED bufVars
        BY <2>2, OtherShrinks DEF BufOther
      <3> QED BY <3>1, <2>1, ShrinkInv
    <2>3. ASSUME NEW c \in Cmds, BufStage2Stops(c) PROVE BufInv'
      <3>1. Shrinks /\ UNCHANGED bufVars
        BY <2>3, Stage2StopsShrinks DEF BufStage2Stops
      <3> QED BY <3>1, <2>1, ShrinkInv
    <2>4. ASSUME NEW c \in Cmds, BufStage2(c) PROVE BufInv'
      BY <2>1, <2>4, Stage2KeepsData
    <2>5. ASSUME NEW c \in Cmds, BufStage3(c) PROVE BufInv'
      BY <2>1, <2>5, Stage3KeepsData
    <2>6. ASSUME NEW c \in Cmds, BufStage4(c) PROVE BufInv'
      BY <2>1, <2>6, Stage4Inv
    <2> QED BY <1>1, <2>2, <2>3, <2>4, <2>5, <2>6 DEF BufNext
  <1>2. CASE UNCHANGED allVars
    <2>1. UNCHANGED vars /\ UNCHANGED bufVars
      BY <1>2 DEF allVars
    <2>2. IInv'
      BY <2>1, StepInv, BufBefore
    <2>3. Shrinks
      BY <2>1 DEF Shrinks, Late, vars, fromFifo, toFifo
    <2> QED BY <2>1, <2>2, <2>3, ShrinkInv
  <1> QED BY <1>1, <1>2

(* The assumption is used once: in AllocatesFacts.                         *)
LEMMA BufInvariance == ~EmptyReallocs => (BufSpec => []BufInv)
  <1> SUFFICES ASSUME ~EmptyReallocs PROVE BufSpec => []BufInv
    OBVIOUS
  <1>1. BufInv /\ [BufNext]_allVars => BufInv'
    BY BufStepInv
  <1> QED BY <1>1, BufInitInv, PTL DEF BufSpec

(* The sample data that the audio thread's descriptors name is allocated,  *)
(* whatever stages full fifos lose and whenever memory runs out, as long   *)
(* as no buffer that has data is allocated anew with no samples            *)
(* (SC_World.cpp:1070 leaves the data in place and stage 4 frees it).      *)
THEOREM RtDataStaysLive == ~EmptyReallocs => (BufSpec => []RtDataLive)
  <1> SUFFICES ASSUME ~EmptyReallocs PROVE BufSpec => []RtDataLive
    OBVIOUS
  <1>1. BufInv => RtDataLive
    BY DEF BufInv, RtData, RtDataLive
  <1> QED BY <1>1, BufInvariance, PTL

(* What a command is to free in stage 4 is allocated, is no other's to     *)
(* free, and is not the mirror's any more, under the same hypothesis: an   *)
(* allocation without samples leaves to the mirror what stage 4 will free. *)
THEOREM NothingFreedTwice == ~EmptyReallocs => (BufSpec => []FreedOnce)
  <1> SUFFICES ASSUME ~EmptyReallocs PROVE BufSpec => []FreedOnce
    OBVIOUS
  <1>1. ASSUME BufInv PROVE FreedOnce
    <2>1. Freeing \subseteq {c \in UnderWay : mFreeData[c] # None}
      <3> SUFFICES ASSUME NEW c \in Freeing PROVE c \in UnderWay /\ mFreeData[c] # None
        OBVIOUS
      <3>1. /\ c \in Waiting(fromEngine) \cup Waiting(toEngine)
            /\ mNextStage[c] > 2 /\ mFreeData[c] # None
        BY DEF Freeing
      <3>2. CASE c \in Waiting(fromEngine)
        <4>1. c \in CmdsIn(fromEngine)
          BY <3>2 DEF Waiting, CmdsIn
        <4>2. mNextStage[c] = 4
          BY <4>1, <3>1, <1>1, BufBefore, Before DEF Stages
        <4> QED BY <3>1, <4>1, <4>2 DEF UnderWay, Late
      <3>3. CASE c \in Waiting(toEngine)
        <4>1. PICK i \in 1 .. Len(toEngine) : toEngine[i].func = "do" /\ toEngine[i].cmd = c
          BY <3>3 DEF Waiting
        <4>2. toEngine[i] \in FifoMsgs
          BY <1>1, BufBefore, Before
        <4>3. c \in Cmds /\ toEngine[i] = Do(c)
          BY <4>1, <4>2 DEF FifoMsgs, Do
        <4> QED BY <3>1, <4>3 DEF UnderWay, DosIn
      <3> QED BY <3>1, <3>2, <3>3
    <2>2. \A b \in Bufs : nrtBuf[b].data \in heap \cup {None}
      BY <1>1 DEF BufInv, MirrorData
    <2>3. ASSUME NEW c \in Freeing
          PROVE  /\ mFreeData[c] \in heap
                 /\ \A d \in Freeing : mFreeData[d] = mFreeData[c] => c = d
                 /\ \A b \in Bufs : nrtBuf[b].data # mFreeData[c]
      BY <1>1, <2>1 DEF BufInv, MirrorData, OldData
    <2> QED BY <2>2, <2>3 DEF FreedOnce
  <1> QED BY <1>1, BufInvariance, PTL

(* The sound files that are open are those the mirror names, so that each  *)
(* can be closed (the invariant it is taken from needs the hypothesis).    *)
THEOREM NoFileForgotten == ~EmptyReallocs => (BufSpec => []FilesAccountedFor)
  <1> SUFFICES ASSUME ~EmptyReallocs PROVE BufSpec => []FilesAccountedFor
    OBVIOUS
  <1>1. BufInv => FilesAccountedFor
    BY DEF BufInv, Files
  <1> QED BY <1>1, BufInvariance, PTL

-----------------------------------------------------------------------------
(* While no message is lost: of the commands that wait for stage 3 and are *)
(* to replace a descriptor, the last one installs the data of the mirror,  *)
(* or none is left and the data was installed; and data that the mirror    *)
(* does not name is some command's to free.                                *)
Replacers(b) == {c \in DosIn(toEngine) : op[c] \in Replacing /\ bufOf[c] = b}
ContentsFor(c) == IF op[c] = "free" THEN <<None, FALSE>> ELSE Contents(mSndBuf[c])

InstalledLast(b) ==
    \/ Replacers(b) = {} /\ Contents(rtBuf[b]) = Contents(nrtBuf[b])
    \/ \E c \in Replacers(b) : /\ ContentsFor(c) = Contents(nrtBuf[b])
                               /\ \A d \in Replacers(b) : NoLater(toEngine, d, c)
HeapNamed ==
    \A x \in heap : \/ \E b \in Bufs : nrtBuf[b].data = x
                    \/ \E c \in UnderWay : mFreeData[c] = x

Mirrored == HeapNamed /\ \A b \in Bufs : InstalledLast(b)

MirrorInv == BufInv /\ (Lost = {} => Mirrored)

(* What comes of the order when a message is taken, and when one is        *)
(* written and not lost: then it comes last.                               *)
KeepsOrder(T) ==
    /\ \A e \in DosIn(toEngine) : e \notin T => e \in DosIn(toEngine')
    /\ \A d, e \in Cmds : d \notin T /\ NoLater(toEngine, d, e) => NoLater(toEngine', d, e)

LEMMA TakeKeeps ==
  ASSUME IInv, NEW m, TakeToEngine(m), NEW T, \A d \in Cmds : m = Do(d) => d \in T
  PROVE  KeepsOrder(T)
  <1> DEFINE t == Tail(toEngine)
  <1>1. toEngine \in Seq(FifoMsgs) /\ toEngine # <<>> /\ m = Head(toEngine) /\ toEngine' = t
    BY Before DEF TakeToEngine
  <1>2. \A i \in 1 .. Len(toEngine) : i # 1 =>
           i - 1 \in 1 .. Len(t) /\ t[i - 1] = toEngine[i] /\ i \in Int
    <2>1. \A i \in 1 .. Len(toEngine) : i # 1 => i - 1 \in 1 .. Len(t) /\ i \in Int
      BY <1>1
    <2>2. \A j \in 1 .. Len(t) : t[j] = toEngine[j + 1]
      BY <1>1
    <2> HIDE DEF t
    <2> QED BY <2>1, <2>2
  <1>3. toEngine[1] = m
    BY <1>1
  <1> HIDE DEF t
  <1>4. ASSUME NEW e \in DosIn(toEngine), e \notin T PROVE e \in DosIn(toEngine')
    <2>1. PICK i \in 1 .. Len(toEngine) : e \in Cmds /\ toEngine[i] = Do(e)
      BY DEF DosIn
    <2>2. i # 1
      BY <1>3, <1>4, <2>1
    <2>3. i - 1 \in 1 .. Len(t) /\ t[i - 1] = Do(e)
      BY <1>2, <2>1, <2>2
    <2> QED BY <1>1, <2>1, <2>3 DEF DosIn
  <1>5. ASSUME NEW d \in Cmds, NEW e \in Cmds, d \notin T, NoLater(toEngine, d, e)
        PROVE  NoLater(toEngine', d, e)
    <2>1. PICK i \in 1 .. Len(toEngine), j \in 1 .. Len(toEngine) :
             i <= j /\ toEngine[i] = Do(d) /\ toEngine[j] = Do(e)
      BY <1>5 DEF NoLater
    <2>2. i # 1 /\ j # 1
      BY <1>3, <1>5, <2>1
    <2>3. /\ i - 1 \in 1 .. Len(t) /\ t[i - 1] = Do(d)
          /\ j - 1 \in 1 .. Len(t) /\ t[j - 1] = Do(e) /\ i - 1 <= j - 1
      BY <1>2, <2>1, <2>2
    <2> QED BY <1>1, <2>3 DEF NoLater
  <1> QED BY <1>4, <1>5 DEF KeepsOrder

LEMMA PerformKeeps ==
  ASSUME IInv, NEW c \in Cmds, NEW n \in {2, 4}, NEW m \in FifoMsgs, m.cmd = c,
         PerformStage(c, n, m), Lost' = {}
  PROVE  /\ KeepsOrder({})
         /\ m = Do(c) => /\ c \in DosIn(toEngine')
                         /\ \A d \in DosIn(toEngine') : NoLater(toEngine', d, c)
  <1>1. /\ c \notin freed /\ freed' = freed /\ mNextStage'[c] = n + 1
        /\ c \notin CmdsIn(toEngine) /\ c \notin CmdsIn(fromEngine')
    BY PerformFacts DEF PerformStage
  <1>2. c \in CmdsIn(toEngine')
    BY <1>1, LostIsNext
  <1>3. WrittenOne(toEngine, 0, m, toEngine') /\ Len(toEngine) \in Nat
    <2>1. /\ toEngine \in Seq(FifoMsgs) /\ 0 \in Nat /\ Len(toEngine) + 0 <= Capacity
          /\ toEngine' = Write(toEngine, 0, <<m>>) /\ Len(toEngine) \in Nat
      BY Before, CapacityAssumption DEF PerformStage
    <2> QED BY ONLY <2>1, m \in FifoMsgs, WriteOne
  <1> SUFFICES /\ \A e \in DosIn(toEngine) : e \in DosIn(toEngine')
               /\ \A d, e \in Cmds : NoLater(toEngine, d, e) => NoLater(toEngine', d, e)
               /\ m = Do(c) => /\ c \in DosIn(toEngine')
                               /\ \A d \in DosIn(toEngine') : NoLater(toEngine', d, c)
    BY DEF KeepsOrder
  <1> SUFFICES ASSUME NEW q, q = toEngine, NEW r, r = toEngine', NEW l, l = Len(q)
               PROVE  /\ \A e \in DosIn(q) : e \in DosIn(r)
                      /\ \A d, e \in Cmds : NoLater(q, d, e) => NoLater(r, d, e)
                      /\ m = Do(c) => /\ c \in DosIn(r)
                                      /\ \A d \in DosIn(r) : NoLater(r, d, c)
    OBVIOUS
  <1>4. /\ l \in Nat /\ Len(r) \in Nat
        /\ \A i \in 1 .. Len(r) :
              \/ i \in 1 .. l /\ r[i] = q[i]
              \/ i = l + 1 /\ r[i] = m
    <2>1. WrittenOne(q, 0, m, r) /\ l \in Nat
      BY <1>3
    <2> QED BY ONLY <2>1, l = Len(q) DEF WrittenOne
  <1>5. l + 1 \in 1 .. Len(r) /\ r[l + 1] = m
    <2>1. PICK i \in 1 .. Len(r) : r[i].cmd = c
      BY <1>2 DEF CmdsIn
    <2>2. ~(i \in 1 .. l /\ r[i] = q[i])
      BY <1>1, <2>1 DEF CmdsIn
    <2> QED BY <1>4, <2>1, <2>2
  <1>6. \A i \in 1 .. l : i \in 1 .. Len(r) /\ r[i] = q[i]
    BY <1>4, <1>5
  <1>7. \A e \in DosIn(q) : e \in DosIn(r)
    BY <1>6 DEF DosIn
  <1>8. \A d, e \in Cmds : NoLater(q, d, e) => NoLater(r, d, e)
    BY <1>6 DEF NoLater
  <1>9. ASSUME m = Do(c), NEW d \in DosIn(r) PROVE NoLater(r, d, c)
    <2>1. PICK i \in 1 .. Len(r) : r[i] = Do(d)
      BY DEF DosIn
    <2>2. i <= l + 1
      BY <1>4, <2>1
    <2> QED BY <1>5, <1>9, <2>1, <2>2 DEF NoLater
  <1>10. m = Do(c) => c \in DosIn(r)
    BY <1>5 DEF DosIn
  <1> QED BY <1>7, <1>8, <1>9, <1>10

LEMMA NoLaterOnce ==
  ASSUME NEW q \in Seq(FifoMsgs), OneEach(q), NEW c \in Cmds, NEW d \in Cmds,
         NoLater(q, c, d), NoLater(q, d, c)
  PROVE  c = d
  <1>1. PICK i \in 1 .. Len(q), j \in 1 .. Len(q) : i <= j /\ q[i] = Do(c) /\ q[j] = Do(d)
    BY DEF NoLater
  <1>2. PICK k \in 1 .. Len(q), l \in 1 .. Len(q) : k <= l /\ q[k] = Do(d) /\ q[l] = Do(c)
    BY DEF NoLater
  <1>3. i = l /\ j = k
    BY <1>1, <1>2 DEF OneEach
  <1>4. i = j
    BY <1>1, <1>2, <1>3
  <1> QED BY <1>1, <1>4, MsgFacts

(* As long as nothing is lost, commands stay under way that do not move.   *)
LEMMA UnderWayStays ==
  ASSUME IInv, NEW T, Only(T), Lost' = {},
         \A e \in DosIn(toEngine) : e \notin T => e \in DosIn(toEngine')
  PROVE  \A e \in UnderWay : e \notin T => e \in UnderWay'
  <1> SUFFICES ASSUME NEW e \in Late, e \notin T PROVE e \in Late'
    BY DEF UnderWay
  <1>1. /\ e \in CmdsIn(fromEngine) /\ mNextStage[e] = 4 /\ e \in Cmds
        /\ e \notin freed /\ e \notin CmdsIn(toEngine)
    BY Before DEF Late, Stages, Once
  <1>2. mNextStage'[e] = 4 /\ e \notin freed' /\ e \notin CmdsIn(toEngine')
    BY <1>1 DEF Only
  <1>3. e \in CmdsIn(fromEngine')
    BY <1>1, <1>2, LostIsNext
  <1> QED BY <1>2, <1>3 DEF Late

(* A step that moves no command under way and leaves the buffers alone.    *)
LEMMA InstalledStays ==
  ASSUME NEW b, InstalledLast(b), DosIn(toEngine) \subseteq Cmds, KeepsOrder({}),
         Replacers(b)' = Replacers(b), \A c \in Replacers(b) : ContentsFor(c)' = ContentsFor(c),
         Contents(rtBuf'[b]) = Contents(rtBuf[b]), Contents(nrtBuf'[b]) = Contents(nrtBuf[b])
  PROVE  InstalledLast(b)'
  <1>1. CASE Replacers(b) = {} /\ Contents(rtBuf[b]) = Contents(nrtBuf[b])
    BY <1>1 DEF InstalledLast
  <1>2. ASSUME NEW c \in Replacers(b), ContentsFor(c) = Contents(nrtBuf[b]),
               \A d \in Replacers(b) : NoLater(toEngine, d, c)
        PROVE  InstalledLast(b)'
    <2>1. Replacers(b) \subseteq Cmds
      BY DEF Replacers
    <2>2. \A d \in Replacers(b) : NoLater(toEngine', d, c)
      BY <1>2, <2>1 DEF KeepsOrder
    <2> QED BY <1>2, <2>2 DEF InstalledLast
  <1> QED BY <1>1, <1>2 DEF InstalledLast

LEMMA InstalledUnmoved ==
  ASSUME \A b \in Bufs : InstalledLast(b), DosIn(toEngine) \subseteq Cmds,
         DosIn(toEngine') \subseteq DosIn(toEngine), KeepsOrder({}),
         UNCHANGED <<op, bufOf, nrtBuf, rtBuf, mSndBuf>>
  PROVE  \A b \in Bufs : InstalledLast(b)'
  <1> SUFFICES ASSUME NEW b \in Bufs PROVE InstalledLast(b)'
    OBVIOUS
  <1>1. Replacers(b)' = Replacers(b)
    BY DEF Replacers, KeepsOrder
  <1>2. \A c \in Replacers(b) : ContentsFor(c)' = ContentsFor(c)
    BY DEF ContentsFor, Contents
  <1>3. InstalledLast(b) /\ Contents(rtBuf'[b]) = Contents(rtBuf[b]) /\ Contents(nrtBuf'[b]) = Contents(nrtBuf[b])
    OBVIOUS
  <1> QED BY <1>1, <1>2, <1>3, InstalledStays

LEMMA UnmovedMirrored ==
  ASSUME BufInv, Mirrored, Shrinks, KeepsOrder({}), UNCHANGED bufVars,
         UnderWay \subseteq UnderWay'
  PROVE  Mirrored'
  <1>1. UNCHANGED <<op, bufOf, nrtBuf, rtBuf, heap, mSndBuf, mFreeData>>
    BY DEF bufVars
  <1>2. \A b \in Bufs : InstalledLast(b)'
    BY <1>1, BufBefore, InstalledUnmoved DEF Mirrored, Shrinks
  <1>3. HeapNamed'
    BY <1>1 DEF Mirrored, HeapNamed
  <1> QED BY <1>2, <1>3 DEF Mirrored

(* The steps that leave the buffers alone move no command under way.       *)
LEMMA OtherMirrored ==
  ASSUME BufInv, Mirrored, BufOther, Lost' = {}
  PROVE  Mirrored'
  <1>0. IInv /\ UnderWay \subseteq Cmds /\ Shrinks /\ UNCHANGED bufVars /\ None \notin Cmds
    BY BufBefore, OtherShrinks, NoneAssumption DEF BufOther
  <1>1. CASE Client \/ Callback \/ ToEngineEmpty \/ CallbackEnd \/ FromEngineEmpty \/ WaitNext
    <2>1. UNCHANGED <<fromEngine, toEngine, mNextStage>>
      BY <1>1 DEF Client, Receive, Callback, ToEngineEmpty, CallbackEnd, FromEngineEmpty,
                  WaitNext, fromFifo, toFifo
    <2>2. KeepsOrder({}) /\ UnderWay \subseteq UnderWay'
      BY <2>1 DEF KeepsOrder, UnderWay, Late
    <2> QED BY <1>0, <2>2, UnmovedMirrored
  <1>2. CASE Start
    <2> SUFFICES ASSUME NEW c, c = Head(packets) PROVE Mirrored'
      OBVIOUS
    <2>1. c \in Cmds /\ mNextStage[c] = 1 /\ UNCHANGED toEngine
      BY <1>0, <1>2, StartFacts DEF Start, toFifo
    <2>2. KeepsOrder({})
      BY <2>1 DEF KeepsOrder
    <2>3. \A e \in UnderWay : e \notin {c, None} => e \in UnderWay'
      BY <1>0, <1>2, <2>1, StartOnly, UnderWayStays
    <2>4. c \notin UnderWay
      BY <2>1, BufBefore
    <2> QED BY <1>0, <2>2, <2>3, <2>4, UnmovedMirrored
  <1>3. ASSUME NEW c \in Cmds, Delete(c) PROVE Mirrored'
    <2>1. /\ TakeToEngine(Free(c)) /\ DeleteCmd(c) /\ Free(c).cmd = c
          /\ UNCHANGED <<kind, completion, fromEngine, replies, mNextStage>>
      BY <1>3, MsgFacts DEF Delete, client, fromFifo
    <2>2. KeepsOrder({})
      BY <1>0, <2>1, MsgFacts, TakeKeeps
    <2>3. c \notin DosIn(toEngine) /\ c \in CmdsIn(toEngine)
      BY <1>0, <2>1, <2>2, TakeFacts DEF KeepsOrder
    <2>4. c \notin UnderWay
      BY <1>0, <2>3, Before DEF UnderWay, Late, Once
    <2>5. \A e \in UnderWay : e \notin {c} => e \in UnderWay'
      BY <1>0, <2>1, <2>2, DeleteOnly, UnderWayStays DEF KeepsOrder
    <2> QED BY <1>0, <2>2, <2>4, <2>5, UnmovedMirrored
  <1> QED BY <1>1, <1>2, <1>3 DEF BufOther

LEMMA Stage2StopsMirrored ==
  ASSUME BufInv, Mirrored, NEW c \in Cmds, BufStage2Stops(c), Lost' = {}
  PROVE  Mirrored'
  <1>1. /\ IInv /\ UnderWay \subseteq Cmds /\ PerformStage(c, 2, Free(c)) /\ Shrinks
        /\ Free(c) \in FifoMsgs /\ Free(c).cmd = c /\ UNCHANGED bufVars
        /\ replies' = replies \/ replies' = Append(replies, c)
    BY BufBefore, MsgFacts, Stage2StopsShrinks DEF BufStage2Stops, Stage2Stops
  <1>2. KeepsOrder({}) /\ mNextStage[c] = 2
    BY <1>1, PerformKeeps DEF PerformStage
  <1>3. \A e \in UnderWay : e \notin {c, None} => e \in UnderWay'
    BY <1>1, <1>2, PerformOnly, UnderWayStays DEF KeepsOrder
  <1>4. UnderWay \subseteq UnderWay'
    BY <1>1, <1>2, <1>3, BufBefore, NoneAssumption
  <1> QED BY <1>1, <1>2, <1>4, UnmovedMirrored

LEMMA Stage4Mirrored ==
  ASSUME BufInv, Mirrored, NEW c \in Cmds, BufStage4(c), Lost' = {}
  PROVE  Mirrored'
  <1>1. /\ IInv /\ UnderWay \subseteq Cmds /\ PerformStage(c, 4, Free(c))
        /\ Free(c) \in FifoMsgs /\ Free(c).cmd = c /\ \A e \in Cmds : Free(c) # Do(e)
        /\ replies' = replies \/ replies' = Append(replies, c)
        /\ heap' = heap \ {mFreeData[c]}
        /\ UNCHANGED <<op, bufOf, nrtBuf, rtBuf, mSndBuf, mFreeData>>
    BY BufBefore, MsgFacts DEF BufStage4, Stage4
  <1>2. KeepsOrder({})
    BY <1>1, PerformKeeps
  <1>3. DosIn(toEngine') \subseteq DosIn(toEngine)
    BY <1>1, PerformFacts DEF DosIn
  <1>4. \A e \in UnderWay : e # c => e \in UnderWay'
    <2>1. \A e \in UnderWay : e \notin {c, None} => e \in UnderWay'
      BY <1>1, <1>2, PerformOnly, UnderWayStays DEF KeepsOrder
    <2> QED BY <1>1, <2>1, NoneAssumption
  <1>5. \A b \in Bufs : InstalledLast(b)'
    BY <1>1, <1>2, <1>3, BufBefore, InstalledUnmoved DEF Mirrored
  <1>6. HeapNamed'
    BY <1>1, <1>4 DEF Mirrored, HeapNamed
  <1> QED BY <1>5, <1>6 DEF Mirrored

(* Stage 3 installs what the command that came first has, which is the     *)
(* last one only if no other is left.                                      *)
LEMMA Stage3Mirrored ==
  ASSUME BufInv, Mirrored, NEW c \in Cmds, BufStage3(c), Lost' = {}
  PROVE  Mirrored'
  <1> SUFFICES ASSUME NEW d, d = completion[c] PROVE Mirrored'
    OBVIOUS
  <1>1. /\ IInv /\ Stage3(c) /\ TakeToEngine(Do(c))
        /\ rtBuf' = [rtBuf EXCEPT ![bufOf[c]] = Installed(c, @)]
        /\ UNCHANGED <<op, bufOf, nrtBuf, heap, mSndBuf, mFreeData>> /\ freed' = freed
    BY BufBefore DEF BufStage3, Stage3, outcome
  <1>2. /\ DosIn(toEngine') \subseteq DosIn(toEngine) \ {c} /\ c \in DosIn(toEngine)
        /\ CmdsIn(toEngine') \subseteq CmdsIn(toEngine) \ {c}
        /\ mNextStage'[c] = 4 /\ c \notin freed
        /\ d # None => d \in Cmds /\ mNextStage[d] = 1
        /\ DosIn(toEngine) \subseteq Cmds /\ UnderWay \subseteq Cmds
    BY <1>1, Stage3Facts, BufBefore
  <1>3. KeepsOrder({c}) /\ \A f \in DosIn(toEngine) : NoLater(toEngine, c, f)
    <2>1. \A e \in Cmds : Do(c) = Do(e) => e \in {c}
      BY MsgFacts
    <2> QED BY <1>1, <2>1, TakeKeeps, TakeOrder
  <1>4. \A e \in UnderWay : e \in UnderWay'
    <2>1. \A e \in UnderWay : e \notin {c, d} => e \in UnderWay'
      BY <1>1, <1>3, Stage3Only, UnderWayStays DEF KeepsOrder
    <2>2. d \notin UnderWay
      BY <1>2, BufBefore, NoneAssumption
    <2>3. c \in CmdsIn(fromEngine')
      BY <1>1, <1>2, LostIsNext
    <2> QED BY <1>2, <2>1, <2>2, <2>3 DEF UnderWay, Late
  <1>5. HeapNamed'
    BY <1>1, <1>4 DEF Mirrored, HeapNamed
  <1>6. /\ rtBuf' \in [Bufs -> SndBufs] /\ bufOf[c] \in Bufs
        /\ \A b \in Bufs : b # bufOf[c] => rtBuf'[b] = rtBuf[b]
        /\ op[c] \notin Replacing => Contents(rtBuf'[bufOf[c]]) = Contents(rtBuf[bufOf[c]])
        /\ op[c] \in Replacing => Contents(rtBuf'[bufOf[c]]) = ContentsFor(c)
    <2>1. bufOf[c] \in Bufs
      BY <1>2, BufBefore DEF NextData
    <2>2. /\ Installed(c, rtBuf[bufOf[c]]) \in SndBufs
          /\ op[c] \notin Replacing =>
                Contents(Installed(c, rtBuf[bufOf[c]])) = Contents(rtBuf[bufOf[c]])
          /\ op[c] \in Replacing => Contents(Installed(c, rtBuf[bufOf[c]])) = ContentsFor(c)
      <3>1. rtBuf[bufOf[c]] \in SndBufs /\ mSndBuf[c] \in SndBufs
        BY <2>1, BufBefore
      <3>2. CASE op[c] = "free"
        BY <3>1, <3>2 DEF Installed, Cleared, SndBufs, ContentsFor, Contents, Replacing
      <3>3. CASE op[c] = "read"
        BY <3>1, <3>3 DEF Installed, SndBufs, Contents, Replacing
      <3>4. CASE op[c] \in Replacing \ {"free"}
        BY <3>1, <3>4 DEF Installed, Replacing, ContentsFor
      <3>5. CASE op[c] # "free" /\ op[c] # "read" /\ op[c] \notin Replacing
        BY <3>1, <3>5 DEF Installed, Replacing
      <3> QED BY <3>2, <3>3, <3>4, <3>5
    <2> QED BY <1>1, <2>1, <2>2, BufBefore
  <1>7. ASSUME NEW b \in Bufs PROVE InstalledLast(b)'
    <2>1. /\ InstalledLast(b) /\ Replacers(b) \subseteq DosIn(toEngine)
          /\ Replacers(b)' = Replacers(b) \ {c}
          /\ c \in Replacers(b) <=> op[c] \in Replacing /\ bufOf[c] = b
      BY <1>1, <1>2, <1>3 DEF Mirrored, Replacers, KeepsOrder
    <2>2. \A e \in Replacers(b) : ContentsFor(e)' = ContentsFor(e)
      BY <1>1 DEF ContentsFor, Contents
    <2>3. nrtBuf'[b] = nrtBuf[b]
      BY <1>1
    <2>4. CASE Replacers(b) = {} /\ Contents(rtBuf[b]) = Contents(nrtBuf[b])
      <3>1. Contents(rtBuf'[b]) = Contents(rtBuf[b])
        BY <2>1, <2>4, <1>6
      <3> QED BY <2>1, <2>3, <2>4, <3>1 DEF InstalledLast
    <2>5. ASSUME NEW e \in Replacers(b), ContentsFor(e) = Contents(nrtBuf[b]),
                 \A f \in Replacers(b) : NoLater(toEngine, f, e)
          PROVE  InstalledLast(b)'
      <3>1. CASE e = c
        <4>1. ASSUME NEW f \in Replacers(b) PROVE f = c
          <5>1. NoLater(toEngine, f, c) /\ NoLater(toEngine, c, f) /\ f \in Cmds
            BY <1>2, <1>3, <2>1, <2>5, <3>1
          <5>2. toEngine \in Seq(FifoMsgs) /\ OneEach(toEngine)
            BY <1>1, Before
          <5> QED BY <5>1, <5>2, NoLaterOnce
        <4>2. Replacers(b)' = {}
          BY <2>1, <4>1
        <4>3. Contents(rtBuf'[b]) = Contents(nrtBuf[b])
          BY <1>6, <2>1, <2>5, <3>1
        <4> QED BY <2>3, <4>2, <4>3 DEF InstalledLast
      <3>2. CASE e # c
        <4>1. e \in Replacers(b)' /\ ContentsFor(e)' = Contents(nrtBuf'[b])
          BY <2>1, <2>2, <2>3, <2>5, <3>2
        <4>2. ASSUME NEW f \in Replacers(b)' PROVE NoLater(toEngine', f, e)
          <5>1. f \in Replacers(b) /\ f # c /\ f \in Cmds /\ e \in Cmds
            BY <1>2, <2>1
          <5> QED BY <1>3, <2>5, <5>1 DEF KeepsOrder
        <4> QED BY <4>1, <4>2 DEF InstalledLast
      <3> QED BY <3>1, <3>2
    <2> QED BY <2>1, <2>4, <2>5 DEF InstalledLast
  <1> QED BY <1>5, <1>7 DEF Mirrored

(* An operation that does not replace the descriptor keeps the data.       *)
LEMMA DataKept ==
  ASSUME BufInv, ~EmptyReallocs, NEW c \in Cmds, NEW b \in Bufs, NEW o \in Ops, Operation(o, c, b),
         mSndBuf[c] = NoBuf, mFreeData[c] = None
  PROVE  /\ o \notin Replacing => Contents(nrtBuf'[b]) = Contents(nrtBuf[b])
         /\ o = "free" => Contents(nrtBuf'[b]) = <<None, FALSE>>
         /\ o \in Replacing \ {"free"} => mSndBuf'[c] = nrtBuf'[b]
  <1>1. mSndBuf \in [Cmds -> SndBufs] /\ nrtBuf \in [Bufs -> SndBufs] /\ b \in Bufs
    BY BufBefore
  <1>2. ASSUME OpensFile(c, b) \/ Stays PROVE Contents(nrtBuf'[b]) = Contents(nrtBuf[b])
    <2>1. CASE OpensFile(c, b)
      <3>1. PICK file \in {c, None} : nrtBuf' = [nrtBuf EXCEPT ![b].sndfile = file]
        BY <2>1 DEF OpensFile
      <3>2. file \in Cmds \cup {None}
        OBVIOUS
      <3> QED BY <3>1, <3>2, MirrorFacts DEF Contents
    <2>2. CASE Stays
      BY <2>2 DEF Stays
    <2> QED BY <1>2, <2>1, <2>2
  <1>3. ASSUME o \notin Replacing PROVE Contents(nrtBuf'[b]) = Contents(nrtBuf[b])
    <2>1. OpensFile(c, b) \/ Stays
      BY <1>3 DEF Operation, Replacing, BufZero, BufRead, BufWrite, BufClose, OpensFile
    <2> QED BY <2>1, <1>2
  <1>4. ASSUME o = "free" PROVE Contents(nrtBuf'[b]) = <<None, FALSE>>
    <2>1. nrtBuf' = [nrtBuf EXCEPT ![b] = Cleared(@)]
      BY <1>4 DEF Operation, BufFree
    <2>2. None \in Cmds \cup {None}
      OBVIOUS
    <2> QED BY <2>1, <2>2, MirrorFacts DEF Contents
  <1>5. ASSUME o \in Replacing \ {"free"} PROVE mSndBuf'[c] = nrtBuf'[b]
    <2>1. \E free : Saves(c, b, free)
      BY <1>5 DEF Operation, Replacing, BufAlloc, BufAllocRead, BufGen, BufCopy
    <2> QED BY <2>1, <1>1 DEF Saves
  <1> QED BY <1>3, <1>4, <1>5

(* Stage 2 comes after all that wait for stage 3, and what it takes from   *)
(* the mirror it is to free.                                               *)
LEMMA Stage2Mirrored ==
  ASSUME BufInv, ~EmptyReallocs, Mirrored, NEW c \in Cmds, BufStage2(c), Lost' = {}
  PROVE  Mirrored'
  <1>1. PICK o \in Ops, b \in Bufs :
           /\ Operation(o, c, b)
           /\ op' = [op EXCEPT ![c] = o] /\ bufOf' = [bufOf EXCEPT ![c] = b]
    BY DEF BufStage2
  <1>2. /\ IInv /\ PerformStage(c, 2, Do(c)) /\ Do(c) \in FifoMsgs /\ Do(c).cmd = c
        /\ \A e \in Cmds : Do(c) = Do(e) => e = c
        /\ UNCHANGED rtBuf /\ replies' = replies
        /\ DosIn(toEngine) \subseteq Cmds /\ UnderWay \subseteq Cmds
    BY BufBefore, MsgFacts DEF BufStage2, Stage2
  <1>3. /\ mNextStage[c] = 2 /\ c \notin UnderWay /\ c \notin DosIn(toEngine)
        /\ mSndBuf[c] = NoBuf /\ mFreeData[c] = None
    BY <1>2, BufBefore DEF PerformStage, Fresh
  <1>4. /\ KeepsOrder({}) /\ c \in DosIn(toEngine')
        /\ \A d \in DosIn(toEngine') : NoLater(toEngine', d, c)
    BY <1>2, PerformKeeps
  <1>5. DosIn(toEngine') = DosIn(toEngine) \cup {c}
    <2>1. DosIn(toEngine') \subseteq Cmds
      BY DEF DosIn
    <2>2. \A e \in DosIn(toEngine') : e \in DosIn(toEngine) \/ Do(c) = Do(e)
      BY <1>2, PerformFacts
    <2> QED BY <1>2, <1>4, <2>1, <2>2 DEF KeepsOrder
  <1>6. \A e \in UnderWay \cup {c} : e \in UnderWay'
    <2>1. \A e \in UnderWay : e \notin {c, None} => e \in UnderWay'
      BY <1>2, <1>4, PerformOnly, UnderWayStays DEF KeepsOrder
    <2> QED BY <1>2, <1>3, <1>4, <2>1, NoneAssumption DEF UnderWay
  <1>7. /\ \A e \in Bufs : e # b => nrtBuf'[e] = nrtBuf[e]
        /\ \A e \in Cmds : e # c => mSndBuf'[e] = mSndBuf[e]
        /\ \A e \in Cmds : e # c => mFreeData'[e] = mFreeData[e]
        /\ DataEffect(c, b)
    BY <1>1, <1>3, OperationFacts DEF Effect
  <1>8. /\ op'[c] = o /\ bufOf'[c] = b
        /\ \A e \in Cmds : e # c => op'[e] = op[e] /\ bufOf'[e] = bufOf[e]
    BY <1>1, BufBefore
  <1>9. /\ o \notin Replacing => Contents(nrtBuf'[b]) = Contents(nrtBuf[b])
        /\ o \in Replacing => ContentsFor(c)' = Contents(nrtBuf'[b])
    <2>1. /\ o \notin Replacing => Contents(nrtBuf'[b]) = Contents(nrtBuf[b])
          /\ o = "free" => Contents(nrtBuf'[b]) = <<None, FALSE>>
          /\ o \in Replacing \ {"free"} => mSndBuf'[c] = nrtBuf'[b]
      BY <1>1, <1>3, DataKept
    <2> QED BY <1>8, <2>1 DEF ContentsFor, Contents
  <1>10. ASSUME NEW x \in heap'
         PROVE  \/ \E e \in Bufs : nrtBuf'[e].data = x
                \/ \E e \in UnderWay' : mFreeData'[e] = x
    <2>1. CASE x \notin heap
      <3>1. nrtBuf'[b].data = x
        BY <1>7, <1>10, <2>1 DEF DataEffect
      <3> QED BY <3>1
    <2>2. ASSUME NEW e \in Bufs, nrtBuf[e].data = x, e # b PROVE nrtBuf'[e].data = x
      BY <1>7, <2>2
    <2>3. CASE nrtBuf[b].data = x
      <3>1. nrtBuf'[b].data = x \/ mFreeData'[c] = x
        BY <1>7, <2>3 DEF DataEffect
      <3> QED BY <1>6, <3>1
    <2>4. ASSUME NEW e \in UnderWay, mFreeData[e] = x PROVE e \in UnderWay' /\ mFreeData'[e] = x
      BY <1>2, <1>3, <1>6, <1>7, <2>4
    <2> QED BY <2>1, <2>2, <2>3, <2>4 DEF Mirrored, HeapNamed
  <1>11. ASSUME NEW e \in Bufs, e # b \/ o \notin Replacing PROVE InstalledLast(e)'
    <2>1. Replacers(e)' = Replacers(e)
      <3>1. \A f \in DosIn(toEngine) : f # c /\ op'[f] = op[f] /\ bufOf'[f] = bufOf[f]
        BY <1>2, <1>3, <1>8
      <3> QED BY <1>5, <1>8, <1>11, <3>1 DEF Replacers
    <2>2. \A f \in Replacers(e) : ContentsFor(f)' = ContentsFor(f)
      <3> SUFFICES ASSUME NEW f \in Replacers(e) PROVE ContentsFor(f)' = ContentsFor(f)
        OBVIOUS
      <3>1. f \in Cmds /\ f # c
        BY <1>2, <1>3 DEF Replacers
      <3> QED BY <1>7, <1>8, <3>1 DEF ContentsFor, Contents
    <2>3. Contents(rtBuf'[e]) = Contents(rtBuf[e]) /\ Contents(nrtBuf'[e]) = Contents(nrtBuf[e])
      BY <1>2, <1>7, <1>9, <1>11
    <2>4. InstalledLast(e)
      BY DEF Mirrored
    <2> QED BY <1>2, <1>4, <2>1, <2>2, <2>3, <2>4, InstalledStays
  <1>12. ASSUME o \in Replacing PROVE InstalledLast(b)'
    <2>1. c \in Replacers(b)' /\ Replacers(b)' \subseteq DosIn(toEngine')
      BY <1>4, <1>8, <1>12 DEF Replacers
    <2>2. \A d \in Replacers(b)' : NoLater(toEngine', d, c)
      BY <1>4, <2>1
    <2>3. ContentsFor(c)' = Contents(nrtBuf'[b])
      BY <1>9, <1>12
    <2> QED BY <2>1, <2>2, <2>3 DEF InstalledLast
  <1>13. HeapNamed'
    BY <1>10 DEF HeapNamed
  <1>14. \A e \in Bufs : InstalledLast(e)'
    BY <1>11, <1>12
  <1> QED BY <1>13, <1>14 DEF Mirrored

-----------------------------------------------------------------------------
LEMMA MirrorInitInv == BufInit => MirrorInv
  <1> SUFFICES ASSUME BufInit PROVE MirrorInv
    OBVIOUS
  <1>1. /\ nrtBuf = [b \in Bufs |-> NoBuf] /\ rtBuf = [b \in Bufs |-> NoBuf]
        /\ heap = {} /\ Len(toEngine) = 0
    BY DEF BufInit, Init
  <1>2. DosIn(toEngine) = {}
    BY <1>1 DEF DosIn
  <1>3. \A b \in Bufs : Replacers(b) = {} /\ Contents(rtBuf[b]) = Contents(nrtBuf[b])
    BY <1>1, <1>2 DEF Replacers
  <1> QED BY <1>1, <1>3, BufInitInv DEF MirrorInv, Mirrored, HeapNamed, InstalledLast

LEMMA MirrorStepInv == ~EmptyReallocs /\ MirrorInv /\ [BufNext]_allVars => MirrorInv'
  <1> SUFFICES ASSUME ~EmptyReallocs, MirrorInv, [BufNext]_allVars PROVE MirrorInv'
    OBVIOUS
  <1>1. BufInv /\ BufInv' /\ IInv
    BY BufStepInv, BufBefore DEF MirrorInv
  <1>2. ASSUME BufNext, Lost' = {} PROVE Mirrored'
    <2>1. Mirrored
      <3>1. Lost \subseteq Lost'
        BY <1>1, <1>2, StepOfCommands, LostStays
      <3> QED BY <1>2, <3>1 DEF MirrorInv
    <2>2. CASE BufOther
      BY ONLY <1>1, <1>2, <2>1, <2>2, OtherMirrored
    <2>3. ASSUME NEW c \in Cmds, BufStage2Stops(c) PROVE Mirrored'
      BY ONLY <1>1, <1>2, <2>1, <2>3, Stage2StopsMirrored
    <2>4. ASSUME NEW c \in Cmds, BufStage2(c) PROVE Mirrored'
      BY ONLY <1>1, <1>2, <2>1, <2>4, ~EmptyReallocs, Stage2Mirrored
    <2>5. ASSUME NEW c \in Cmds, BufStage3(c) PROVE Mirrored'
      BY ONLY <1>1, <1>2, <2>1, <2>5, Stage3Mirrored
    <2>6. ASSUME NEW c \in Cmds, BufStage4(c) PROVE Mirrored'
      BY ONLY <1>1, <1>2, <2>1, <2>6, Stage4Mirrored
    <2> QED BY <1>2, <2>2, <2>3, <2>4, <2>5, <2>6 DEF BufNext
  <1>3. ASSUME UNCHANGED allVars, Lost' = {} PROVE Mirrored'
    <2>1. UNCHANGED <<mNextStage, freed, fromEngine, toEngine>> /\ UNCHANGED bufVars
      BY <1>3 DEF allVars, vars, fromFifo, toFifo, outcome
    <2>2. Lost' = Lost
      BY <2>1 DEF Lost
    <2>3. Mirrored
      BY <1>3, <2>2 DEF MirrorInv
    <2>4. KeepsOrder({}) /\ UnderWay' = UnderWay /\ Shrinks
      BY <2>1 DEF KeepsOrder, UnderWay, Late, Shrinks
    <2> QED BY <1>1, <2>1, <2>3, <2>4, UnmovedMirrored
  <1> QED BY <1>1, <1>2, <1>3 DEF MirrorInv

(* When no command is under way and no message was refused, both threads'  *)
(* descriptors of every buffer name the same data and agree about its      *)
(* room, and nothing else is allocated: the mirror is one, whatever        *)
(* commands overlapped and whether or not there was memory for them.       *)
THEOREM MirrorsComeToAgree == ~EmptyReallocs => (BufSpec => []MirrorsAgree)
  <1> SUFFICES ASSUME ~EmptyReallocs PROVE BufSpec => []MirrorsAgree
    OBVIOUS
  <1>1. MirrorInv /\ [BufNext]_allVars => MirrorInv'
    BY MirrorStepInv
  <1>2. ASSUME MirrorInv PROVE MirrorsAgree
    <2> SUFFICES ASSUME Quiet, Lost = {}
                 PROVE  /\ \A b \in Bufs : Contents(rtBuf[b]) = Contents(nrtBuf[b])
                        /\ heap = {nrtBuf[b].data : b \in Bufs} \ {None}
      BY DEF MirrorsAgree
    <2>1. BufInv /\ HeapNamed /\ \A b \in Bufs : InstalledLast(b)
      BY <1>2 DEF MirrorInv, Mirrored
    <2>2. DosIn(toEngine) = {} /\ UnderWay = {}
      BY DEF Quiet, DosIn, CmdsIn, Late, UnderWay
    <2>3. \A b \in Bufs : Contents(rtBuf[b]) = Contents(nrtBuf[b])
      BY <2>1, <2>2 DEF InstalledLast, Replacers
    <2>4. heap \subseteq {nrtBuf[b].data : b \in Bufs} \ {None}
      BY <2>1, <2>2, BufBefore, NoneAssumption DEF HeapNamed
    <2>5. {nrtBuf[b].data : b \in Bufs} \ {None} \subseteq heap
      BY <2>1, BufBefore DEF MirrorData
    <2> QED BY <2>3, <2>4, <2>5
  <1> QED BY <1>1, <1>2, MirrorInitInv, PTL DEF BufSpec

=============================================================================
