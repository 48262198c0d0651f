-------------------------- MODULE SequencedCommands -------------------------
(***************************************************************************)
(* The asynchronous commands of scsynth (SC_SequencedCommand.cpp): objects *)
(* whose stages alternate between the audio thread (1 and 3) and the       *)
(* non-real-time thread (2 and 4), handed over through two message fifos   *)
(* whose Write may fail without anybody looking at its result.             *)
(*                                                                         *)
(* The fifos are used as MsgQueue describes them: performed messages take  *)
(* up room until the producer frees them, which the audio thread does once *)
(* per callback and the other thread before each message.  A stage reads   *)
(* and writes no state of the other thread, so it is one step.             *)
(***************************************************************************)
EXTENDS Integers, Sequences, FiniteSets

CONSTANTS NumCmds,    \* commands that clients send, at most
          Capacity,   \* messages a fifo takes: its slots less one
          Kinds,      \* the kinds of commands that are sent
          None

ASSUME KindAssumption == Kinds \subseteq {"sync", "done", "plugin"}
ASSUME CapacityAssumption == Capacity \in Nat \ {0}
ASSUME NumCmdsAssumption == NumCmds \in Nat

(* Commands are numbered as they arrive, completion messages with them.    *)
Cmds == 1 .. NumCmds
ASSUME NoneAssumption == None \notin Cmds /\ None \notin Kinds

VARIABLES
    kind,        \* None until the command is received; "sync": /sync,
                 \* "done": a command of the server, "plugin": a plug-in's
    completion,  \* the command in the completion message of a command
    msgFrees,    \* how often a command's copy of that message was freed
    mNextStage,
    packets,     \* mOscPacketsToEngine: commands not yet performed
    fromEngine, fromSpent,  \* mFromEngine: pending, and performed not freed
    toEngine, toSpent,      \* mToEngine
    audio,       \* where the audio callback is: out, toEngine or packets
    nrt,         \* the other thread: waiting for the signal of mAudioSync,
                 \* performing mFromEngine, or done with it
    replies,     \* the commands that were answered, in order
    freed        \* the commands that were deleted

client == <<kind, completion>>
fromFifo == <<fromEngine, fromSpent>>
toFifo == <<toEngine, toSpent>>
outcome == <<replies, msgFrees, freed>>
vars == <<client, packets, mNextStage, fromFifo, toFifo, audio, nrt, outcome>>

(* FifoMsg with DoSequencedCommand or FreeSequencedCommand.                *)
Do(c) == [func |-> "do", cmd |-> c]
Free(c) == [func |-> "free", cmd |-> c]
FifoMsgs == [func : {"do", "free"}, cmd : Cmds]

Init ==
    /\ kind = [c \in Cmds |-> None] /\ completion = [c \in Cmds |-> None]
    /\ msgFrees = [c \in Cmds |-> 0]
    /\ mNextStage = [c \in Cmds |-> 1]
    /\ packets = <<>>
    /\ fromEngine = <<>> /\ fromSpent = 0
    /\ toEngine = <<>> /\ toSpent = 0
    /\ audio = "out" /\ nrt = "waiting"
    /\ replies = <<>> /\ freed = {}

(* A client's packet is taken by ProcessOSCPacket.  Any command but /sync  *)
(* may carry a completion message; the ones that start a command of their  *)
(* own matter here, and those carry none.                                  *)
Receive(c, d, k, l) ==
    /\ kind[c] = None /\ \A e \in 1 .. c - 1 : kind[e] # None
    /\ d \in ({c + 1} \cap Cmds) \cup {None}
    /\ d # None => k # "sync"
    /\ kind' = [e \in Cmds |-> IF e = c THEN k ELSE IF e = d THEN l ELSE kind[e]]
    /\ completion' = [completion EXCEPT ![c] = d]
    /\ packets' = Append(packets, c)
    /\ UNCHANGED <<mNextStage, fromFifo, toFifo, audio, nrt, outcome>>

(* What clients sent, without the commands in completion messages.         *)
Received == {c \in Cmds : kind[c] # None /\ \A e \in Cmds : completion[e] # c}

-----------------------------------------------------------------------------
\* (faulty variant: the newest message goes to the front)
WriteInFront(q, spent, msgs) ==
    IF Len(q) + spent + Len(msgs) <= Capacity THEN msgs \o q ELSE q

(* What Write leaves in a fifo: the messages it has no room for are lost.  *)
Write(q, spent, msgs) ==
    IF Len(q) + spent + Len(msgs) <= Capacity THEN q \o msgs
    ELSE q \o SubSeq(msgs, 1, Capacity - Len(q) - spent)

(* The callback begins: mFromEngine.Free().                                *)
Callback ==
    /\ audio = "out" /\ audio' = "toEngine"
    /\ fromSpent' = 0
    /\ UNCHANGED <<client, packets, mNextStage, fromEngine, toFifo, nrt, outcome>>

(* Perform runs until the fifo is found empty.                             *)
ToEngineEmpty ==
    /\ audio = "toEngine" /\ toEngine = <<>>
    /\ audio' = "packets"
    /\ UNCHANGED <<client, packets, mNextStage, fromFifo, toFifo, nrt, outcome>>

\* (faulty variant: the waiting thread is not woken)
CallbackEndUnsignalled ==
    /\ audio = "packets" /\ packets = <<>>
    /\ audio' = "out"
    /\ UNCHANGED <<client, packets, mNextStage, fromFifo, toFifo, nrt, outcome>>

(* mAudioSync.Signal() is the last thing a callback does.                  *)
CallbackEnd ==
    /\ audio = "packets" /\ packets = <<>>
    /\ audio' = "out"
    /\ nrt' = IF nrt = "waiting" THEN "performing" ELSE nrt
    /\ UNCHANGED <<client, packets, mNextStage, fromFifo, toFifo, outcome>>

(* A packet with a sequenced command: it is made, and stage 1, which no    *)
(* command overrides, passes it on.                                        *)
Start ==
    /\ audio = "packets" /\ packets # <<>>
    /\ LET c == Head(packets)
       IN  /\ packets' = Tail(packets)
           /\ mNextStage' = [mNextStage EXCEPT ![c] = 2]
           /\ fromEngine' = Write(fromEngine, fromSpent, <<Do(c)>>)
    /\ UNCHANGED <<client, fromSpent, toFifo, audio, nrt, outcome>>

(* The next message to the engine is m, and Perform takes it.              *)
TakeToEngine(m) ==
    /\ audio = "toEngine" /\ toEngine # <<>> /\ Head(toEngine) = m
    /\ toEngine' = Tail(toEngine) /\ toSpent' = toSpent + 1

(* Stage 3: the completion message is performed, which starts its command, *)
(* before the command itself is passed on.                                 *)
Stage3(c) ==
    /\ TakeToEngine(Do(c))
    /\ LET d == completion[c]
           next == IF d = None THEN <<Do(c)>> ELSE <<Do(d), Do(c)>>
       IN  /\ fromEngine' = Write(fromEngine, fromSpent, next)
           /\ mNextStage' = [e \in Cmds |-> IF e = c THEN 4
                                            ELSE IF e = d THEN 2
                                            ELSE mNextStage[e]]
    /\ UNCHANGED <<client, packets, fromSpent, audio, nrt, outcome>>

(* ~SC_SequencedCommand frees mMsgData, and ~AsyncPlugInCmd did so before. *)
MsgFreesOf(c) == IF completion[c] = None THEN 0
                 ELSE IF kind[c] = "plugin" THEN 2 ELSE 1

DeleteCmd(c) ==
    /\ freed' = freed \cup {c}
    /\ msgFrees' = [msgFrees EXCEPT ![c] = @ + MsgFreesOf(c)]

\* (faulty variant: the command that was deleted is passed on as well)
Stage3StopsPassedOn(c) ==
    /\ TakeToEngine(Do(c)) /\ kind[c] = "plugin"
    /\ mNextStage' = [mNextStage EXCEPT ![c] = 4]
    /\ DeleteCmd(c)
    /\ fromEngine' = Write(fromEngine, fromSpent, <<Do(c)>>)
    /\ UNCHANGED <<client, packets, fromSpent, audio, nrt, replies>>

(* Stage 3 of a plug-in's command returns false: it is deleted at once.    *)
Stage3Stops(c) ==
    /\ TakeToEngine(Do(c)) /\ kind[c] = "plugin"
    /\ mNextStage' = [mNextStage EXCEPT ![c] = 4]
    /\ DeleteCmd(c)
    /\ UNCHANGED <<client, packets, fromFifo, audio, nrt, replies>>

(* FreeSequencedCommand.                                                   *)
Delete(c) ==
    /\ TakeToEngine(Free(c))
    /\ DeleteCmd(c)
    /\ UNCHANGED <<client, packets, mNextStage, fromFifo, audio, nrt, replies>>

-----------------------------------------------------------------------------
(* The non-real-time thread performs the stage n of c and hands back m: it *)
(* passes the command on, or sends it to be deleted, and the fifo to the   *)
(* engine is freed of what was performed first.                            *)
PerformStage(c, n, m) ==
    /\ nrt = "performing" /\ fromEngine # <<>> /\ Head(fromEngine) = Do(c)
    /\ mNextStage[c] = n
    /\ fromEngine' = Tail(fromEngine) /\ fromSpent' = fromSpent + 1
    /\ toEngine' = Write(toEngine, 0, <<m>>) /\ toSpent' = 0
    /\ mNextStage' = [mNextStage EXCEPT ![c] = n + 1]
    /\ UNCHANGED <<client, packets, audio, nrt, msgFrees, freed>>

(* Stage 2 returns true.                                                   *)
Stage2(c) == PerformStage(c, 2, Do(c)) /\ UNCHANGED replies

(* Stage 2 returns false: a command of the server has sent its whole       *)
(* answer, or /fail if it could not be done; a plug-in's sends nothing.    *)
Stage2Stops(c) ==
    /\ PerformStage(c, 2, Free(c)) /\ kind[c] # "sync"
    /\ replies' = IF kind[c] = "done" THEN Append(replies, c) ELSE replies

(* Stage 4 sends /done or /synced; a plug-in's may decide not to.          *)
Stage4(c) ==
    /\ PerformStage(c, 4, Free(c))
    /\ \/ replies' = Append(replies, c)
       \/ kind[c] = "plugin" /\ replies' = replies

(* Perform finds the fifo empty.                                           *)
FromEngineEmpty ==
    /\ nrt = "performing" /\ fromEngine = <<>>
    /\ nrt' = "done"
    /\ UNCHANGED <<client, packets, mNextStage, fromFifo, toFifo, audio, outcome>>

(* Only a signal that comes later wakes the thread, not one it missed.     *)
WaitNext ==
    /\ nrt = "done" /\ nrt' = "waiting"
    /\ UNCHANGED <<client, packets, mNextStage, fromFifo, toFifo, audio, outcome>>

-----------------------------------------------------------------------------
AudioThread == \/ Callback \/ ToEngineEmpty \/ CallbackEnd \/ Start
               \/ \E c \in Cmds : Stage3(c) \/ Stage3Stops(c) \/ Delete(c)

NRTThread == \/ FromEngineEmpty \/ WaitNext
             \/ \E c \in Cmds : Stage2(c) \/ Stage2Stops(c) \/ Stage4(c)

Client == \E c \in Cmds, d \in Cmds \cup {None}, k, l \in Kinds :
             Receive(c, d, k, l)

Next == Client \/ AudioThread \/ NRTThread

(* The host calls the audio callback again and again, and the other thread *)
(* is scheduled; clients need not send anything.                           *)
Spec == Init /\ [][Next]_vars
FairSpec == Spec /\ WF_vars(AudioThread) /\ WF_vars(NRTThread)

-----------------------------------------------------------------------------
TypeOK ==
    /\ kind \in [Cmds -> Kinds \cup {None}] /\ msgFrees \in [Cmds -> 0 .. 2]
    /\ completion \in [Cmds -> Cmds \cup {None}]
    /\ mNextStage \in [Cmds -> 1 .. 5]
    /\ packets \in Seq(Cmds)
    /\ fromEngine \in Seq(FifoMsgs) /\ Len(fromEngine) + fromSpent <= Capacity
    /\ toEngine \in Seq(FifoMsgs) /\ Len(toEngine) + toSpent <= Capacity
    /\ audio \in {"out", "toEngine", "packets"} /\ nrt \in {"waiting", "performing", "done"}
    /\ replies \in Seq(Cmds) /\ freed \subseteq Cmds

(* A command object has one owner: it is named by at most one waiting      *)
(* message, and by none once it was deleted (SC_SequencedCommand.cpp:163). *)
OneOwner ==
    \A c \in Cmds :
        LET from == {i \in 1 .. Len(fromEngine) : fromEngine[i].cmd = c}
            to == {i \in 1 .. Len(toEngine) : toEngine[i].cmd = c}
        IN  Cardinality(from) + Cardinality(to) <= IF c \in freed THEN 0 ELSE 1

(* Odd stages are run by the audio thread and even ones by the other: a    *)
(* message on its way from the engine announces an even stage, one on its  *)
(* way to the engine stage 3 or the end, and then the command is answered  *)
(* (the comments on Stage1 to Stage4 in SC_SequencedCommand.h).            *)
StagesAlternate ==
    /\ \A i \in 1 .. Len(fromEngine) : mNextStage[fromEngine[i].cmd] \in {2, 4}
    /\ \A i \in 1 .. Len(toEngine) :
          toEngine[i].func = "do" => mNextStage[toEngine[i].cmd] = 3

(* The commands of which a fifo refused a message: they were started, are  *)
(* not deleted, and no message names them any more.                        *)
Lost == {c \in Cmds : /\ mNextStage[c] > 1 /\ c \notin freed
                      /\ \A i \in 1 .. Len(fromEngine) : fromEngine[i].cmd # c
                      /\ \A i \in 1 .. Len(toEngine) : toEngine[i].cmd # c}

AnsweredBefore(c, n) == \E i \in 1 .. n : replies[i] = c

(* /synced is sent when all the asynchronous commands received before the  *)
(* /sync have been completed, whether they succeeded or failed: no command *)
(* that a fifo did not refuse is answered later.                           *)
SyncedAfterAllBefore ==
    \A i \in 1 .. Len(replies) : kind[replies[i]] = "sync" =>
        \A c \in Received :
            (replies[i] \in Received /\ c < replies[i] /\ kind[c] = "done")
                => c \in Lost \/ AnsweredBefore(c, i)

(* No command is answered twice, though it may answer in two of its stages.*)
AnsweredOnce ==
    \A i, j \in 1 .. Len(replies) : replies[i] = replies[j] => i = j

(* The objects stay in order whatever a full fifo loses.                   *)
CommandsIntact == TypeOK /\ OneOwner /\ StagesAlternate /\ AnsweredOnce

(* Every command that is received is answered and its object deleted,      *)
(* unless a fifo refused one of its messages.                              *)
EveryCommandCompletes ==
    \A c \in Cmds : c \in Received ~>
        \/ c \in Lost
        \/ c \in freed /\ (kind[c] = "plugin" \/ AnsweredBefore(c, Len(replies)))

(* Every command that is received is answered, a plug-in's excepted.       *)
EveryCommandReplies ==
    \A c \in Cmds :
        c \in Received /\ kind[c] # "plugin" ~> AnsweredBefore(c, Len(replies))

(* The completion message's memory is freed once.                          *)
MessageFreedOnce == \A c \in Cmds : msgFrees[c] <= 1
=============================================================================
