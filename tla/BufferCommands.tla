--------------------------- MODULE BufferCommands ---------------------------
(***************************************************************************)
(* The sound buffers of scsynth.  Each has two descriptors, one for the    *)
(* audio thread (mSndBufs) and one for the non-real-time thread (the       *)
(* mirror), which name sample data that only the latter allocates and      *)
(* frees.  A buffer command changes the mirror in stage 2, copies it to    *)
(* the audio thread's descriptor in stage 3, and in stage 4 frees the data *)
(* that was there before stage 2: several commands on a buffer are under   *)
(* way at once, and the order of the fifos must keep them apart.           *)
(***************************************************************************)
EXTENDS SequencedCommands

CONSTANTS Bufs,
          Ops,        \* the buffer commands that are sent
          EmptyReallocs \* a buffer with data may be allocated anew with no
                        \* samples, or from a file without frames

ASSUME BufsAssumption == Bufs # {}
ASSUME OpsAssumption == Ops \subseteq {"alloc", "allocRead", "free", "gen",
                                       "copy", "zero", "read", "write", "close"}
ASSUME EmptyReallocsAssumption == EmptyReallocs \in BOOLEAN

VARIABLES
    op,        \* what a command does; None until its stage 2
    bufOf,     \* mBufIndex
    nrtBuf,    \* the mirror: data and file are named after the command
               \* that allocated or opened them
    rtBuf,     \* mSndBufs
    heap,      \* the data that is allocated
    openFiles, \* the sound files that are open
    mSndBuf,   \* a command's copy of the descriptor, for stage 3
    mFreeData, \* the data a command frees in stage 4
    staleCopies \* copies that found a source other than the mirror's

bufVars == <<op, bufOf, nrtBuf, rtBuf, heap, openFiles, mSndBuf, mFreeData,
             staleCopies>>
allVars == <<vars, bufVars>>

(* room: are frames, samples and channels above zero?  rate: the server's  *)
(* sample rate, a file's, or an uninitialized one.                         *)
NoBuf == [data |-> None, room |-> FALSE, sndfile |-> None, rate |-> "server"]
SndBufs == [data : Cmds \cup {None}, room : BOOLEAN, sndfile : Cmds \cup {None},
            rate : {"server", "file", "undefined"}]

BufInit ==
    /\ Init
    /\ op = [c \in Cmds |-> None] /\ bufOf = [c \in Cmds |-> None]
    /\ nrtBuf = [b \in Bufs |-> NoBuf] /\ rtBuf = [b \in Bufs |-> NoBuf]
    /\ heap = {} /\ openFiles = {}
    /\ mSndBuf = [c \in Cmds |-> NoBuf] /\ mFreeData = [c \in Cmds |-> None]
    /\ staleCopies = {}

-----------------------------------------------------------------------------
(* Stage 2 of command c on buffer b.  Each operation says what becomes of  *)
(* the mirror, and Saves what the command keeps for its later stages.      *)
Saves(c, b, free) ==
    /\ mSndBuf' = [mSndBuf EXCEPT ![c] = nrtBuf'[b]]
    /\ mFreeData' = [mFreeData EXCEPT ![c] = free]

Stays == UNCHANGED <<nrtBuf, heap, openFiles>>

\* (faulty variant: without memory, the mirror keeps the data)
AllocatesKeeps(c, b, rate) ==
    \/ /\ nrtBuf' = [nrtBuf EXCEPT ![b] = [@ EXCEPT !.data = c, !.room = TRUE, !.rate = rate]]
       /\ heap' = heap \cup {c} /\ UNCHANGED openFiles
    \/ Stays

(* The mirror gets new data.  bufAlloc leaves it alone when no samples are *)
(* asked for; when there is no memory it has taken the data from it, and   *)
(* the frames, samples and channels are still those of the old data.       *)
Allocates(c, b, rate) ==
    \/ /\ nrtBuf' = [nrtBuf EXCEPT ![b] = [@ EXCEPT !.data = c, !.room = TRUE, !.rate = rate]]
       /\ heap' = heap \cup {c} /\ UNCHANGED openFiles
    \/ /\ nrtBuf' = [nrtBuf EXCEPT ![b] = [@ EXCEPT !.data = None]]
       /\ UNCHANGED <<heap, openFiles>>
    \/ Stays /\ (nrtBuf[b].data = None \/ EmptyReallocs)

BufAlloc(c, b) == Allocates(c, b, "server") /\ Saves(c, b, nrtBuf[b].data)

BufAllocRead(c, b) == Allocates(c, b, "file") /\ Saves(c, b, nrtBuf[b].data)

(* SndBuf_Init, which leaves the sample rate alone.                        *)
Cleared(buf) == [buf EXCEPT !.data = None, !.room = FALSE, !.sndfile = None]

\* (faulty variant: the data is freed in stage 2)
BufFreeAtOnce(c, b) ==
    /\ nrtBuf' = [nrtBuf EXCEPT ![b] = Cleared(@)]
    /\ openFiles' = openFiles \ {nrtBuf[b].sndfile}
    /\ heap' = heap \ {nrtBuf[b].data}
    /\ Saves(c, b, None)

BufFree(c, b) ==
    /\ nrtBuf' = [nrtBuf EXCEPT ![b] = Cleared(@)]
    /\ openFiles' = openFiles \ {nrtBuf[b].sndfile}
    /\ UNCHANGED heap
    /\ Saves(c, b, nrtBuf[b].data)

\* (faulty variant: data that was replaced is not freed)
BufGenLeaks(c, b) ==
    (Stays \/ Allocates(c, b, "server")) /\ Saves(c, b, None)

(* A fill command fills the data, or replaces it as a plug-in may.         *)
BufGen(c, b) ==
    \/ Stays /\ Saves(c, b, None)
    \/ Allocates(c, b, "server") /\ nrtBuf' # nrtBuf
       /\ Saves(c, b, nrtBuf[b].data)

(* The fill command copy looks its source up in the audio thread's array.  *)
BufCopy(c, b) ==
    /\ Stays /\ Saves(c, b, None)
    /\ \E src \in Bufs :
          staleCopies' = IF rtBuf[src].data = nrtBuf[src].data THEN staleCopies
                         ELSE staleCopies \cup {c}

\* (faulty variant: the file that was left open is forgotten)
OpensFileOnly(c, b) ==
    \E file \in {c, None} :
        /\ nrtBuf' = [nrtBuf EXCEPT ![b].sndfile = file]
        /\ openFiles' = openFiles \cup ({file} \ {None})
        /\ UNCHANGED heap

(* The file that was left open is closed, and the new one stays open or    *)
(* is closed too.                                                          *)
OpensFile(c, b) ==
    \E file \in {c, None} :
        /\ nrtBuf' = [nrtBuf EXCEPT ![b].sndfile = file]
        /\ openFiles' = (openFiles \ {nrtBuf[b].sndfile}) \cup ({file} \ {None})
        /\ UNCHANGED heap

(* Without room for a frame b_read returns before it knows the file's      *)
(* sample rate.  A buffer that lost its data has room: reading a frame     *)
(* into it ends the program, so the file has none left.                    *)
BufRead(c, b) ==
    /\ UNCHANGED mFreeData
    /\ \/ nrtBuf[b].room /\ OpensFile(c, b)
          /\ mSndBuf' = [mSndBuf EXCEPT ![c].rate = "file"]
       \/ Stays /\ mSndBuf' = [mSndBuf EXCEPT ![c].rate = "undefined"]

(* A sound file needs at least one channel, which comes with the room.  Of *)
(* a buffer that lost its data no frames are written.                      *)
BufWrite(c, b) ==
    nrtBuf[b].room /\ OpensFile(c, b) /\ UNCHANGED <<mSndBuf, mFreeData>>

BufClose(c, b) ==
    /\ nrtBuf' = [nrtBuf EXCEPT ![b].sndfile = None]
    /\ openFiles' = openFiles \ {nrtBuf[b].sndfile}
    /\ UNCHANGED <<heap, mSndBuf, mFreeData>>

(* memset, which the program does not survive without the data it had.     *)
BufZero(c, b) ==
    /\ nrtBuf[b].data # None \/ ~nrtBuf[b].room
    /\ Stays /\ UNCHANGED <<mSndBuf, mFreeData>>

Operation(o, c, b) ==
    \/ o = "copy" /\ BufCopy(c, b)
    \/ /\ UNCHANGED staleCopies
       /\ \/ o = "alloc" /\ BufAlloc(c, b)
          \/ o = "allocRead" /\ BufAllocRead(c, b)
          \/ o = "free" /\ BufFree(c, b)
          \/ o = "gen" /\ BufGen(c, b)
          \/ o = "zero" /\ BufZero(c, b)
          \/ o = "read" /\ BufRead(c, b)
          \/ o = "write" /\ BufWrite(c, b)
          \/ o = "close" /\ BufClose(c, b)

BufStage2(c) ==
    /\ Stage2(c)
    /\ \E o \in Ops, b \in Bufs :
          /\ Operation(o, c, b)
          /\ op' = [op EXCEPT ![c] = o] /\ bufOf' = [bufOf EXCEPT ![c] = b]
    /\ UNCHANGED rtBuf

(* A file that cannot be opened; nothing was changed by then.              *)
BufStage2Stops(c) == Stage2Stops(c) /\ UNCHANGED bufVars

Replacing == {"alloc", "allocRead", "free", "gen", "copy"}

(* What stage 3 makes of the audio thread's descriptor.                    *)
Installed(c, buf) ==
    CASE op[c] = "free" -> Cleared(buf)
      [] op[c] = "read" -> [buf EXCEPT !.rate = mSndBuf[c].rate]
      [] op[c] \in Replacing \ {"free"} -> mSndBuf[c]
      [] OTHER -> buf

BufStage3(c) ==
    /\ Stage3(c)
    /\ rtBuf' = [rtBuf EXCEPT ![bufOf[c]] = Installed(c, @)]
    /\ UNCHANGED <<op, bufOf, nrtBuf, heap, openFiles, mSndBuf, mFreeData,
                   staleCopies>>

(* zfree(mFreeData), then /done.                                           *)
BufStage4(c) ==
    /\ Stage4(c)
    /\ heap' = heap \ {mFreeData[c]}
    /\ UNCHANGED <<op, bufOf, nrtBuf, rtBuf, openFiles, mSndBuf, mFreeData,
                   staleCopies>>

BufOther ==
    /\ \/ Client \/ Callback \/ ToEngineEmpty \/ CallbackEnd \/ Start
       \/ FromEngineEmpty \/ WaitNext
       \/ \E c \in Cmds : Delete(c)
    /\ UNCHANGED bufVars

BufNext ==
    \/ BufOther
    \/ \E c \in Cmds : \/ BufStage2(c) \/ BufStage2Stops(c)
                       \/ BufStage3(c) \/ BufStage4(c)

BufSpec == BufInit /\ [][BufNext]_allVars

-----------------------------------------------------------------------------
BufTypeOK ==
    /\ TypeOK
    /\ op \in [Cmds -> Ops \cup {None}] /\ bufOf \in [Cmds -> Bufs \cup {None}]
    /\ nrtBuf \in [Bufs -> SndBufs] /\ rtBuf \in [Bufs -> SndBufs]
    /\ heap \subseteq Cmds /\ openFiles \subseteq Cmds
    /\ mSndBuf \in [Cmds -> SndBufs] /\ mFreeData \in [Cmds -> Cmds \cup {None}]
    /\ staleCopies \subseteq Cmds

(* Sample data the audio thread may use is allocated: no /b_alloc, /b_free *)
(* or /b_gen frees it before the audio thread's descriptor is replaced,    *)
(* even when memory runs out, the fifos are full and stages are lost.      *)
RtDataLive == BufTypeOK /\ \A b \in Bufs : rtBuf[b].data \in heap \cup {None}

(* The commands that have data to free, in a stage still to come.          *)
Waiting(q) == {q[i].cmd : i \in {j \in 1 .. Len(q) : q[j].func = "do"}}
Freeing == {c \in Waiting(fromEngine) \cup Waiting(toEngine) :
              mNextStage[c] > 2 /\ mFreeData[c] # None}

(* Data is freed once: what a command is to free is allocated, no other    *)
(* command is to free it, and no buffer of the mirror has it any more.     *)
FreedOnce ==
    /\ \A b \in Bufs : nrtBuf[b].data \in heap \cup {None}
    /\ \A c \in Freeing :
          /\ mFreeData[c] \in heap
          /\ \A d \in Freeing : mFreeData[d] = mFreeData[c] => c = d
          /\ \A b \in Bufs : nrtBuf[b].data # mFreeData[c]

(* When no command is under way and none was lost, both threads'           *)
(* descriptors name the same data and are of one mind about its room, even *)
(* after there was no memory, and no other data is allocated.              *)
Quiet == packets = <<>> /\ fromEngine = <<>> /\ toEngine = <<>>
Contents(buf) == <<buf.data, buf.room>>
MirrorsAgree ==
    Quiet /\ Lost = {} =>
             /\ \A b \in Bufs : Contents(rtBuf[b]) = Contents(nrtBuf[b])
             /\ heap = {nrtBuf[b].data : b \in Bufs} \ {None}

(* The audio thread's descriptor of a buffer with data has a sample rate   *)
(* that some command gave it.                                              *)
RatesKnown == \A b \in Bufs : rtBuf[b].data # None => rtBuf[b].rate # "undefined"

(* The open files are the ones the mirror names, whatever fails: nothing   *)
(* else could close them.                                                  *)
FilesAccountedFor == openFiles = {nrtBuf[b].sndfile : b \in Bufs} \ {None}

(* World_Cleanup closes the mirror's files, and the other descriptor's if  *)
(* they are other files: those are open.                                   *)
FilesOfCleanup(b) ==
    {nrtBuf[b].sndfile, rtBuf[b].sndfile} \ {None}
CleanupClosesOpenFiles ==
    audio = "out" /\ nrt # "performing" => \A b \in Bufs : FilesOfCleanup(b) \subseteq openFiles

(* A copy is made from what the commands before it made of its source.     *)
CopiesAreCurrent == staleCopies = {}
=============================================================================
