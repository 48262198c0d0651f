---------------------------- MODULE DriverThread ----------------------------
(***************************************************************************)
(* The non-real-time thread of a driver (SC_AudioDriver::RunThread), the   *)
(* condition it waits for (SC_SyncCondition) and the end of the server.    *)
(* Signal takes no mutex, so that the audio callback never waits: it may   *)
(* come between any two steps of WaitNext.  Of the counters read and write *)
(* only their equality is tested, so only that is kept: the audio thread   *)
(* would have to be 2^32 callbacks ahead for them to be equal by chance.   *)
(***************************************************************************)

VARIABLES
    signalled,    \* read # write, of mAudioSync
    mRunThreadFlag,
    thread,       \* test: the loop's condition, enter: calls WaitNext,
                  \* entered: read = write was assigned, caughtUp: and
                  \* tested, wait: in pthread_cond_wait, woken: it
                  \* returned, perform, ended
    callback,     \* idle, run, written: in Signal; stopped
    main,         \* run, then World_Cleanup: stopping, clear the flag,
                  \* count and signal, join, cleaned
    work,         \* there are messages in mFromEngine
    quit          \* none, sent: in mFromEngine; released: mQuitProgram

driverVars == <<signalled, mRunThreadFlag, thread, callback, main, work, quit>>

DriverInit ==
    /\ signalled = FALSE
    /\ mRunThreadFlag = TRUE
    /\ thread = "test" /\ callback = "idle" /\ main = "run"
    /\ work = FALSE /\ quit = "none"

-----------------------------------------------------------------------------
\* (faulty variant: the waiting thread is not signalled)
CondSignalNobody == UNCHANGED thread

(* Signal: the counter, then the condition variable, which wakes a thread  *)
(* that waits at that moment.                                              *)
CountSignal == signalled' = TRUE
CondSignal == thread' = IF thread = "wait" THEN "woken" ELSE thread

(* The host calls the audio callback; it may write to mFromEngine, the     *)
(* last stage of a /quit among the messages, and signals at its end.       *)
Callback ==
    /\ callback = "idle" /\ callback' = "run"
    /\ work' \in {work, TRUE}
    /\ quit' \in {quit} \cup (IF quit = "none" /\ work' THEN {"sent"} ELSE {})
    /\ UNCHANGED <<signalled, mRunThreadFlag, thread, main>>

CallbackCounts ==
    /\ callback = "run" /\ callback' = "written"
    /\ CountSignal
    /\ UNCHANGED <<mRunThreadFlag, thread, main, work, quit>>

CallbackSignals ==
    /\ callback = "written" /\ callback' = "idle"
    /\ CondSignal
    /\ UNCHANGED <<signalled, mRunThreadFlag, main, work, quit>>

-----------------------------------------------------------------------------
Thread(from, to) ==
    /\ thread = from /\ thread' = to
    /\ UNCHANGED <<mRunThreadFlag, callback, main>>

LoopTest ==
    /\ Thread("test", IF mRunThreadFlag THEN "enter" ELSE "ended")
    /\ UNCHANGED <<signalled, work, quit>>

(* WaitNext: read = write, then the test, then pthread_cond_wait.          *)
Enter ==
    /\ Thread("enter", "entered")
    /\ signalled' = FALSE
    /\ UNCHANGED <<work, quit>>

Test ==
    /\ \E from \in {"entered", "woken"} :
          Thread(from, IF signalled THEN "perform" ELSE "caughtUp")
    /\ UNCHANGED <<signalled, work, quit>>

CondWait ==
    /\ Thread("caughtUp", "wait")
    /\ UNCHANGED <<signalled, work, quit>>

SpuriousWakeup ==
    /\ Thread("wait", "woken")
    /\ UNCHANGED <<signalled, work, quit>>

(* All messages are performed; the one of /quit releases mQuitProgram.     *)
Perform ==
    /\ Thread("perform", "test")
    /\ work' = FALSE
    /\ quit' = IF quit = "sent" THEN "released" ELSE quit
    /\ UNCHANGED signalled

-----------------------------------------------------------------------------
Main(from, to) == main = from /\ main' = to

(* World_WaitForQuit, and World_Cleanup up to the end of the thread; a     *)
(* callback that is under way ends before the driver has stopped.          *)
WaitForQuit ==
    /\ Main("run", "stopping") /\ quit = "released"
    /\ UNCHANGED <<signalled, mRunThreadFlag, thread, callback, work, quit>>

\* (faulty variant: the driver is not waited for)
DriverStopAtOnce ==
    /\ Main("stopping", "clear")
    /\ UNCHANGED <<signalled, mRunThreadFlag, thread, callback, work, quit>>

DriverStop ==
    /\ Main("stopping", "clear")
    /\ callback = "idle" /\ callback' = "stopped"
    /\ UNCHANGED <<signalled, mRunThreadFlag, thread, work, quit>>

(* ~SC_AudioDriver.                                                        *)
ClearFlag ==
    /\ Main("clear", "count")
    /\ mRunThreadFlag' = FALSE
    /\ UNCHANGED <<signalled, thread, callback, work, quit>>

MainCounts ==
    /\ Main("count", "signal")
    /\ CountSignal
    /\ UNCHANGED <<mRunThreadFlag, thread, callback, work, quit>>

MainSignals ==
    /\ Main("signal", "join")
    /\ CondSignal
    /\ UNCHANGED <<signalled, mRunThreadFlag, callback, work, quit>>

Join ==
    /\ Main("join", "cleaned") /\ thread = "ended"
    /\ UNCHANGED <<signalled, mRunThreadFlag, thread, callback, work, quit>>

-----------------------------------------------------------------------------
AudioThread == Callback \/ CallbackCounts \/ CallbackSignals
NRTThread == LoopTest \/ Enter \/ Test \/ CondWait \/ Perform
MainThread == \/ WaitForQuit \/ DriverStop \/ ClearFlag \/ MainCounts \/ MainSignals
              \/ Join

DriverNext == AudioThread \/ NRTThread \/ SpuriousWakeup \/ MainThread

(* The host calls back for ever until the driver stops, and both other     *)
(* threads are scheduled.  No spurious wakeup can be counted on.           *)
DriverSpec == DriverInit /\ [][DriverNext]_driverVars
DriverFairSpec ==
    /\ DriverSpec
    /\ WF_driverVars(AudioThread) /\ WF_driverVars(NRTThread) /\ WF_driverVars(MainThread)

-----------------------------------------------------------------------------
(* One thread at a time signals, as SC_SyncCondition expects: the one that *)
(* ends the server does so when no callback can.                           *)
OneSignaller == main \in {"count", "signal"} => callback \notin {"run", "written"}

(* While the host calls back, messages do not stay in mFromEngine: a       *)
(* signal that comes between two steps of WaitNext is lost, the next is    *)
(* not (RunThread and Signal).                                             *)
MessagesPerformed == work ~> (~work \/ callback = "stopped")

(* The server exits when a client has asked for it (SC_AudioDriver.h,      *)
(* World_WaitForQuit).                                                     *)
QuitCompletes == quit = "sent" ~> main = "cleaned"
=============================================================================
