----------------------------- MODULE LibPinmame -----------------------------
(***************************************************************************)
(* The life of a game in libpinmame (src/src/libpinmame/libpinmame.cpp).   *)
(*                                                                         *)
(* Two threads: the host's main thread, which calls the API and runs the   *)
(* callbacks posted with RunOnMainThread, and the game thread of           *)
(* PinmameRun, which runs StartGame -> run_game -> cpu_run.  They share    *)
(* _isRunning, a few flags without a lock, and the callbacks in flight.    *)
(*                                                                         *)
(* An API call that tests _isRunning under the shared lock of _stateMutex  *)
(* is one step: the game thread cannot change _isRunning inside it.        *)
(* (WriteMemory, which waits under that lock, is module HostWrite.)        *)
(* Assertions are compiled out, as in a release build.  Left out: the      *)
(* display list, game definitions, and anything a callback computes.       *)
(***************************************************************************)
EXTENDS Integers, SequencesExt

CONSTANTS
  HasMsgApi,    \* whether the host set a message API (PinmameSetMsgAPI)
  OtherThreads, \* whether host threads other than the main one call the API
  MaxRuns,      \* bound: successful calls of PinmameRun
  MaxResets     \* bound: calls of machine_reset

ASSUME LibAssumption ==
  /\ HasMsgApi \in BOOLEAN
  /\ OtherThreads \in BOOLEAN
  /\ MaxRuns \in Nat
  /\ MaxResets \in Nat

\* The values of _isRunning.
Stopped  == 0
Running  == 1
Starting == 2
Stopping == 3

NoThread == 0   \* nullptr of _p_gameThread, and the id of no thread

VARIABLES
  isRunning,      \* _isRunning
  hostTimeToQuit, \* _timeToQuit
  g_fPause,
  p_gameThread,   \* _p_gameThread: the run whose thread it is, or NoThread
  gameThreadId,   \* _gameThreadId: the run whose thread it is, or NoThread
  registered,     \* msgLocals.registered
  mainQueue,      \* callbacks posted to the main thread and not yet run
  hpc,            \* where the main thread is in PinmameStop
  gpc,            \* where the game thread is
  leaving,        \* threads past OnStateChange(0) that have not yet returned
  time_to_quit, time_to_reset,   \* of cpuexec.c
  runs, resets,   \* counters for the bounds; `runs` also names the thread
  reset_owed      \* history: a reset was requested and no stop followed yet

stateVars == <<isRunning, registered, mainQueue>>
flagVars  == <<hostTimeToQuit, g_fPause>>
idVars    == <<p_gameThread, gameThreadId, leaving, runs>>
cpuVars   == <<time_to_quit, time_to_reset, resets, reset_owed>>
vars == <<stateVars, flagVars, idVars, cpuVars, hpc, gpc>>

HostPC == {"idle", "unpause", "quit", "join"}
GamePC == {"none", "begin", "init", "prerun", "announce", "prerest", "loop",
           "slice", "paused", "poll", "machinestop", "tellstop", "waitmain",
           "stopped", "end"}

Init ==
  /\ isRunning = Stopped
  /\ hostTimeToQuit = FALSE
  /\ g_fPause = FALSE
  /\ p_gameThread = NoThread
  /\ gameThreadId = NoThread
  /\ registered = FALSE
  /\ mainQueue = <<>>
  /\ hpc = "idle"
  /\ gpc = "none"
  /\ leaving = {}
  /\ time_to_quit = FALSE
  /\ time_to_reset = 0
  /\ runs = 0
  /\ resets = 0
  /\ reset_owed = FALSE

-----------------------------------------------------------------------------
(***************************************************************************)
(* The host.                                                               *)
(***************************************************************************)

\* Faulty variant: only a running game refuses a second one, not one that
\* starts or stops.
PinmameRun_NotRunning ==
  /\ hpc = "idle"
  /\ isRunning # Running
  /\ runs < MaxRuns
  /\ isRunning' = Starting
  /\ runs' = runs + 1
  /\ p_gameThread' = runs + 1
  /\ gpc' = "begin"
  /\ UNCHANGED <<registered, mainQueue, flagVars, gameThreadId, leaving,
                 cpuVars, hpc>>

\* PinmameRun
PinmameRun ==
  /\ hpc = "idle"
  /\ isRunning = Stopped
  /\ runs < MaxRuns
  /\ isRunning' = Starting
  /\ runs' = runs + 1
  /\ p_gameThread' = runs + 1
  /\ gpc' = "begin"
  /\ UNCHANGED <<registered, mainQueue, flagVars, gameThreadId, leaving,
                 cpuVars, hpc>>

(***************************************************************************)
(* PinmameStop: OnGameEnd on the calling thread, then, if there is a       *)
(* thread to stop, the two flags, the join, and the clean-up.              *)
(***************************************************************************)
StopBegin ==
  /\ hpc = "idle"
  /\ registered' = FALSE
  /\ IF p_gameThread = NoThread
     THEN isRunning' = Stopped /\ hpc' = "idle"
     ELSE UNCHANGED isRunning /\ hpc' = "unpause"
  /\ UNCHANGED <<mainQueue, flagVars, idVars, cpuVars, gpc>>

StopUnpause ==
  /\ hpc = "unpause"
  /\ g_fPause' = FALSE
  /\ hpc' = "quit"
  /\ UNCHANGED <<stateVars, hostTimeToQuit, idVars, cpuVars, gpc>>

\* Faulty variant: the game thread is not told to quit.
StopQuit_Untold ==
  /\ hpc = "quit"
  /\ hpc' = "join"
  /\ UNCHANGED <<stateVars, flagVars, idVars, cpuVars, gpc>>

StopQuit ==
  /\ hpc = "quit"
  /\ hostTimeToQuit' = TRUE
  /\ hpc' = "join"
  /\ UNCHANGED <<stateVars, g_fPause, idVars, cpuVars, gpc>>

Returned(t) == t \notin leaving /\ (t = runs => gpc = "none")

\* Faulty variant: the thread object is dropped without waiting for it.
StopJoined_Detach ==
  /\ hpc = "join"
  /\ p_gameThread' = NoThread
  /\ hostTimeToQuit' = FALSE
  /\ hpc' = "idle"
  /\ UNCHANGED <<stateVars, g_fPause, gameThreadId, leaving, runs, cpuVars,
                 gpc>>

StopJoined ==
  /\ hpc = "join"
  /\ Returned(p_gameThread)
  /\ p_gameThread' = NoThread
  /\ hostTimeToQuit' = FALSE
  /\ isRunning' = Stopped
  /\ hpc' = "idle"
  /\ UNCHANGED <<registered, mainQueue, g_fPause, gameThreadId, leaving, runs,
                 cpuVars, gpc>>

(***************************************************************************)
(* Calls that any thread of the host may make while the emulation runs.    *)
(***************************************************************************)
ApiCall == isRunning = Running /\ (hpc = "idle" \/ OtherThreads)

\* Faulty variant: requests are counted.
MachineReset_Counted ==
  /\ resets < MaxResets
  /\ resets' = resets + 1
  /\ time_to_reset' = time_to_reset + 1
  /\ reset_owed' = TRUE

\* machine_reset
MachineReset ==
  /\ resets < MaxResets
  /\ resets' = resets + 1
  /\ time_to_reset' = 1
  /\ reset_owed' = TRUE

PinmameReset ==
  /\ ApiCall
  /\ MachineReset
  /\ UNCHANGED <<stateVars, flagVars, idVars, time_to_quit, hpc, gpc>>

PinmamePause ==
  /\ ApiCall
  /\ g_fPause' \in BOOLEAN
  /\ UNCHANGED <<stateVars, hostTimeToQuit, idVars, cpuVars, hpc, gpc>>

(***************************************************************************)
(* The main thread runs a posted callback: OnGameStart registers with the  *)
(* message API, OnGameEnd unregisters and releases the waiting game        *)
(* thread.                                                                 *)
(***************************************************************************)
OnGameStart ==
  /\ hpc = "idle"
  /\ mainQueue # <<>> /\ Head(mainQueue) = "start"
  /\ mainQueue' = Tail(mainQueue)
  /\ registered' = TRUE
  /\ UNCHANGED <<isRunning, flagVars, idVars, cpuVars, hpc, gpc>>

OnGameEnd ==
  /\ hpc = "idle"
  /\ mainQueue # <<>> /\ Head(mainQueue) = "end"
  /\ mainQueue' = Tail(mainQueue)
  /\ registered' = FALSE
  /\ gpc' = "stopped"
  /\ UNCHANGED <<isRunning, flagVars, idVars, cpuVars, hpc>>

-----------------------------------------------------------------------------
(***************************************************************************)
(* The game thread.                                                        *)
(***************************************************************************)
Go(from, to) == gpc = from /\ gpc' = to

StartGame ==
  /\ Go("begin", "init")
  /\ gameThreadId' = runs
  /\ UNCHANGED <<stateVars, flagVars, p_gameThread, leaving, runs, cpuVars,
                 hpc>>

\* run_game fails before cpu_run: ROMs missing, machine not started.
InitFails ==
  /\ Go("init", "end")
  /\ UNCHANGED <<stateVars, flagVars, idVars, cpuVars, hpc>>

CpuRun ==
  /\ Go("init", "prerun")
  /\ time_to_quit' = FALSE
  /\ UNCHANGED <<stateVars, flagVars, idVars, time_to_reset, resets,
                 reset_owed, hpc>>

\* cpu_pre_run up to the end of machine_init: OnStateChange(1).
PreRun ==
  /\ Go("prerun", "announce")
  /\ isRunning' = Running
  /\ UNCHANGED <<registered, mainQueue, flagVars, idVars, cpuVars, hpc>>

AnnounceStart ==
  /\ Go("announce", "prerest")
  /\ mainQueue' = IF HasMsgApi THEN Append(mainQueue, "start") ELSE mainQueue
  /\ UNCHANGED <<isRunning, registered, flagVars, idVars, cpuVars, hpc>>

\* The rest of cpu_pre_run, and time_to_reset = 0 in front of the loop.
PreRunDone ==
  /\ Go("prerest", "loop")
  /\ time_to_reset' = 0
  /\ UNCHANGED <<stateVars, flagVars, idVars, time_to_quit, resets,
                 reset_owed, hpc>>

Enough == time_to_quit \/ time_to_reset = 1

LoopAgain ==
  /\ ~Enough
  /\ Go("loop", "slice")
  /\ UNCHANGED <<stateVars, flagVars, idVars, cpuVars, hpc>>

LoopExit ==
  /\ Enough
  /\ Go("loop", "machinestop")
  /\ UNCHANGED <<stateVars, flagVars, idVars, cpuVars, hpc>>

\* A timeslice in which the game resets the machine (watchdog, pinheck).
SelfReset ==
  /\ gpc = "slice"
  /\ MachineReset
  /\ UNCHANGED <<stateVars, flagVars, idVars, time_to_quit, hpc, gpc>>

\* A timeslice without a frame in it.
Slice ==
  /\ Go("slice", "poll")
  /\ UNCHANGED <<stateVars, flagVars, idVars, cpuVars, hpc>>

(***************************************************************************)
(* A timeslice that updates the screen.  updatescreen stays in the pause   *)
(* loop of usrintrf.c while g_fPause is set, and says whether the player   *)
(* pressed the quit key.                                                   *)
(***************************************************************************)
PauseLoop ==
  /\ g_fPause
  /\ Go("slice", "paused")
  /\ UNCHANGED <<stateVars, flagVars, idVars, cpuVars, hpc>>

\* The player's pause key, looked at once a frame, and in the pause loop.
PauseKey ==
  /\ gpc \in {"slice", "paused"}
  /\ gpc' = "paused"
  /\ g_fPause' = (gpc = "slice")
  /\ UNCHANGED <<stateVars, hostTimeToQuit, idVars, cpuVars, hpc>>

\* The player's quit key in the pause loop, which leaves the game paused.
QuitPaused ==
  /\ Go("paused", "poll")
  /\ g_fPause
  /\ time_to_quit' = TRUE
  /\ UNCHANGED <<stateVars, flagVars, idVars, time_to_reset, resets,
                 reset_owed, hpc>>

Frame ==
  /\ \/ gpc = "slice"
     \/ gpc = "paused"
  /\ ~g_fPause
  /\ gpc' = "poll"
  /\ time_to_quit' \in BOOLEAN
  /\ UNCHANGED <<stateVars, flagVars, idVars, time_to_reset, resets,
                 reset_owed, hpc>>

\* libpinmame_time_to_quit
Poll ==
  /\ Go("poll", "loop")
  /\ time_to_quit' = (time_to_quit \/ hostTimeToQuit)
  /\ UNCHANGED <<stateVars, flagVars, idVars, time_to_reset, resets,
                 reset_owed, hpc>>

\* cpu_post_run: machine_stop calls OnStateChange(3).
MachineStop ==
  /\ Go("machinestop", "tellstop")
  /\ isRunning' = Stopping
  /\ reset_owed' = FALSE
  /\ UNCHANGED <<registered, mainQueue, flagVars, idVars, time_to_quit,
                 time_to_reset, resets, hpc>>

\* Faulty variant: the end is posted like the start, and nobody waits.
TellStop_Async ==
  /\ gpc = "tellstop"
  /\ gpc' = "stopped"
  /\ mainQueue' = IF registered THEN Append(mainQueue, "end") ELSE mainQueue
  /\ UNCHANGED <<isRunning, registered, flagVars, idVars, cpuVars, hpc>>

\* Then, if registered, it blocks until the main thread has run OnGameEnd.
TellStop ==
  /\ gpc = "tellstop"
  /\ IF HasMsgApi /\ registered
     THEN mainQueue' = Append(mainQueue, "end") /\ gpc' = "waitmain"
     ELSE UNCHANGED mainQueue /\ gpc' = "stopped"
  /\ UNCHANGED <<isRunning, registered, flagVars, idVars, cpuVars, hpc>>

PostRunDone ==
  /\ gpc = "stopped"
  /\ gpc' = IF time_to_quit THEN "end" ELSE "prerun"
  /\ UNCHANGED <<stateVars, flagVars, idVars, cpuVars, hpc>>

\* Faulty variant: a run that failed early does not report the stop.
GameEnded_Silent ==
  /\ Go("end", "none")
  /\ leaving' = leaving \cup {runs}
  /\ isRunning' = IF isRunning = Starting THEN Starting ELSE Stopped
  /\ UNCHANGED <<registered, mainQueue, flagVars, p_gameThread, gameThreadId,
                 runs, cpuVars, hpc>>

\* StartGame after run_game: OnStateChange(0).
GameEnded ==
  /\ Go("end", "none")
  /\ leaving' = leaving \cup {runs}
  /\ isRunning' = Stopped
  /\ UNCHANGED <<registered, mainQueue, flagVars, p_gameThread, gameThreadId,
                 runs, cpuVars, hpc>>

\* The last assignment of StartGame, and the end of the thread.
ThreadReturns ==
  /\ \E t \in leaving : leaving' = leaving \ {t}
  /\ gameThreadId' = NoThread
  /\ UNCHANGED <<stateVars, flagVars, p_gameThread, runs, cpuVars, hpc, gpc>>

-----------------------------------------------------------------------------
Stop == StopBegin \/ StopUnpause \/ StopQuit \/ StopJoined
Callback == OnGameStart \/ OnGameEnd
Game ==
  \/ StartGame \/ InitFails \/ CpuRun \/ PreRun \/ AnnounceStart \/ PreRunDone
  \/ LoopAgain \/ LoopExit \/ Slice \/ PauseLoop \/ Frame \/ Poll
  \/ MachineStop \/ TellStop \/ PostRunDone \/ GameEnded

Next == \/ PinmameRun \/ PinmameReset \/ PinmamePause \/ SelfReset
        \/ PauseKey \/ QuitPaused
        \/ Stop \/ Callback \/ Game \/ ThreadReturns

(***************************************************************************)
(* Both threads are scheduled, a stop once begun runs on, and the host     *)
(* pumps its callbacks between calls.  Nothing makes the host call         *)
(* anything or the player unpause.                                         *)
(***************************************************************************)
Fairness ==
  /\ WF_vars(Game)
  /\ WF_vars(ThreadReturns)
  /\ WF_vars(StopUnpause) /\ WF_vars(StopQuit) /\ WF_vars(StopJoined)
  /\ WF_vars(Callback)

Spec == Init /\ [][Next]_vars /\ Fairness

-----------------------------------------------------------------------------
(***************************************************************************)
(* Properties.                                                             *)
(***************************************************************************)

TypeOK ==
  /\ isRunning \in {Stopped, Running, Starting, Stopping}
  /\ hostTimeToQuit \in BOOLEAN /\ g_fPause \in BOOLEAN
  /\ p_gameThread \in NoThread .. runs /\ gameThreadId \in NoThread .. runs
  /\ registered \in BOOLEAN
  /\ mainQueue \in Seq({"start", "end"})
  /\ hpc \in HostPC /\ gpc \in GamePC
  /\ leaving \subseteq 1 .. runs
  /\ time_to_quit \in BOOLEAN /\ time_to_reset \in {0, 1}
  /\ runs \in 0 .. MaxRuns /\ resets \in 0 .. MaxResets
  /\ reset_owed \in BOOLEAN

\* Whatever the emulation does, PinmameStop can reach it: while any game
\* thread is emulating, _p_gameThread is that thread, so a stop never returns
\* with a machine still running behind it.
StoppableWhileEmulating == gpc # "none" => p_gameThread = runs

\* "forcing stopped state" (libpinmame.cpp:1564-1567, 1590-1593) is never
\* needed: without a game thread, and after the join, the state is 0 already.
NeverForcedToStop ==
  /\ hpc = "idle" /\ p_gameThread = NoThread => isRunning = Stopped
  /\ hpc = "join" /\ Returned(p_gameThread) => isRunning = Stopped

\* The blocking OnGameEnd request and the game thread waiting for it go
\* together: a request is neither lost nor run with nobody waiting, however
\* stops, resets and starts interleave.
EndRequestHasItsWaiter ==
  (gpc = "waitmain") <=> (\E i \in DOMAIN mainQueue : mainQueue[i] = "end")

\* The run state follows its documented round (libpinmame.cpp:57-58): started
\* from 0 only, 1 and 3 in turn while the machine is reset, and 0 once per run,
\* when the game thread waits for nobody and before the stop that joins it
\* returns.  The two threads change it, and the flags and callbacks behind it,
\* in the steps of GameLife and in no others.
Life == INSTANCE GameLife WITH
  state    <- isRunning,
  handle   <- p_gameThread # NoThread,
  stopping <- hpc # "idle",
  waiting  <- gpc = "waitmain"

KeepsGameLife == Life!Spec

\* A stop returns, unless the game thread had already decided to wait for the
\* main thread, which is then in the join, or the player pauses the game after
\* the stop has lifted the pause: only those two races can hang a stop.
StopReturns ==
  hpc = "join" ~> \/ hpc = "idle"
                  \/ gpc = "waitmain"
                  \/ gpc = "paused" /\ g_fPause

\* libpinmame.cpp:860-861: "Stopping is supposed to happen as a consequence of
\* a stop request, so we should never end here in a registered state".
NeverStoppedRegistered == gpc = "tellstop" => ~registered

\* libpinmame.cpp:3176-3177: "The API only covers a running controller ... we
\* do not have anything to register if we are not running".
OnlyRunningRegisters == [][registered' /\ ~registered => isRunning = Running]_vars

\* cpuexec.c:511-512: machine_reset will "Force a reset at the end of this
\* timeslice": a request stays pending until the machine has been stopped.
ResetIsKept == reset_owed => time_to_reset = 1

=============================================================================
