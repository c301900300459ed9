------------------------- MODULE RemoteDebugProofs -------------------------
(***************************************************************************)
(* Proofs about RemoteDebug, for any number of CPUs, any share of a slice, *)
(* any size of the breakpoint table and any number of requests.            *)
(***************************************************************************)
EXTENDS RemoteDebug, TLAPS

-----------------------------------------------------------------------------
(***************************************************************************)
(* Types.                                                                  *)
(***************************************************************************)

\* Before cpu_run the flags of remote_debug_init have their types.
LEMMA TypeInit == Init => TypeOK
<1> SUFFICES ASSUME Init PROVE TypeOK
  OBVIOUS
<1>1. FlagTypes
  BY DEF Init, FlagTypes
<1>2. PlaceTypes
  BY DEF Init, PlaceTypes, GamePC, GameLocked, HttpPC, HttpLocked, HttpWants
<1>3. CountTypes
  BY DebugAssumption DEF Init, CountTypes, CPU
<1>4. PointTypes
  BY DebugAssumption DEF Init, PointTypes
<1>5. QED BY <1>1, <1>2, <1>3, <1>4 DEF TypeOK

\* The flags stay Boolean.
LEMMA FlagStep ==
  ASSUME FlagTypes, [Next]_vars
  PROVE  FlagTypes'
<1>1. CASE CpuRun
  <2>1. CASE ClearReset
    BY <2>1 DEF FlagTypes, ClearReset, Game, flags, httpVars
  <2>2. CASE ResetDone
    BY <2>2 DEF FlagTypes, ResetDone, Game, runVars, httpVars
  <2>3. CASE StopServer
    BY <2>3 DEF FlagTypes, StopServer, flags, runVars, gameVars
  <2>4. CASE PreRun \/ PreRunDone \/ Loop \/ PostRun \/ PostRunDone \/ Joined
    BY <2>4 DEF FlagTypes, PreRun, flags, runVars, httpVars, PreRunDone, Loop,
       Goes, PostRun, PostRunDone, Joined
  <2>5. QED BY <1>1, <2>1, <2>2, <2>3, <2>4 DEF CpuRun
<1>2. CASE Slice
  <2>1. CASE QuitSlice
    BY <2>1 DEF FlagTypes, QuitSlice, Free, flags, httpVars
  <2>2. CASE ReturnUnrun
    BY <2>2 DEF FlagTypes, ReturnUnrun, Free, flags, httpVars
  <2>3. CASE Park \/ RunSlice \/ Unpark \/ RunAfterPause
    BY <2>3 DEF FlagTypes, Park, Goes, flags, runVars, httpVars, RunSlice,
       Unpark, RunAfterPause
  <2>4. QED BY <1>2, <2>1, <2>2, <2>3 DEF Slice
<1>3. CASE Instruct
  <2>1. CASE Hit
    BY <2>1 DEF FlagTypes, Hit, Game, runVars, httpVars
  <2>2. CASE BeginWait
    BY <2>2 DEF FlagTypes, BeginWait, Unlock, Game, Halts, runVars, httpVars
  <2>3. CASE TakeStep
    BY <2>3 DEF FlagTypes, TakeStep, Rewake, Game, LockAfterWait, Lock, Free,
       runVars, httpVars
  <2>4. CASE ExecuteWatched
    BY <2>4 DEF FlagTypes, ExecuteWatched, NextInstruction, BeginCpu, Executed,
       WatchHit, runVars, httpVars
  <2>5. CASE NoHit \/ PassHook \/ EndWait \/ AbortWait \/ Resumed \/ Execute
    BY <2>5 DEF FlagTypes, NoHit, Goes, flags, runVars, httpVars, PassHook,
       EndWait, AbortWait, Resumed, Execute
  <2>6. QED BY <1>3, <2>1, <2>2, <2>3, <2>4, <2>5 DEF Instruct
<1>4. CASE Frame
  <2>1. CASE MonitorBreak
    BY <2>1 DEF FlagTypes, MonitorBreak, Unlock, Game, runVars, httpVars
  <2>2. CASE KeyReset
    BY <2>2 DEF FlagTypes, KeyReset, Unlock, Game, flags, httpVars
  <2>3. CASE UpdateScreen
    BY <2>3 DEF FlagTypes, UpdateScreen, Unlock, Game, flags, httpVars
  <2>4. CASE Timers
    BY <2>4 DEF FlagTypes, Timers, flags, runVars, httpVars
  <2>5. QED BY <1>4, <2>1, <2>2, <2>3, <2>4 DEF Frame
<1>5. CASE Request
  <2>1. CASE Pause
    BY <2>1 DEF FlagTypes, Pause, Accept, Http, flags, runVars, gameVars
  <2>2. CASE Resume
    BY <2>2 DEF FlagTypes, Resume, Accept, Http, runVars, gameVars
  <2>3. CASE Step
    BY <2>3 DEF FlagTypes, Step, Accept, Http, runVars, gameVars
  <2>4. CASE Quit
    BY <2>4 DEF FlagTypes, Quit, Accept, Http, runVars, gameVars
  <2>5. CASE LockingRequest
    BY <2>5 DEF FlagTypes, LockingRequest, flags, runVars, gameVars
  <2>6. QED BY <1>5, <2>1, <2>2, <2>3, <2>4, <2>5 DEF Request
<1>6. CASE TakeLock
  <2>1. CASE StepOver
    BY <2>1 DEF FlagTypes, StepOver, Lock, Free, Http, runVars, gameVars
  <2>2. CASE Reset
    BY <2>2 DEF FlagTypes, Reset, Lock, Free, Http, runVars, gameVars
  <2>3. CASE Events \/ RunTo \/ EditPoints \/ Read
    BY <2>3 DEF FlagTypes, Events, flags, runVars, gameVars, RunTo, EditPoints,
       Read
  <2>4. QED BY <1>6, <2>1, <2>2, <2>3 DEF TakeLock
<1>7. CASE Serve
  <2>1. CASE PauseFlag
    BY <2>1 DEF FlagTypes, PauseFlag, Http, runVars, gameVars
  <2>2. CASE StepFlag
    BY <2>2 DEF FlagTypes, StepFlag, runVars, gameVars
  <2>3. CASE RunToFlag
    BY <2>3 DEF FlagTypes, RunToFlag, Unlock, Http, runVars, gameVars
  <2>4. CASE ResetFlag
    BY <2>4 DEF FlagTypes, ResetFlag, Unlock, Http, flags, gameVars
  <2>5. CASE ReadWatched
    BY <2>5 DEF FlagTypes, ReadWatched, Unlock, WatchHit, Http, runVars,
       gameVars
  <2>6. CASE Poll \/ NoRequest \/ PauseCpu \/ ReadDone
    BY <2>6 DEF FlagTypes, Poll, flags, runVars, gameVars, NoRequest, PauseCpu,
       ReadDone
  <2>7. QED BY <1>7, <2>1, <2>2, <2>3, <2>4, <2>5, <2>6 DEF Serve
<1>8. CASE UNCHANGED vars
  BY <1>8 DEF FlagTypes, vars, flags, runVars, gameVars, httpVars
<1>9. QED BY <1>1, <1>2, <1>3, <1>4, <1>5, <1>6, <1>7, <1>8 DEF Next, Emulator, Server

\* The threads go from one of their places to another.
LEMMA PlaceStep ==
  ASSUME PlaceTypes, [Next]_vars
  PROVE  PlaceTypes'
<1>1. CASE CpuRun
  <2>1. CASE PreRun
    BY <2>1 DEF PlaceTypes, GamePC, GameLocked, HttpPC, HttpLocked, HttpWants,
       PreRun, Lock, Free, Game, flags, runVars, httpVars
  <2>2. CASE PreRunDone
    BY <2>2 DEF PlaceTypes, GamePC, GameLocked, HttpPC, HttpLocked, HttpWants,
       PreRunDone, Unlock, Game, flags, runVars, httpVars
  <2>3. CASE ClearReset
    BY <2>3 DEF PlaceTypes, GamePC, GameLocked, HttpPC, HttpLocked, HttpWants,
       ClearReset, Game, flags, httpVars
  <2>4. CASE ResetDone
    BY <2>4 DEF PlaceTypes, GamePC, GameLocked, HttpPC, HttpLocked, HttpWants,
       ResetDone, Game, runVars, httpVars
  <2>5. CASE Loop
    BY <2>5 DEF PlaceTypes, GamePC, GameLocked, HttpPC, HttpLocked, HttpWants,
       Loop, Goes, Game, flags, runVars, httpVars
  <2>6. CASE PostRun
    BY <2>6 DEF PlaceTypes, GamePC, GameLocked, HttpPC, HttpLocked, HttpWants,
       PostRun, Lock, Free, Game, flags, runVars, httpVars
  <2>7. CASE PostRunDone
    BY <2>7 DEF PlaceTypes, GamePC, GameLocked, HttpPC, HttpLocked, HttpWants,
       PostRunDone, Unlock, Game, flags, runVars, httpVars
  <2>8. CASE Joined
    BY <2>8 DEF PlaceTypes, GamePC, GameLocked, HttpPC, HttpLocked, HttpWants,
       Joined, Goes, Game, flags, runVars, httpVars
  <2>9. CASE StopServer
    BY <2>9 DEF PlaceTypes, StopServer, flags, runVars, gameVars
  <2>10. QED BY <1>1, <2>1, <2>2, <2>3, <2>4, <2>5, <2>6, <2>7, <2>8, <2>9 DEF CpuRun
<1>2. CASE Slice
  <2>1. CASE QuitSlice
    BY <2>1 DEF PlaceTypes, GamePC, GameLocked, HttpPC, HttpLocked, HttpWants,
       QuitSlice, Free, flags, httpVars
  <2>2. CASE Park
    BY <2>2 DEF PlaceTypes, GamePC, GameLocked, HttpPC, HttpLocked, HttpWants,
       Park, Free, Goes, Game, IsPaused, flags, runVars, httpVars
  <2>3. CASE RunSlice
    BY <2>3 DEF PlaceTypes, GamePC, GameLocked, HttpPC, HttpLocked, HttpWants,
       RunSlice, Lock, Free, BeginCpu, IsPaused, flags, runVars, httpVars
  <2>4. CASE Unpark
    BY <2>4 DEF PlaceTypes, GamePC, GameLocked, HttpPC, HttpLocked, HttpWants,
       Unpark, Goes, Game, IsPaused, flags, runVars, httpVars
  <2>5. CASE ReturnUnrun
    BY <2>5 DEF PlaceTypes, GamePC, GameLocked, HttpPC, HttpLocked, HttpWants,
       ReturnUnrun, Free, flags, httpVars
  <2>6. CASE RunAfterPause
    BY <2>6 DEF PlaceTypes, GamePC, GameLocked, HttpPC, HttpLocked, HttpWants,
       RunAfterPause, Lock, Free, BeginCpu, flags, runVars, httpVars
  <2>7. QED BY <1>2, <2>1, <2>2, <2>3, <2>4, <2>5, <2>6 DEF Slice
<1>3. CASE Instruct
  <2>1. CASE Hit
    BY <2>1 DEF PlaceTypes, GamePC, GameLocked, HttpPC, HttpLocked, HttpWants,
       Hit, Game, runVars, httpVars
  <2>2. CASE NoHit
    BY <2>2 DEF PlaceTypes, GamePC, GameLocked, HttpPC, HttpLocked, HttpWants,
       NoHit, Goes, Game, HookLooks, flags, runVars, httpVars
  <2>3. CASE PassHook
    BY <2>3 DEF PlaceTypes, GamePC, GameLocked, HttpPC, HttpLocked, HttpWants,
       PassHook, Goes, Game, Halts, flags, runVars, httpVars
  <2>4. CASE BeginWait
    BY <2>4 DEF PlaceTypes, GamePC, GameLocked, HttpPC, HttpLocked, HttpWants,
       BeginWait, Unlock, Game, Halts, runVars, httpVars
  <2>5. CASE EndWait
    BY <2>5 DEF PlaceTypes, GamePC, GameLocked, HttpPC, HttpLocked, HttpWants,
       EndWait, Goes, Game, WaitOver, flags, runVars, httpVars
  <2>6. CASE AbortWait
    BY <2>6 DEF PlaceTypes, GamePC, GameLocked, HttpPC, HttpLocked, HttpWants,
       AbortWait, Rewake, Game, LockAfterWait, Lock, Free, flags, runVars,
       httpVars
  <2>7. CASE TakeStep
    BY <2>7 DEF PlaceTypes, GamePC, GameLocked, HttpPC, HttpLocked, HttpWants,
       TakeStep, Rewake, Game, LockAfterWait, Lock, Free, runVars, httpVars
  <2>8. CASE Resumed
    BY <2>8 DEF PlaceTypes, GamePC, GameLocked, HttpPC, HttpLocked, HttpWants,
       Resumed, Rewake, Game, LockAfterWait, Lock, Free, flags, runVars,
       httpVars
  <2>9. CASE Execute
    BY <2>9 DEF PlaceTypes, GamePC, GameLocked, HttpPC, HttpLocked, HttpWants,
       Execute, NextInstruction, BeginCpu, Executed, flags, runVars, httpVars
  <2>10. CASE ExecuteWatched
    BY <2>10 DEF PlaceTypes, GamePC, GameLocked, HttpPC, HttpLocked, HttpWants,
       ExecuteWatched, NextInstruction, BeginCpu, Executed, WatchHit, runVars,
       httpVars
  <2>11. QED BY <1>3, <2>1, <2>2, <2>3, <2>4, <2>5, <2>6, <2>7, <2>8, <2>9,
         <2>10 DEF Instruct
<1>4. CASE Frame
  <2>1. CASE Timers
    BY <2>1 DEF PlaceTypes, GamePC, GameLocked, HttpPC, HttpLocked, HttpWants,
       Timers, Unlock, Game, flags, runVars, httpVars
  <2>2. CASE MonitorBreak
    BY <2>2 DEF PlaceTypes, GamePC, GameLocked, HttpPC, HttpLocked, HttpWants,
       MonitorBreak, Unlock, Game, runVars, httpVars
  <2>3. CASE KeyReset
    BY <2>3 DEF PlaceTypes, GamePC, GameLocked, HttpPC, HttpLocked, HttpWants,
       KeyReset, Unlock, Game, flags, httpVars
  <2>4. CASE UpdateScreen
    BY <2>4 DEF PlaceTypes, GamePC, GameLocked, HttpPC, HttpLocked, HttpWants,
       UpdateScreen, Unlock, Game, flags, httpVars
  <2>5. QED BY <1>4, <2>1, <2>2, <2>3, <2>4 DEF Frame
<1>5. CASE Request
  <2>1. CASE Pause
    BY <2>1 DEF PlaceTypes, GamePC, GameLocked, HttpPC, HttpLocked, HttpWants,
       Pause, Accept, Http, flags, runVars, gameVars
  <2>2. CASE Resume
    BY <2>2 DEF PlaceTypes, GamePC, GameLocked, HttpPC, HttpLocked, HttpWants,
       Resume, Accept, Http, runVars, gameVars
  <2>3. CASE Step
    BY <2>3 DEF PlaceTypes, GamePC, GameLocked, HttpPC, HttpLocked, HttpWants,
       Step, Accept, Http, runVars, gameVars
  <2>4. CASE Quit
    BY <2>4 DEF PlaceTypes, GamePC, GameLocked, HttpPC, HttpLocked, HttpWants,
       Quit, Accept, Http, runVars, gameVars
  <2>5. CASE LockingRequest
    BY <2>5 DEF PlaceTypes, GamePC, GameLocked, HttpPC, HttpLocked, HttpWants,
       LockingRequest, Accept, Http, flags, runVars, gameVars
  <2>6. QED BY <1>5, <2>1, <2>2, <2>3, <2>4, <2>5 DEF Request
<1>6. CASE TakeLock
  <2>1. CASE Events
    BY <2>1 DEF PlaceTypes, GamePC, GameLocked, HttpPC, HttpLocked, HttpWants,
       Events, Free, Http, flags, runVars, gameVars
  <2>2. CASE StepOver
    BY <2>2 DEF PlaceTypes, GamePC, GameLocked, HttpPC, HttpLocked, HttpWants,
       StepOver, Lock, Free, Http, runVars, gameVars
  <2>3. CASE RunTo
    BY <2>3 DEF PlaceTypes, GamePC, GameLocked, HttpPC, HttpLocked, HttpWants,
       RunTo, Lock, Free, Room, flags, runVars, gameVars
  <2>4. CASE Reset
    BY <2>4 DEF PlaceTypes, GamePC, GameLocked, HttpPC, HttpLocked, HttpWants,
       Reset, Lock, Free, Http, runVars, gameVars
  <2>5. CASE EditPoints
    BY <2>5 DEF PlaceTypes, GamePC, GameLocked, HttpPC, HttpLocked, HttpWants,
       EditPoints, Free, Http, Room, flags, runVars, gameVars
  <2>6. CASE Read
    BY <2>6 DEF PlaceTypes, GamePC, GameLocked, HttpPC, HttpLocked, HttpWants,
       Read, Lock, Free, Http, flags, runVars, gameVars
  <2>7. QED BY <1>6, <2>1, <2>2, <2>3, <2>4, <2>5, <2>6 DEF TakeLock
<1>7. CASE Serve
  <2>1. CASE Poll
    BY <2>1 DEF PlaceTypes, GamePC, GameLocked, HttpPC, HttpLocked, HttpWants,
       Poll, Http, flags, runVars, gameVars
  <2>2. CASE NoRequest
    BY <2>2 DEF PlaceTypes, GamePC, GameLocked, HttpPC, HttpLocked, HttpWants,
       NoRequest, Http, flags, runVars, gameVars
  <2>3. CASE PauseCpu
    BY <2>3 DEF PlaceTypes, GamePC, GameLocked, HttpPC, HttpLocked, HttpWants,
       PauseCpu, Http, runVars, gameVars
  <2>4. CASE PauseFlag
    BY <2>4 DEF PlaceTypes, GamePC, GameLocked, HttpPC, HttpLocked, HttpWants,
       PauseFlag, Http, runVars, gameVars
  <2>5. CASE StepFlag
    BY <2>5 DEF PlaceTypes, GamePC, GameLocked, HttpPC, HttpLocked, HttpWants,
       StepFlag, runVars, gameVars
  <2>6. CASE RunToFlag
    BY <2>6 DEF PlaceTypes, GamePC, GameLocked, HttpPC, HttpLocked, HttpWants,
       RunToFlag, Unlock, Http, runVars, gameVars
  <2>7. CASE ResetFlag
    BY <2>7 DEF PlaceTypes, GamePC, GameLocked, HttpPC, HttpLocked, HttpWants,
       ResetFlag, Unlock, Http, flags, gameVars
  <2>8. CASE ReadDone
    BY <2>8 DEF PlaceTypes, GamePC, GameLocked, HttpPC, HttpLocked, HttpWants,
       ReadDone, Unlock, Http, flags, runVars, gameVars
  <2>9. CASE ReadWatched
    BY <2>9 DEF PlaceTypes, GamePC, GameLocked, HttpPC, HttpLocked, HttpWants,
       ReadWatched, Unlock, WatchHit, Http, runVars, gameVars
  <2>10. QED BY <1>7, <2>1, <2>2, <2>3, <2>4, <2>5, <2>6, <2>7, <2>8, <2>9 DEF Serve
<1>8. CASE UNCHANGED vars
  BY <1>8 DEF PlaceTypes, vars, flags, runVars, gameVars, httpVars
<1>9. QED BY <1>1, <1>2, <1>3, <1>4, <1>5, <1>6, <1>7, <1>8 DEF Next, Emulator, Server

\* The current CPU, the halted one and the counters stay in their ranges.
LEMMA CountStep ==
  ASSUME CountTypes, [Next]_vars
  PROVE  CountTypes'
<1>1. CASE CpuRun
  <2>1. CASE PreRun \/ PreRunDone \/ ClearReset \/ ResetDone \/ Loop \/ PostRun \/
            PostRunDone \/ StopServer \/ Joined
    BY <2>1 DEF CountTypes, PreRun, flags, runVars, httpVars, PreRunDone,
       ClearReset, ResetDone, Loop, Goes, PostRun, PostRunDone, StopServer,
       gameVars, Joined
  <2>2. QED BY <1>1, <2>1 DEF CpuRun
<1>2. CASE Slice
  <2>1. CASE RunSlice
    BY <2>1, DebugAssumption DEF CountTypes, CPU, RunSlice, Lock, Free,
       BeginCpu, IsPaused, flags, runVars, httpVars
  <2>2. CASE RunAfterPause
    BY <2>2, DebugAssumption DEF CountTypes, CPU, RunAfterPause, Lock, Free,
       BeginCpu, flags, runVars, httpVars
  <2>3. CASE QuitSlice \/ Park \/ Unpark \/ ReturnUnrun
    BY <2>3 DEF CountTypes, QuitSlice, flags, httpVars, Park, Goes, runVars,
       Unpark, ReturnUnrun
  <2>4. QED BY <1>2, <2>1, <2>2, <2>3 DEF Slice
<1>3. CASE Instruct
  <2>1. CASE Hit
    BY <2>1, DebugAssumption DEF CountTypes, CPU, Hit, Game, runVars, httpVars
  <2>2. CASE AbortWait
    BY <2>2, DebugAssumption DEF CountTypes, CPU, AbortWait, Rewake, Game,
       LockAfterWait, Lock, Free, flags, runVars, httpVars
  <2>3. CASE Execute
    BY <2>3, DebugAssumption DEF CountTypes, CPU, Execute, NextInstruction,
       BeginCpu, Executed, flags, runVars, httpVars
  <2>4. CASE ExecuteWatched
    BY <2>4, DebugAssumption DEF CountTypes, CPU, ExecuteWatched,
       NextInstruction, BeginCpu, Executed, WatchHit, runVars, httpVars
  <2>5. CASE NoHit \/ PassHook \/ BeginWait \/ EndWait \/ TakeStep \/ Resumed
    BY <2>5 DEF CountTypes, NoHit, Goes, flags, runVars, httpVars, PassHook,
       BeginWait, EndWait, TakeStep, Resumed
  <2>6. QED BY <1>3, <2>1, <2>2, <2>3, <2>4, <2>5 DEF Instruct
<1>4. CASE Frame
  <2>1. CASE Timers \/ MonitorBreak \/ KeyReset \/ UpdateScreen
    BY <2>1 DEF CountTypes, Timers, flags, runVars, httpVars, MonitorBreak,
       KeyReset, UpdateScreen
  <2>2. QED BY <1>4, <2>1 DEF Frame
<1>5. CASE Request
  <2>1. CASE Pause
    BY <2>1, DebugAssumption DEF CountTypes, CPU, Pause, Accept, Http, flags,
       runVars, gameVars
  <2>2. CASE Resume
    BY <2>2, DebugAssumption DEF CountTypes, CPU, Resume, Accept, Http,
       runVars, gameVars
  <2>3. CASE Step
    BY <2>3, DebugAssumption DEF CountTypes, CPU, Step, Accept, Http, runVars,
       gameVars
  <2>4. CASE Quit
    BY <2>4, DebugAssumption DEF CountTypes, CPU, Quit, Accept, Http, runVars,
       gameVars
  <2>5. CASE LockingRequest
    BY <2>5, DebugAssumption DEF CountTypes, CPU, LockingRequest, Accept, Http,
       flags, runVars, gameVars
  <2>6. QED BY <1>5, <2>1, <2>2, <2>3, <2>4, <2>5 DEF Request
<1>6. CASE TakeLock
  <2>1. CASE Events \/ StepOver \/ RunTo \/ Reset \/ EditPoints \/ Read
    BY <2>1 DEF CountTypes, Events, flags, runVars, gameVars, StepOver, RunTo,
       Reset, EditPoints, Read
  <2>2. QED BY <1>6, <2>1 DEF TakeLock
<1>7. CASE Serve
  <2>1. CASE PauseCpu
    BY <2>1, DebugAssumption DEF CountTypes, CPU, PauseCpu, Http, runVars,
       gameVars
  <2>2. CASE ReadWatched
    BY <2>2, DebugAssumption DEF CountTypes, CPU, ReadWatched, Unlock,
       WatchHit, Http, runVars, gameVars
  <2>3. CASE Poll \/ NoRequest \/ PauseFlag \/ StepFlag \/ RunToFlag \/ ResetFlag \/
            ReadDone
    BY <2>3 DEF CountTypes, Poll, flags, runVars, gameVars, NoRequest,
       PauseFlag, StepFlag, RunToFlag, ResetFlag, ReadDone
  <2>4. QED BY <1>7, <2>1, <2>2, <2>3 DEF Serve
<1>8. CASE UNCHANGED vars
  BY <1>8 DEF CountTypes, vars, flags, runVars, gameVars, httpVars
<1>9. QED BY <1>1, <1>2, <1>3, <1>4, <1>5, <1>6, <1>7, <1>8 DEF Next, Emulator, Server

\* Points are added only where there is room, by the client as by run to and
\* step over.
LEMMA PointStep ==
  ASSUME PointTypes, [Next]_vars
  PROVE  PointTypes'
<1>1. CASE CpuRun
  <2>1. CASE PreRun \/ PreRunDone \/ ClearReset \/ ResetDone \/ Loop \/ PostRun \/
            PostRunDone \/ StopServer \/ Joined
    BY <2>1 DEF PointTypes, PreRun, flags, runVars, httpVars, PreRunDone,
       ClearReset, ResetDone, Loop, Goes, PostRun, PostRunDone, StopServer,
       gameVars, Joined
  <2>2. QED BY <1>1, <2>1 DEF CpuRun
<1>2. CASE Slice
  <2>1. CASE QuitSlice \/ Park \/ RunSlice \/ Unpark \/ ReturnUnrun \/ RunAfterPause
    BY <2>1 DEF PointTypes, QuitSlice, flags, httpVars, Park, Goes, runVars,
       RunSlice, Unpark, ReturnUnrun, RunAfterPause
  <2>2. QED BY <1>2, <2>1 DEF Slice
<1>3. CASE Instruct
  <2>1. CASE Hit
    BY <2>1, DebugAssumption DEF PointTypes, Hit, Game, runVars, httpVars
  <2>2. CASE ExecuteWatched
    BY <2>2, DebugAssumption DEF PointTypes, ExecuteWatched, NextInstruction,
       BeginCpu, Executed, WatchHit, runVars, httpVars
  <2>3. CASE NoHit \/ PassHook \/ BeginWait \/ EndWait \/ AbortWait \/ TakeStep \/ Resumed \/
            Execute
    BY <2>3 DEF PointTypes, NoHit, Goes, flags, runVars, httpVars, PassHook,
       BeginWait, EndWait, AbortWait, TakeStep, Resumed, Execute
  <2>4. QED BY <1>3, <2>1, <2>2, <2>3 DEF Instruct
<1>4. CASE Frame
  <2>1. CASE Timers \/ MonitorBreak \/ KeyReset \/ UpdateScreen
    BY <2>1 DEF PointTypes, Timers, flags, runVars, httpVars, MonitorBreak,
       KeyReset, UpdateScreen
  <2>2. QED BY <1>4, <2>1 DEF Frame
<1>5. CASE Request
  <2>1. CASE Pause \/ Resume \/ Step \/ Quit \/ LockingRequest
    BY <2>1 DEF PointTypes, Pause, flags, runVars, gameVars, Resume, Step,
       Quit, LockingRequest
  <2>2. QED BY <1>5, <2>1 DEF Request
<1>6. CASE TakeLock
  <2>1. CASE RunTo
    <3>1. CASE Room
      <4>1. points' = [points EXCEPT !.temp = @ + 1]
        BY <2>1, <3>1 DEF RunTo
      <4>2. QED BY <3>1, <4>1, DebugAssumption DEF PointTypes, Room
    <3>2. CASE ~Room
      BY <2>1, <3>2 DEF PointTypes, RunTo
    <3>3. QED BY <3>1, <3>2
  <2>2. CASE EditPoints
    <3>1. CASE Room /\ points' = [points EXCEPT !.user = @ + 1]
      BY <3>1, DebugAssumption DEF PointTypes, Room
    <3>2. CASE points.user > 0 /\ points' = [points EXCEPT !.user = @ - 1]
      BY <3>2, DebugAssumption DEF PointTypes
    <3>3. CASE points.temp > 0 /\ points' = [points EXCEPT !.temp = @ - 1]
      BY <3>3, DebugAssumption DEF PointTypes
    <3>4. CASE points' = [points EXCEPT !.user = 0, !.temp = 0]
      <4>1. /\ points' = [user |-> 0, temp |-> 0, watch |-> points.watch]
            /\ points.watch \in 0 .. MaxHits
        BY <3>4 DEF PointTypes
      <4>2. QED BY <4>1, DebugAssumption DEF PointTypes
    <3>5. CASE points' = [points EXCEPT !.watch = IF @ = 0 THEN MaxHits ELSE 0]
      BY <3>5, DebugAssumption DEF PointTypes
    <3>6. QED BY <2>2, <3>1, <3>2, <3>3, <3>4, <3>5 DEF EditPoints
  <2>3. CASE Events \/ StepOver \/ Reset \/ Read
    BY <2>3 DEF PointTypes, Events, flags, runVars, gameVars, StepOver, Reset,
       Read
  <2>4. QED BY <1>6, <2>1, <2>2, <2>3 DEF TakeLock
<1>7. CASE Serve
  <2>1. CASE ReadWatched
    BY <2>1, DebugAssumption DEF PointTypes, ReadWatched, Unlock, WatchHit,
       Http, runVars, gameVars
  <2>2. CASE Poll \/ NoRequest \/ PauseCpu \/ PauseFlag \/ StepFlag \/ RunToFlag \/
            ResetFlag \/ ReadDone
    BY <2>2 DEF PointTypes, Poll, flags, runVars, gameVars, NoRequest,
       PauseCpu, PauseFlag, StepFlag, RunToFlag, ResetFlag, ReadDone
  <2>3. QED BY <1>7, <2>1, <2>2 DEF Serve
<1>8. CASE UNCHANGED vars
  BY <1>8 DEF PointTypes, vars, flags, runVars, gameVars, httpVars
<1>9. QED BY <1>1, <1>2, <1>3, <1>4, <1>5, <1>6, <1>7, <1>8 DEF Next, Emulator, Server

\* The types of the debugger's state; the breakpoints, the user's and the
\* temporary ones together, never outgrow their table.
THEOREM DebugTypeCorrect == Spec => []TypeOK
<1>1. TypeOK /\ [Next]_vars => TypeOK'
  BY FlagStep, PlaceStep, CountStep, PointStep DEF TypeOK
<1>2. QED BY <1>1, TypeInit, PTL DEF Spec

-----------------------------------------------------------------------------
(***************************************************************************)
(* The lock.                                                               *)
(***************************************************************************)

\* Each thread holds mame_mutex exactly in the phases that say so: no path
\* through the wait, the parking or an early return loses or keeps it.
LockInv ==
  /\ mame_mutex = "game" <=> gpc \in GameLocked
  /\ mame_mutex = "http" <=> hpc \in HttpLocked

\* Both threads start without the lock.
LEMMA LockInit == Init => LockInv
BY DEF Init, LockInv, GameLocked, HttpLocked

\* Every action that enters or leaves such a phase takes or gives back the
\* lock.
LEMMA LockStep ==
  ASSUME LockInv, [Next]_vars
  PROVE  LockInv'
<1>1. CASE CpuRun
  <2>1. CASE PreRun
    BY <2>1 DEF LockInv, GameLocked, HttpLocked, HttpWants, PreRun, Lock, Free,
       Game, flags, runVars, httpVars
  <2>2. CASE PreRunDone
    BY <2>2 DEF LockInv, GameLocked, HttpLocked, HttpWants, PreRunDone, Unlock,
       Game, flags, runVars, httpVars
  <2>3. CASE ClearReset
    BY <2>3 DEF LockInv, GameLocked, HttpLocked, HttpWants, ClearReset, Game,
       flags, httpVars
  <2>4. CASE ResetDone
    BY <2>4 DEF LockInv, GameLocked, HttpLocked, HttpWants, ResetDone, Game,
       runVars, httpVars
  <2>5. CASE Loop
    BY <2>5 DEF LockInv, GameLocked, HttpLocked, HttpWants, Loop, Goes, Game,
       flags, runVars, httpVars
  <2>6. CASE PostRun
    BY <2>6 DEF LockInv, GameLocked, HttpLocked, HttpWants, PostRun, Lock,
       Free, Game, flags, runVars, httpVars
  <2>7. CASE PostRunDone
    BY <2>7 DEF LockInv, GameLocked, HttpLocked, HttpWants, PostRunDone,
       Unlock, Game, flags, runVars, httpVars
  <2>8. CASE StopServer
    BY <2>8 DEF LockInv, GameLocked, HttpLocked, HttpWants, StopServer, flags,
       runVars, gameVars
  <2>9. CASE Joined
    BY <2>9 DEF LockInv, GameLocked, HttpLocked, HttpWants, Joined, Goes, Game,
       flags, runVars, httpVars
  <2>10. QED BY <1>1, <2>1, <2>2, <2>3, <2>4, <2>5, <2>6, <2>7, <2>8, <2>9 DEF CpuRun
<1>2. CASE Slice
  <2>1. CASE QuitSlice
    BY <2>1 DEF LockInv, GameLocked, HttpLocked, HttpWants, QuitSlice, Free,
       flags, httpVars
  <2>2. CASE Park
    BY <2>2 DEF LockInv, GameLocked, HttpLocked, HttpWants, Park, Free, Goes,
       Game, IsPaused, flags, runVars, httpVars
  <2>3. CASE RunSlice
    BY <2>3 DEF LockInv, GameLocked, HttpLocked, HttpWants, RunSlice, Lock,
       Free, BeginCpu, IsPaused, flags, runVars, httpVars
  <2>4. CASE Unpark
    BY <2>4 DEF LockInv, GameLocked, HttpLocked, HttpWants, Unpark, Goes, Game,
       IsPaused, flags, runVars, httpVars
  <2>5. CASE ReturnUnrun
    BY <2>5 DEF LockInv, GameLocked, HttpLocked, HttpWants, ReturnUnrun, Free,
       flags, httpVars
  <2>6. CASE RunAfterPause
    BY <2>6 DEF LockInv, GameLocked, HttpLocked, HttpWants, RunAfterPause,
       Lock, Free, BeginCpu, flags, runVars, httpVars
  <2>7. QED BY <1>2, <2>1, <2>2, <2>3, <2>4, <2>5, <2>6 DEF Slice
<1>3. CASE Instruct
  <2>1. CASE Hit
    BY <2>1 DEF LockInv, GameLocked, HttpLocked, HttpWants, Hit, Game, runVars,
       httpVars
  <2>2. CASE NoHit
    BY <2>2 DEF LockInv, GameLocked, HttpLocked, HttpWants, NoHit, Goes, Game,
       HookLooks, flags, runVars, httpVars
  <2>3. CASE PassHook
    BY <2>3 DEF LockInv, GameLocked, HttpLocked, HttpWants, PassHook, Goes,
       Game, Halts, flags, runVars, httpVars
  <2>4. CASE BeginWait
    BY <2>4 DEF LockInv, GameLocked, HttpLocked, HttpWants, BeginWait, Unlock,
       Game, Halts, runVars, httpVars
  <2>5. CASE EndWait
    BY <2>5 DEF LockInv, GameLocked, HttpLocked, HttpWants, EndWait, Goes,
       Game, WaitOver, flags, runVars, httpVars
  <2>6. CASE AbortWait
    BY <2>6 DEF LockInv, GameLocked, HttpLocked, HttpWants, AbortWait, Rewake,
       Game, LockAfterWait, Lock, Free, flags, runVars, httpVars
  <2>7. CASE TakeStep
    BY <2>7 DEF LockInv, GameLocked, HttpLocked, HttpWants, TakeStep, Rewake,
       Game, LockAfterWait, Lock, Free, runVars, httpVars
  <2>8. CASE Resumed
    BY <2>8 DEF LockInv, GameLocked, HttpLocked, HttpWants, Resumed, Rewake,
       Game, LockAfterWait, Lock, Free, flags, runVars, httpVars
  <2>9. CASE Execute
    BY <2>9 DEF LockInv, GameLocked, HttpLocked, HttpWants, Execute,
       NextInstruction, BeginCpu, Executed, flags, runVars, httpVars
  <2>10. CASE ExecuteWatched
    BY <2>10 DEF LockInv, GameLocked, HttpLocked, HttpWants, ExecuteWatched,
       NextInstruction, BeginCpu, Executed, WatchHit, runVars, httpVars
  <2>11. QED BY <1>3, <2>1, <2>2, <2>3, <2>4, <2>5, <2>6, <2>7, <2>8, <2>9,
         <2>10 DEF Instruct
<1>4. CASE Frame
  <2>1. CASE Timers
    BY <2>1 DEF LockInv, GameLocked, HttpLocked, HttpWants, Timers, Unlock,
       Game, flags, runVars, httpVars
  <2>2. CASE MonitorBreak
    BY <2>2 DEF LockInv, GameLocked, HttpLocked, HttpWants, MonitorBreak,
       Unlock, Game, runVars, httpVars
  <2>3. CASE KeyReset
    BY <2>3 DEF LockInv, GameLocked, HttpLocked, HttpWants, KeyReset, Unlock,
       Game, flags, httpVars
  <2>4. CASE UpdateScreen
    BY <2>4 DEF LockInv, GameLocked, HttpLocked, HttpWants, UpdateScreen,
       Unlock, Game, flags, httpVars
  <2>5. QED BY <1>4, <2>1, <2>2, <2>3, <2>4 DEF Frame
<1>5. CASE Request
  <2>1. CASE Pause
    BY <2>1 DEF LockInv, GameLocked, HttpLocked, HttpWants, Pause, Accept,
       Http, flags, runVars, gameVars
  <2>2. CASE Resume
    BY <2>2 DEF LockInv, GameLocked, HttpLocked, HttpWants, Resume, Accept,
       Http, runVars, gameVars
  <2>3. CASE Step
    BY <2>3 DEF LockInv, GameLocked, HttpLocked, HttpWants, Step, Accept, Http,
       runVars, gameVars
  <2>4. CASE Quit
    BY <2>4 DEF LockInv, GameLocked, HttpLocked, HttpWants, Quit, Accept, Http,
       runVars, gameVars
  <2>5. CASE LockingRequest
    BY <2>5 DEF LockInv, GameLocked, HttpLocked, HttpWants, LockingRequest,
       Accept, Http, flags, runVars, gameVars
  <2>6. QED BY <1>5, <2>1, <2>2, <2>3, <2>4, <2>5 DEF Request
<1>6. CASE TakeLock
  <2>1. CASE Events
    BY <2>1 DEF LockInv, GameLocked, HttpLocked, HttpWants, Events, Free, Http,
       flags, runVars, gameVars
  <2>2. CASE StepOver
    BY <2>2 DEF LockInv, GameLocked, HttpLocked, HttpWants, StepOver, Lock,
       Free, Http, runVars, gameVars
  <2>3. CASE RunTo
    BY <2>3 DEF LockInv, GameLocked, HttpLocked, HttpWants, RunTo, Lock, Free,
       Room, flags, runVars, gameVars
  <2>4. CASE Reset
    BY <2>4 DEF LockInv, GameLocked, HttpLocked, HttpWants, Reset, Lock, Free,
       Http, runVars, gameVars
  <2>5. CASE EditPoints
    BY <2>5 DEF LockInv, GameLocked, HttpLocked, HttpWants, EditPoints, Free,
       Http, Room, flags, runVars, gameVars
  <2>6. CASE Read
    BY <2>6 DEF LockInv, GameLocked, HttpLocked, HttpWants, Read, Lock, Free,
       Http, flags, runVars, gameVars
  <2>7. QED BY <1>6, <2>1, <2>2, <2>3, <2>4, <2>5, <2>6 DEF TakeLock
<1>7. CASE Serve
  <2>1. CASE Poll
    BY <2>1 DEF LockInv, GameLocked, HttpLocked, HttpWants, Poll, Http, flags,
       runVars, gameVars
  <2>2. CASE NoRequest
    BY <2>2 DEF LockInv, GameLocked, HttpLocked, HttpWants, NoRequest, Http,
       flags, runVars, gameVars
  <2>3. CASE PauseCpu
    BY <2>3 DEF LockInv, GameLocked, HttpLocked, HttpWants, PauseCpu, Http,
       runVars, gameVars
  <2>4. CASE PauseFlag
    BY <2>4 DEF LockInv, GameLocked, HttpLocked, HttpWants, PauseFlag, Http,
       runVars, gameVars
  <2>5. CASE StepFlag
    BY <2>5 DEF LockInv, GameLocked, HttpLocked, HttpWants, StepFlag, runVars,
       gameVars
  <2>6. CASE RunToFlag
    BY <2>6 DEF LockInv, GameLocked, HttpLocked, HttpWants, RunToFlag, Unlock,
       Http, runVars, gameVars
  <2>7. CASE ResetFlag
    BY <2>7 DEF LockInv, GameLocked, HttpLocked, HttpWants, ResetFlag, Unlock,
       Http, flags, gameVars
  <2>8. CASE ReadDone
    BY <2>8 DEF LockInv, GameLocked, HttpLocked, HttpWants, ReadDone, Unlock,
       Http, flags, runVars, gameVars
  <2>9. CASE ReadWatched
    BY <2>9 DEF LockInv, GameLocked, HttpLocked, HttpWants, ReadWatched,
       Unlock, WatchHit, Http, runVars, gameVars
  <2>10. QED BY <1>7, <2>1, <2>2, <2>3, <2>4, <2>5, <2>6, <2>7, <2>8, <2>9 DEF Serve
<1>8. CASE UNCHANGED vars
  BY <1>8 DEF LockInv, GameLocked, HttpLocked, HttpWants, vars, flags, runVars,
     gameVars, httpVars
<1>9. QED BY <1>1, <1>2, <1>3, <1>4, <1>5, <1>6, <1>7, <1>8 DEF Next, Emulator, Server

\* The HTTP thread looks at the machine only while it is at rest.
THEOREM MachineIsReadAtRest == Spec => []MachineReadAtRest
<1>1. LockInv /\ [Next]_vars => LockInv'
  BY LockStep
<1>2. LockInv => MachineReadAtRest
  BY DEF LockInv, MachineReadAtRest
<1>3. QED BY <1>1, <1>2, LockInit, PTL DEF Spec

-----------------------------------------------------------------------------
(***************************************************************************)
(* Resets.                                                                 *)
(***************************************************************************)

\* Nothing is pending at first.
LEMMA ResetInit == Init => ResetIsUnderWay
BY DEF Init, ResetIsUnderWay

\* The flag of the debugger is set before that of cpu_run and cleared after
\* it, so between the two threads none of the orders of the four writes leaves
\* the first alone.
LEMMA ResetStep ==
  ASSUME ResetIsUnderWay, [Next]_vars
  PROVE  ResetIsUnderWay'
<1>1. CASE CpuRun
  <2>1. CASE PreRun
    BY <2>1 DEF ResetIsUnderWay, PreRun, Lock, Free, Game, flags, runVars,
       httpVars
  <2>2. CASE PreRunDone
    BY <2>2 DEF ResetIsUnderWay, PreRunDone, Unlock, Game, flags, runVars,
       httpVars
  <2>3. CASE ClearReset
    BY <2>3 DEF ResetIsUnderWay, ClearReset, Game, flags, httpVars
  <2>4. CASE ResetDone
    BY <2>4 DEF ResetIsUnderWay, ResetDone, Game, runVars, httpVars
  <2>5. CASE Loop
    BY <2>5 DEF ResetIsUnderWay, Loop, Goes, Game, flags, runVars, httpVars
  <2>6. CASE PostRun
    BY <2>6 DEF ResetIsUnderWay, PostRun, Lock, Free, Game, flags, runVars,
       httpVars
  <2>7. CASE PostRunDone
    BY <2>7 DEF ResetIsUnderWay, PostRunDone, Unlock, Game, flags, runVars,
       httpVars
  <2>8. CASE StopServer
    BY <2>8 DEF ResetIsUnderWay, StopServer, flags, runVars, gameVars
  <2>9. CASE Joined
    BY <2>9 DEF ResetIsUnderWay, Joined, Goes, Game, flags, runVars, httpVars
  <2>10. QED BY <1>1, <2>1, <2>2, <2>3, <2>4, <2>5, <2>6, <2>7, <2>8, <2>9 DEF CpuRun
<1>2. CASE Slice
  <2>1. CASE QuitSlice
    BY <2>1 DEF ResetIsUnderWay, QuitSlice, Free, flags, httpVars
  <2>2. CASE Park
    BY <2>2 DEF ResetIsUnderWay, Park, Free, Goes, Game, IsPaused, flags,
       runVars, httpVars
  <2>3. CASE RunSlice
    BY <2>3 DEF ResetIsUnderWay, RunSlice, Lock, Free, BeginCpu, IsPaused,
       flags, runVars, httpVars
  <2>4. CASE Unpark
    BY <2>4 DEF ResetIsUnderWay, Unpark, Goes, Game, IsPaused, flags, runVars,
       httpVars
  <2>5. CASE ReturnUnrun
    BY <2>5 DEF ResetIsUnderWay, ReturnUnrun, Free, flags, httpVars
  <2>6. CASE RunAfterPause
    BY <2>6 DEF ResetIsUnderWay, RunAfterPause, Lock, Free, BeginCpu, flags,
       runVars, httpVars
  <2>7. QED BY <1>2, <2>1, <2>2, <2>3, <2>4, <2>5, <2>6 DEF Slice
<1>3. CASE Instruct
  <2>1. CASE Hit
    BY <2>1 DEF ResetIsUnderWay, Hit, Game, runVars, httpVars
  <2>2. CASE NoHit
    BY <2>2 DEF ResetIsUnderWay, NoHit, Goes, Game, HookLooks, flags, runVars,
       httpVars
  <2>3. CASE PassHook
    BY <2>3 DEF ResetIsUnderWay, PassHook, Goes, Game, Halts, flags, runVars,
       httpVars
  <2>4. CASE BeginWait
    BY <2>4 DEF ResetIsUnderWay, BeginWait, Unlock, Game, Halts, runVars,
       httpVars
  <2>5. CASE EndWait
    BY <2>5 DEF ResetIsUnderWay, EndWait, Goes, Game, WaitOver, flags, runVars,
       httpVars
  <2>6. CASE AbortWait
    BY <2>6 DEF ResetIsUnderWay, AbortWait, Rewake, Game, LockAfterWait, Lock,
       Free, flags, runVars, httpVars
  <2>7. CASE TakeStep
    BY <2>7 DEF ResetIsUnderWay, TakeStep, Rewake, Game, LockAfterWait, Lock,
       Free, runVars, httpVars
  <2>8. CASE Resumed
    BY <2>8 DEF ResetIsUnderWay, Resumed, Rewake, Game, LockAfterWait, Lock,
       Free, flags, runVars, httpVars
  <2>9. CASE Execute
    BY <2>9 DEF ResetIsUnderWay, Execute, NextInstruction, BeginCpu, Executed,
       flags, runVars, httpVars
  <2>10. CASE ExecuteWatched
    BY <2>10 DEF ResetIsUnderWay, ExecuteWatched, NextInstruction, BeginCpu,
       Executed, WatchHit, runVars, httpVars
  <2>11. QED BY <1>3, <2>1, <2>2, <2>3, <2>4, <2>5, <2>6, <2>7, <2>8, <2>9,
         <2>10 DEF Instruct
<1>4. CASE Frame
  <2>1. CASE Timers
    BY <2>1 DEF ResetIsUnderWay, Timers, Unlock, Game, flags, runVars, httpVars
  <2>2. CASE MonitorBreak
    BY <2>2 DEF ResetIsUnderWay, MonitorBreak, Unlock, Game, runVars, httpVars
  <2>3. CASE KeyReset
    BY <2>3 DEF ResetIsUnderWay, KeyReset, Unlock, Game, flags, httpVars
  <2>4. CASE UpdateScreen
    BY <2>4 DEF ResetIsUnderWay, UpdateScreen, Unlock, Game, flags, httpVars
  <2>5. QED BY <1>4, <2>1, <2>2, <2>3, <2>4 DEF Frame
<1>5. CASE Request
  <2>1. CASE Pause
    BY <2>1 DEF ResetIsUnderWay, Pause, Accept, Http, flags, runVars, gameVars
  <2>2. CASE Resume
    BY <2>2 DEF ResetIsUnderWay, Resume, Accept, Http, runVars, gameVars
  <2>3. CASE Step
    BY <2>3 DEF ResetIsUnderWay, Step, Accept, Http, runVars, gameVars
  <2>4. CASE Quit
    BY <2>4 DEF ResetIsUnderWay, Quit, Accept, Http, runVars, gameVars
  <2>5. CASE LockingRequest
    BY <2>5 DEF ResetIsUnderWay, LockingRequest, Accept, Http, flags, runVars,
       gameVars
  <2>6. QED BY <1>5, <2>1, <2>2, <2>3, <2>4, <2>5 DEF Request
<1>6. CASE TakeLock
  <2>1. CASE Events
    BY <2>1 DEF ResetIsUnderWay, Events, Free, Http, flags, runVars, gameVars
  <2>2. CASE StepOver
    BY <2>2 DEF ResetIsUnderWay, StepOver, Lock, Free, Http, runVars, gameVars
  <2>3. CASE RunTo
    BY <2>3 DEF ResetIsUnderWay, RunTo, Lock, Free, Room, flags, runVars,
       gameVars
  <2>4. CASE Reset
    BY <2>4 DEF ResetIsUnderWay, Reset, Lock, Free, Http, runVars, gameVars
  <2>5. CASE EditPoints
    BY <2>5 DEF ResetIsUnderWay, EditPoints, Free, Http, Room, flags, runVars,
       gameVars
  <2>6. CASE Read
    BY <2>6 DEF ResetIsUnderWay, Read, Lock, Free, Http, flags, runVars,
       gameVars
  <2>7. QED BY <1>6, <2>1, <2>2, <2>3, <2>4, <2>5, <2>6 DEF TakeLock
<1>7. CASE Serve
  <2>1. CASE Poll
    BY <2>1 DEF ResetIsUnderWay, Poll, Http, flags, runVars, gameVars
  <2>2. CASE NoRequest
    BY <2>2 DEF ResetIsUnderWay, NoRequest, Http, flags, runVars, gameVars
  <2>3. CASE PauseCpu
    BY <2>3 DEF ResetIsUnderWay, PauseCpu, Http, runVars, gameVars
  <2>4. CASE PauseFlag
    BY <2>4 DEF ResetIsUnderWay, PauseFlag, Http, runVars, gameVars
  <2>5. CASE StepFlag
    BY <2>5 DEF ResetIsUnderWay, StepFlag, runVars, gameVars
  <2>6. CASE RunToFlag
    BY <2>6 DEF ResetIsUnderWay, RunToFlag, Unlock, Http, runVars, gameVars
  <2>7. CASE ResetFlag
    BY <2>7 DEF ResetIsUnderWay, ResetFlag, Unlock, Http, flags, gameVars
  <2>8. CASE ReadDone
    BY <2>8 DEF ResetIsUnderWay, ReadDone, Unlock, Http, flags, runVars,
       gameVars
  <2>9. CASE ReadWatched
    BY <2>9 DEF ResetIsUnderWay, ReadWatched, Unlock, WatchHit, Http, runVars,
       gameVars
  <2>10. QED BY <1>7, <2>1, <2>2, <2>3, <2>4, <2>5, <2>6, <2>7, <2>8, <2>9 DEF Serve
<1>8. CASE UNCHANGED vars
  BY <1>8 DEF ResetIsUnderWay, vars, flags, runVars, gameVars, httpVars
<1>9. QED BY <1>1, <1>2, <1>3, <1>4, <1>5, <1>6, <1>7, <1>8 DEF Next, Emulator, Server

\* A pending reset is always under way.
THEOREM PendingResetIsUnderWay == Spec => []ResetIsUnderWay
<1>1. ResetIsUnderWay /\ [Next]_vars => ResetIsUnderWay'
  BY ResetStep
<1>2. QED BY <1>1, ResetInit, PTL DEF Spec

-----------------------------------------------------------------------------
(***************************************************************************)
(* Breakpoints.  From the hit on, the machine is paused in front of the    *)
(* instruction; the emulator thread only goes on from one place to the     *)
(* next, and what lets it go on is remembered at each of them.             *)
(***************************************************************************)
HaltInv ==
  expects = "halt" =>
    /\ is_paused
    /\ gpc \in {"test", "wait", "rewake", "exec"}
    /\ gpc = "test" => halt_cpu \in {0, cpu}
    /\ gpc = "rewake" => step_requested \/ should_quit \/ reset_pending
    /\ gpc = "exec" => \/ should_quit \/ reset_pending
                       \/ step_done
                       \/ cpu # 0 /\ halt_cpu = 0

\* Nothing is expected at first.
LEMMA HaltInit == Init => HaltInv
BY DEF Init, HaltInv

\* Outside the instruction nothing is held: the breakpoint is met in it.
LEMMA HaltElsewhere ==
  ASSUME HaltInv, CpuRun \/ Slice \/ Frame
  PROVE  HaltInv'
<1>1. CASE CpuRun
  <2>1. CASE StopServer
    BY <2>1 DEF HaltInv, StopServer, flags, gameVars
  <2>2. CASE CpuRun /\ ~StopServer
    <3>1. gpc \notin {"test", "wait", "rewake", "exec"} /\ expects' = expects
      BY <2>2 DEF CpuRun, PreRun, PreRunDone, ClearReset, ResetDone, Loop, PostRun,
         PostRunDone, Joined, Goes, Game
    <3>2. QED BY <3>1 DEF HaltInv
  <2>3. QED BY <1>1, <2>1, <2>2
<1>2. CASE Slice \/ Frame
  <2>1. gpc \notin {"test", "wait", "rewake", "exec"} /\ expects' = expects
    BY <1>2 DEF Slice, QuitSlice, Park, RunSlice, Unpark, ReturnUnrun, RunAfterPause,
       Frame, Timers, MonitorBreak, KeyReset, UpdateScreen, Goes, Game
  <2>2. QED BY <2>1 DEF HaltInv
<1>3. QED BY <1>1, <1>2

\* The emulator thread: the hit pauses it, and it passes the test for another
\* CPU only, and the wait for a step, a quit or a reset only.
LEMMA HaltInstruct ==
  ASSUME HaltInv, Instruct
  PROVE  HaltInv'
<1>1. CASE Hit
  BY <1>1 DEF HaltInv, Hit, Game
<1>2. CASE NoHit
  BY <1>2 DEF HaltInv, NoHit, Goes, Game
<1>3. CASE PassHook
  BY <1>3 DEF HaltInv, PassHook, Goes, Game, Halts, flags
<1>4. CASE BeginWait
  BY <1>4 DEF HaltInv, BeginWait, Game
<1>5. CASE EndWait
  BY <1>5 DEF HaltInv, EndWait, WaitOver, Goes, Game, flags
<1>6. CASE AbortWait
  BY <1>6 DEF HaltInv, AbortWait, Rewake, Game, flags
<1>7. CASE TakeStep
  BY <1>7 DEF HaltInv, TakeStep, Rewake, Game
<1>8. CASE Resumed
  BY <1>8 DEF HaltInv, Resumed, Rewake, Game, flags
<1>9. CASE Execute \/ ExecuteWatched
  <2>1. expects' # "halt"
    BY <1>9 DEF Execute, ExecuteWatched, Executed
  <2>2. QED BY <2>1 DEF HaltInv
<1>10. QED BY <1>1, <1>2, <1>3, <1>4, <1>5, <1>6, <1>7, <1>8, <1>9 DEF Instruct

\* The HTTP thread: whoever ends the pause is somebody who resumes; a pause
\* moves the halt to CPU 0 at most; a watchpoint, which may move it anywhere,
\* is not hit by this thread while it does not have the lock.
LEMMA HaltServer ==
  ASSUME HaltInv, LockInv, Server
  PROVE  HaltInv'
<1>1. CASE Pause \/ LockingRequest \/ Events \/ Read \/ RunTo \/ EditPoints
           \/ Poll \/ NoRequest \/ ResetFlag \/ ReadDone
  BY <1>1 DEF HaltInv, Pause, LockingRequest, Events, Read, RunTo, EditPoints, Poll,
     NoRequest, ResetFlag, ReadDone, flags, gameVars
<1>2. CASE Resume \/ Quit \/ Reset \/ RunToFlag \/ StepFlag
  <2>1. expects' # "halt"
    BY <1>2 DEF Resume, Quit, Reset, RunToFlag, StepFlag
  <2>2. QED BY <2>1 DEF HaltInv
<1>3. CASE Step \/ StepOver \/ PauseFlag
  BY <1>3 DEF HaltInv, Step, StepOver, PauseFlag, gameVars
<1>4. CASE PauseCpu
  BY <1>4 DEF HaltInv, PauseCpu, gameVars
<1>5. CASE ReadWatched
  <2>1. gpc \notin GameLocked
    BY <1>5 DEF LockInv, ReadWatched, Http, HttpLocked
  <2>2. gpc # "test" /\ gpc # "exec"
    BY <2>1 DEF GameLocked
  <2>3. QED BY <1>5, <2>2 DEF HaltInv, ReadWatched, WatchHit, gameVars
<1>6. QED BY <1>1, <1>2, <1>3, <1>4, <1>5 DEF Server, Request, TakeLock, Serve

\* A breakpoint holds the machine against everything but the two races.
THEOREM BreakpointIsOverriddenOnlyByRaces == Spec => []HaltIsOverriddenOnlyByRaces
<1>1. HaltInv /\ LockInv /\ [Next]_vars => HaltInv'
  <2>1. HaltInv /\ UNCHANGED vars => HaltInv'
    BY DEF HaltInv, vars, flags, gameVars
  <2>2. QED BY <2>1, HaltElsewhere, HaltInstruct, HaltServer DEF Next, Emulator
<1>2. LockInv /\ [Next]_vars => LockInv'
  BY LockStep
<1>3. HaltInv => HaltIsOverriddenOnlyByRaces
  BY DEF HaltInv, HaltIsOverriddenOnlyByRaces
<1>4. QED BY <1>1, <1>2, <1>3, HaltInit, LockInit, PTL DEF Spec

=============================================================================
