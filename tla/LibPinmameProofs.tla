-------------------------- MODULE LibPinmameProofs --------------------------
(***************************************************************************)
(* Proofs about LibPinmame, for any number of runs and resets, with or     *)
(* without a message API and other threads of the host.                    *)
(*                                                                         *)
(* _isRunning, _p_gameThread and the place of the game thread are set by   *)
(* two threads without a lock between them; Thread says how they belong    *)
(* together.  Requests says that OnGameEnd is posted at most once at a     *)
(* time, by a thread that waits for it.                                    *)
(***************************************************************************)
EXTENDS LibPinmame, SequenceFacts, TLAPS

-----------------------------------------------------------------------------
Request == {"start", "end"}

HostTypes ==
  /\ isRunning \in {Stopped, Running, Starting, Stopping}
  /\ hostTimeToQuit \in BOOLEAN
  /\ g_fPause \in BOOLEAN
  /\ registered \in BOOLEAN
  /\ mainQueue \in Seq(Request)
  /\ hpc \in HostPC

GameTypes ==
  /\ gpc \in GamePC
  /\ time_to_quit \in BOOLEAN
  /\ time_to_reset \in {0, 1}
  /\ resets \in 0 .. MaxResets
  /\ reset_owed \in BOOLEAN

\* Which thread is which: the runs count them, and the last is the only one
\* that emulates.
Identities ==
  /\ runs \in 0 .. MaxRuns
  /\ p_gameThread \in {NoThread, runs}
  /\ gameThreadId \in 0 .. runs
  /\ leaving \subseteq 1 .. runs

Thread ==
  /\ gpc = "none" => isRunning = Stopped
  /\ gpc # "none" => isRunning # Stopped /\ p_gameThread = runs /\ runs > 0
  /\ hpc # "idle" => p_gameThread # NoThread

IsEnd(i) == i \in DOMAIN mainQueue /\ mainQueue[i] = "end"

Requests ==
  /\ gpc = "waitmain" <=> \E i \in DOMAIN mainQueue : IsEnd(i)
  /\ \A i, j \in DOMAIN mainQueue : IsEnd(i) /\ IsEnd(j) => i = j

IInv == HostTypes /\ GameTypes /\ Identities /\ Thread /\ Requests

-----------------------------------------------------------------------------
(***************************************************************************)
(* The queue of the main thread.                                           *)
(***************************************************************************)

\* Posting adds one request at the end.
LEMMA PostFacts ==
  ASSUME mainQueue \in Seq(Request), NEW r \in Request,
         mainQueue' = Append(mainQueue, r)
  PROVE  /\ mainQueue' \in Seq(Request)
         /\ \A i : IsEnd(i)' <=> IsEnd(i) \/ (r = "end" /\ i = Len(mainQueue) + 1)
<1>1. /\ mainQueue' \in Seq(Request)
      /\ Len(mainQueue) \in Nat
      /\ Len(mainQueue') = Len(mainQueue) + 1
      /\ \A i \in 1 .. Len(mainQueue) : mainQueue'[i] = mainQueue[i]
      /\ mainQueue'[Len(mainQueue) + 1] = r
  BY AppendProperties, LenProperties
<1>2. /\ DOMAIN mainQueue = 1 .. Len(mainQueue)
      /\ DOMAIN mainQueue' = 1 .. Len(mainQueue) + 1
  BY <1>1, LenProperties
<1>3. QED BY <1>1, <1>2 DEF IsEnd

\* Running the first request moves the others up.
LEMMA RunFacts ==
  ASSUME mainQueue \in Seq(Request), mainQueue # <<>>,
         mainQueue' = Tail(mainQueue)
  PROVE  /\ mainQueue' \in Seq(Request)
         /\ IsEnd(1) <=> Head(mainQueue) = "end"
         /\ \A i \in DOMAIN mainQueue' : IsEnd(i)' <=> IsEnd(i + 1)
         /\ \A i \in DOMAIN mainQueue : i # 1 => i - 1 \in DOMAIN mainQueue'
         /\ \A i \in DOMAIN mainQueue' : i \in Int /\ i + 1 \in DOMAIN mainQueue /\ i # 0
         /\ \A i \in DOMAIN mainQueue : i \in Int
<1>1. /\ mainQueue' \in Seq(Request)
      /\ Len(mainQueue') = Len(mainQueue) - 1
      /\ \A i \in 1 .. Len(mainQueue') : mainQueue'[i] = mainQueue[i + 1]
      /\ Len(mainQueue) \in Nat \ {0}
      /\ Head(mainQueue) = mainQueue[1]
  BY HeadTailProperties, LenProperties, EmptySeq
<1>2. /\ DOMAIN mainQueue = 1 .. Len(mainQueue)
      /\ DOMAIN mainQueue' = 1 .. Len(mainQueue) - 1
  BY <1>1, LenProperties
<1>3. QED BY <1>1, <1>2 DEF IsEnd

\* A posted OnGameEnd at the head of the queue finds the game thread waiting.
LEMMA EndIsAwaited ==
  ASSUME IInv, mainQueue # <<>>, Head(mainQueue) = "end"
  PROVE  gpc = "waitmain"
<1>1. 1 \in DOMAIN mainQueue /\ mainQueue[1] = "end"
  BY HeadTailProperties, LenProperties, EmptySeq DEF IInv, HostTypes
<1>2. QED BY <1>1 DEF IInv, Requests, IsEnd

-----------------------------------------------------------------------------
(***************************************************************************)
(* The invariant holds at first, and every step keeps it.                  *)
(***************************************************************************)
LEMMA InitIInv == Init => IInv
<1> SUFFICES ASSUME Init PROVE IInv
  OBVIOUS
<1>1. HostTypes
  BY EmptySeq DEF Init, HostTypes, HostPC, Stopped
<1>2. GameTypes /\ Identities
  <2>1. 0 \in 0 .. MaxRuns /\ 0 \in 0 .. MaxResets
    BY LibAssumption
  <2>2. GameTypes
    BY <2>1 DEF Init, GameTypes, GamePC
  <2>3. Identities
    BY <2>1 DEF Init, Identities, NoThread
  <2>4. QED BY <2>2, <2>3
<1>3. Thread
  BY DEF Init, Thread
<1>4. Requests
  <2>1. DOMAIN mainQueue = {} /\ gpc # "waitmain"
    BY DEF Init
  <2>2. QED BY <2>1 DEF Requests
<1>5. QED BY <1>1, <1>2, <1>3, <1>4 DEF IInv

\* A new run gets a new number, and takes over _p_gameThread.
LEMMA PinmameRunIInv ==
  ASSUME IInv, PinmameRun
  PROVE  IInv'
<1>1. runs \in Nat /\ runs < MaxRuns /\ MaxRuns \in Nat /\ gpc = "none"
  BY LibAssumption DEF IInv, Identities, Thread, PinmameRun
<1>2. HostTypes' /\ GameTypes'
  BY DEF IInv, HostTypes, GameTypes, PinmameRun, flagVars, cpuVars, GamePC
<1>3. Identities'
  BY <1>1 DEF IInv, Identities, PinmameRun
<1>4. Thread'
  BY <1>1 DEF IInv, Identities, Thread, PinmameRun, Starting, Stopped, NoThread
<1>5. Requests'
  BY <1>1 DEF IInv, Requests, IsEnd, PinmameRun
<1>6. QED BY <1>2, <1>3, <1>4, <1>5 DEF IInv

\* PinmameStop, of which only the ends touch the state of the run.
LEMMA StopIInv ==
  ASSUME IInv, Stop
  PROVE  IInv'
<1>1. CASE StopBegin
  <2>1. p_gameThread = NoThread => gpc = "none"
    BY DEF IInv, Identities, Thread, NoThread
  <2>2. HostTypes' /\ GameTypes' /\ Identities'
    BY <1>1 DEF IInv, HostTypes, GameTypes, Identities, StopBegin, flagVars, idVars,
                cpuVars, HostPC
  <2>3. Thread' /\ Requests'
    BY <1>1, <2>1 DEF IInv, Thread, Requests, IsEnd, StopBegin, idVars
  <2>4. QED BY <2>2, <2>3 DEF IInv
<1>2. CASE StopUnpause \/ StopQuit
  <2>1. HostTypes' /\ GameTypes' /\ Identities'
    BY <1>2 DEF IInv, HostTypes, GameTypes, Identities, StopUnpause, StopQuit, stateVars,
                flagVars, idVars, cpuVars, HostPC
  <2>2. Thread' /\ Requests'
    BY <1>2 DEF IInv, Thread, Requests, IsEnd, StopUnpause, StopQuit, stateVars, idVars
  <2>3. QED BY <2>1, <2>2 DEF IInv
<1>3. CASE StopJoined
  <2>1. gpc = "none"
    BY <1>3 DEF IInv, Identities, Thread, StopJoined, Returned
  <2>2. HostTypes' /\ GameTypes' /\ Identities'
    BY <1>3 DEF IInv, HostTypes, GameTypes, Identities, StopJoined, cpuVars, HostPC
  <2>3. Thread' /\ Requests'
    BY <1>3, <2>1 DEF IInv, Thread, Requests, IsEnd, StopJoined
  <2>4. QED BY <2>2, <2>3 DEF IInv
<1>4. QED BY <1>1, <1>2, <1>3 DEF Stop

\* Calls and keys that only leave flags for the game thread.
LEMMA FlagsIInv ==
  ASSUME IInv,
         PinmameReset \/ PinmamePause \/ SelfReset \/ PauseKey \/ QuitPaused
  PROVE  IInv'
<1>1. /\ UNCHANGED <<isRunning, registered, mainQueue, hostTimeToQuit, hpc>>
      /\ UNCHANGED <<p_gameThread, gameThreadId, leaving, runs>>
  BY DEF PinmameReset, PinmamePause, SelfReset, PauseKey, QuitPaused, stateVars, flagVars,
         idVars
<1>2. g_fPause' \in BOOLEAN
  BY DEF IInv, HostTypes, PinmameReset, PinmamePause, SelfReset, PauseKey, QuitPaused,
         flagVars
<1>3. /\ gpc' \in GamePC
      /\ gpc # "none" <=> gpc' # "none"
      /\ gpc # "waitmain" <=> gpc' # "waitmain"
  BY DEF IInv, GameTypes, GamePC, PinmameReset, PinmamePause, SelfReset, PauseKey,
         QuitPaused, Go
<1>4. /\ time_to_quit' \in BOOLEAN
      /\ time_to_reset' \in {0, 1}
      /\ resets' \in 0 .. MaxResets
      /\ reset_owed' \in BOOLEAN
  <2>1. CASE MachineReset /\ time_to_quit' = time_to_quit
    BY <2>1, LibAssumption DEF IInv, GameTypes, MachineReset
  <2>2. CASE time_to_quit' \in BOOLEAN /\ UNCHANGED <<time_to_reset, resets, reset_owed>>
    BY <2>2 DEF IInv, GameTypes
  <2>3. CASE PinmameReset \/ SelfReset
    BY <2>3, <2>1 DEF PinmameReset, SelfReset
  <2>4. CASE PinmamePause \/ PauseKey \/ QuitPaused
    BY <2>4, <2>2 DEF IInv, GameTypes, PinmamePause, PauseKey, QuitPaused, cpuVars
  <2>5. QED BY <2>3, <2>4
<1>5. HostTypes' /\ GameTypes' /\ Identities'
  BY <1>1, <1>2, <1>3, <1>4 DEF IInv, HostTypes, GameTypes, Identities
<1>6. Thread' /\ Requests'
  BY <1>1, <1>3 DEF IInv, Thread, Requests, IsEnd
<1>7. QED BY <1>5, <1>6 DEF IInv

\* The main thread runs the posted callbacks; only OnGameEnd releases the game
\* thread, and it is the one that waits.
LEMMA CallbackIInv ==
  ASSUME IInv, Callback
  PROVE  IInv'
<1>1. /\ mainQueue \in Seq(Request)
      /\ mainQueue # <<>>
      /\ mainQueue' = Tail(mainQueue)
  BY DEF IInv, HostTypes, Callback, OnGameStart, OnGameEnd
<1>2. HostTypes'
  BY <1>1, RunFacts DEF IInv, HostTypes, Callback, OnGameStart, OnGameEnd, flagVars
<1>3. GameTypes' /\ Identities'
  BY DEF IInv, GameTypes, Identities, GamePC, Callback, OnGameStart, OnGameEnd, idVars,
         cpuVars
<1>4. \A i, j \in DOMAIN mainQueue' : IsEnd(i)' /\ IsEnd(j)' => i = j
  <2> SUFFICES ASSUME NEW i \in DOMAIN mainQueue', NEW j \in DOMAIN mainQueue',
                      IsEnd(i)', IsEnd(j)'
               PROVE  i = j
    OBVIOUS
  <2>1. IsEnd(i + 1) /\ IsEnd(j + 1) /\ i \in Int /\ j \in Int
    BY <1>1, RunFacts
  <2>2. i + 1 = j + 1
    BY <2>1 DEF IInv, Requests, IsEnd
  <2>3. QED BY <2>1, <2>2
<1>5. CASE OnGameStart
  <2>1. ~IsEnd(1)
    BY <1>1, <1>5, RunFacts DEF OnGameStart
  <2>2. (\E i \in DOMAIN mainQueue' : IsEnd(i)') => \E i \in DOMAIN mainQueue : IsEnd(i)
    BY <1>1, RunFacts
  <2>3. ASSUME NEW i \in DOMAIN mainQueue, IsEnd(i)
        PROVE  \E k \in DOMAIN mainQueue' : IsEnd(k)'
    <3>1. i # 1 /\ i \in Int
      BY <2>1, <2>3, <1>1, RunFacts
    <3>2. i - 1 \in DOMAIN mainQueue' /\ (i - 1) + 1 = i
      BY <3>1, <1>1, RunFacts
    <3>3. IsEnd(i - 1)' <=> IsEnd(i)
      BY <3>2, <1>1, RunFacts
    <3>4. QED BY <3>2, <3>3, <2>3
  <2>4. Requests'
    BY <1>4, <1>5, <2>2, <2>3 DEF IInv, Requests, OnGameStart
  <2>5. Thread'
    BY <1>5 DEF IInv, Thread, OnGameStart, idVars
  <2>6. QED BY <2>4, <2>5, <1>2, <1>3 DEF IInv
<1>6. CASE OnGameEnd
  <2>1. IsEnd(1) /\ 1 \in DOMAIN mainQueue
    BY <1>1, <1>6, RunFacts DEF OnGameEnd, IsEnd
  <2>2. gpc = "waitmain"
    BY <2>1 DEF IInv, Requests
  <2>3. ASSUME NEW i \in DOMAIN mainQueue' PROVE ~IsEnd(i)'
    <3>1. i \in Int /\ i + 1 \in DOMAIN mainQueue /\ i # 0
      BY <1>1, RunFacts
    <3>2. ~IsEnd(i + 1)
      BY <3>1, <2>1 DEF IInv, Requests
    <3>3. QED BY <3>2, <1>1, RunFacts
  <2>4. Requests'
    BY <1>4, <1>6, <2>3 DEF Requests, OnGameEnd
  <2>5. Thread'
    BY <1>6, <2>2 DEF IInv, Thread, OnGameEnd, idVars
  <2>6. QED BY <2>4, <2>5, <1>2, <1>3 DEF IInv
<1>7. QED BY <1>5, <1>6 DEF Callback

\* The game thread between a stop and the next start, where it changes neither
\* _isRunning nor the queue.
LEMMA QuietGameIInv ==
  ASSUME IInv,
         \/ StartGame \/ InitFails \/ CpuRun \/ PreRunDone \/ LoopAgain
         \/ LoopExit \/ Slice \/ PauseLoop \/ Frame \/ Poll \/ PostRunDone
  PROVE  IInv'
<1>1. /\ UNCHANGED <<isRunning, registered, mainQueue, hostTimeToQuit, g_fPause, hpc>>
      /\ UNCHANGED <<p_gameThread, leaving, runs, resets, reset_owed>>
  BY DEF StartGame, InitFails, CpuRun, PreRunDone, LoopAgain, LoopExit, Slice, PauseLoop,
         Frame, Poll, PostRunDone, stateVars, flagVars, idVars, cpuVars
<1>2. gameThreadId' \in 0 .. runs
  BY DEF IInv, Identities, StartGame, InitFails, CpuRun, PreRunDone, LoopAgain, LoopExit,
         Slice, PauseLoop, Frame, Poll, PostRunDone, idVars
<1>3. /\ gpc \notin {"none", "waitmain"}
      /\ gpc' \in GamePC \ {"none", "waitmain"}
  BY DEF StartGame, InitFails, CpuRun, PreRunDone, LoopAgain, LoopExit, Slice, PauseLoop,
         Frame, Poll, PostRunDone, Go, GamePC
<1>4. time_to_quit' \in BOOLEAN /\ time_to_reset' \in {0, 1}
  BY DEF IInv, GameTypes, StartGame, InitFails, CpuRun, PreRunDone, LoopAgain, LoopExit,
         Slice, PauseLoop, Frame, Poll, PostRunDone, cpuVars
<1>5. HostTypes' /\ GameTypes' /\ Identities'
  BY <1>1, <1>2, <1>3, <1>4 DEF IInv, HostTypes, GameTypes, Identities
<1>6. Thread' /\ Requests'
  BY <1>1, <1>3 DEF IInv, Thread, Requests, IsEnd
<1>7. QED BY <1>5, <1>6 DEF IInv

\* Where it announces its state: OnStateChange(1) and (3).
LEMMA StateChangeIInv ==
  ASSUME IInv, PreRun \/ MachineStop
  PROVE  IInv'
<1>1. /\ UNCHANGED <<registered, mainQueue, hostTimeToQuit, g_fPause, hpc>>
      /\ UNCHANGED <<p_gameThread, gameThreadId, leaving, runs>>
      /\ UNCHANGED <<time_to_quit, time_to_reset, resets>>
      /\ isRunning' \in {Running, Stopping}
  BY DEF PreRun, MachineStop, flagVars, idVars, cpuVars
<1>2. /\ gpc \notin {"none", "waitmain"}
      /\ gpc' \in GamePC \ {"none", "waitmain"}
      /\ reset_owed' \in BOOLEAN
  BY DEF IInv, GameTypes, PreRun, MachineStop, cpuVars, Go, GamePC
<1>3. HostTypes' /\ GameTypes' /\ Identities'
  BY <1>1, <1>2 DEF IInv, HostTypes, GameTypes, Identities
<1>4. Thread' /\ Requests'
  BY <1>1, <1>2 DEF IInv, Thread, Requests, IsEnd, Stopped, Running, Stopping
<1>5. QED BY <1>3, <1>4 DEF IInv

LEMMA AnnounceStartIInv ==
  ASSUME IInv, AnnounceStart
  PROVE  IInv'
<1>1. /\ mainQueue' \in Seq(Request)
      /\ \A i : IsEnd(i)' <=> IsEnd(i)
  BY PostFacts DEF IInv, HostTypes, Request, AnnounceStart, IsEnd
<1>2. HostTypes' /\ GameTypes' /\ Identities'
  BY <1>1 DEF IInv, HostTypes, GameTypes, Identities, AnnounceStart, flagVars, idVars,
              cpuVars, Go, GamePC
<1>3. Thread'
  BY DEF IInv, Thread, AnnounceStart, Go, idVars
<1>4. Requests'
  <2>1. gpc # "waitmain" /\ gpc' # "waitmain"
    BY DEF AnnounceStart, Go
  <2>2. \A i : ~IsEnd(i)
    BY <2>1 DEF IInv, Requests, IsEnd
  <2>3. QED BY <1>1, <2>1, <2>2 DEF Requests
<1>5. QED BY <1>2, <1>3, <1>4 DEF IInv

\* The one place that posts OnGameEnd, and it waits.
LEMMA TellStopIInv ==
  ASSUME IInv, TellStop
  PROVE  IInv'
<1>1. mainQueue \in Seq(Request) /\ "end" \in Request /\ Len(mainQueue) + 1 \in Nat
  BY LenProperties DEF IInv, HostTypes, Request
<1>2. \A i : ~IsEnd(i)
  BY DEF IInv, Requests, IsEnd, TellStop
<1>3. CASE HasMsgApi /\ registered
  <2>1. mainQueue' = Append(mainQueue, "end") /\ gpc' = "waitmain"
    BY <1>3 DEF TellStop
  <2>2. /\ mainQueue' \in Seq(Request)
        /\ \A i : IsEnd(i)' <=> i = Len(mainQueue) + 1
    BY <2>1, <1>1, <1>2, PostFacts
  <2>3. Len(mainQueue) + 1 \in DOMAIN mainQueue'
    BY <2>2 DEF IsEnd
  <2>4. Requests'
    BY <2>1, <2>2, <2>3 DEF Requests
  <2>5. QED
    BY <2>1, <2>2, <2>4 DEF IInv, HostTypes, GameTypes, Identities, Thread, TellStop,
                            flagVars, idVars, cpuVars, GamePC
<1>4. CASE ~(HasMsgApi /\ registered)
  <2>1. mainQueue' = mainQueue /\ gpc' = "stopped"
    BY <1>4 DEF TellStop
  <2>2. Requests'
    BY <2>1, <1>2 DEF Requests, IsEnd
  <2>3. QED
    BY <2>1, <2>2 DEF IInv, HostTypes, GameTypes, Identities, Thread, TellStop,
                      flagVars, idVars, cpuVars, GamePC
<1>5. QED BY <1>3, <1>4

\* The end of the thread.
LEMMA EndIInv ==
  ASSUME IInv, GameEnded \/ ThreadReturns
  PROVE  IInv'
<1>1. CASE GameEnded
  <2>1. runs \in 1 .. runs
    BY <1>1 DEF IInv, Identities, Thread, GameEnded, Go
  <2>2. HostTypes' /\ GameTypes' /\ Identities'
    BY <1>1, <2>1 DEF IInv, HostTypes, GameTypes, Identities, GameEnded, Go, flagVars,
                      cpuVars, GamePC
  <2>3. Thread' /\ Requests'
    BY <1>1 DEF IInv, Thread, Requests, IsEnd, GameEnded, Go
  <2>4. QED BY <2>2, <2>3 DEF IInv
<1>2. CASE ThreadReturns
  <2>1. 0 \in 0 .. runs
    BY DEF IInv, Identities
  <2>2. HostTypes' /\ GameTypes' /\ Identities'
    BY <1>2, <2>1 DEF IInv, HostTypes, GameTypes, Identities, ThreadReturns, stateVars,
                      flagVars, cpuVars, NoThread
  <2>3. Thread' /\ Requests'
    BY <1>2 DEF IInv, Thread, Requests, IsEnd, ThreadReturns, stateVars
  <2>4. QED BY <2>2, <2>3 DEF IInv
<1>3. QED BY <1>1, <1>2

LEMMA NextIInv == IInv /\ [Next]_vars => IInv'
<1> SUFFICES ASSUME IInv, [Next]_vars PROVE IInv'
  OBVIOUS
<1>1. CASE UNCHANGED vars
  BY <1>1 DEF IInv, HostTypes, GameTypes, Identities, Thread, Requests, IsEnd, vars,
              stateVars, flagVars, idVars, cpuVars
<1>2. CASE PinmameRun \/ Stop \/ Callback \/ ThreadReturns
  BY <1>2, PinmameRunIInv, StopIInv, CallbackIInv, EndIInv
<1>3. CASE PinmameReset \/ PinmamePause \/ SelfReset \/ PauseKey \/ QuitPaused
  BY <1>3, FlagsIInv
<1>4. CASE Game
  BY <1>4, QuietGameIInv, StateChangeIInv, AnnounceStartIInv, TellStopIInv, EndIInv DEF Game
<1>5. QED BY <1>1, <1>2, <1>3, <1>4 DEF Next

-----------------------------------------------------------------------------
(***************************************************************************)
(* The theorems.                                                           *)
(***************************************************************************)

\* How the state of the run, its thread and the host's call belong together,
\* in every reachable state.
THEOREM LifeInvariance == Spec => []IInv
<1>1. IInv /\ [Next]_vars => IInv'
  BY NextIInv
<1>2. QED BY <1>1, InitIInv, PTL DEF Spec

\* The types; among others, only runs that were started are leaving.
THEOREM LifeTypeCorrect == Spec => []TypeOK
<1>1. IInv => TypeOK
  BY DEF IInv, HostTypes, GameTypes, Identities, TypeOK, Request, NoThread
<1>2. QED BY <1>1, LifeInvariance, PTL

\* While a game thread emulates, a stop knows which thread to join.
THEOREM StopReachesTheGame == Spec => []StoppableWhileEmulating
<1>1. IInv => StoppableWhileEmulating
  BY DEF IInv, Thread, StoppableWhileEmulating
<1>2. QED BY <1>1, LifeInvariance, PTL

\* The "forcing stopped state" of PinmameStop never has anything to force.
THEOREM NothingToForce == Spec => []NeverForcedToStop
<1>1. IInv => NeverForcedToStop
  BY DEF IInv, Identities, Thread, NeverForcedToStop, Returned, NoThread
<1>2. QED BY <1>1, LifeInvariance, PTL

\* A posted OnGameEnd has the game thread waiting for it, and that thread has
\* its request posted.
THEOREM EndRequestsAreAwaited == Spec => []EndRequestHasItsWaiter
<1>1. IInv => EndRequestHasItsWaiter
  BY DEF IInv, Requests, IsEnd, EndRequestHasItsWaiter
<1>2. QED BY <1>1, LifeInvariance, PTL

-----------------------------------------------------------------------------
(***************************************************************************)
(* The run keeps to GameLife.  _isRunning is assigned at three places of   *)
(* the game thread, and between them that thread alone knows how far it    *)
(* is: Stages ties its place to the state the host reads.                  *)
(***************************************************************************)
Stages ==
  /\ gpc \in {"begin", "init"} => isRunning = Starting
  /\ gpc \in {"prerun", "end"} => isRunning \in {Starting, Stopping}
  /\ gpc \in {"announce", "prerest", "loop", "slice", "paused", "poll",
              "machinestop"} => isRunning = Running
  /\ gpc \in {"tellstop", "waitmain", "stopped"} => isRunning = Stopping

LIInv == IInv /\ Stages

LEMMA StagesStep ==
  ASSUME LIInv, [Next]_vars
  PROVE  Stages'
<1>1. CASE UNCHANGED vars
  BY <1>1 DEF LIInv, Stages, vars, stateVars
<1>2. CASE PinmameRun
  BY <1>2 DEF Stages, PinmameRun
<1>3. CASE Stop
  <2>1. CASE StopBegin
    <3>1. p_gameThread = NoThread => gpc = "none"
      BY DEF LIInv, IInv, Identities, Thread, NoThread
    <3>2. QED BY <2>1, <3>1 DEF LIInv, Stages, StopBegin
  <2>2. CASE StopJoined
    <3>1. gpc = "none"
      BY <2>2 DEF LIInv, IInv, Identities, Thread, StopJoined, Returned
    <3>2. QED BY <2>2, <3>1 DEF Stages, StopJoined
  <2>3. CASE StopUnpause \/ StopQuit
    BY <2>3 DEF LIInv, Stages, StopUnpause, StopQuit, stateVars
  <2>4. QED BY <1>3, <2>1, <2>2, <2>3 DEF Stop
<1>4. CASE PinmameReset \/ PinmamePause \/ SelfReset \/ PauseKey \/ QuitPaused
  BY <1>4 DEF LIInv, Stages, PinmameReset, PinmamePause, SelfReset, PauseKey, QuitPaused,
              stateVars, Go
<1>5. CASE Callback
  <2>1. CASE OnGameStart
    BY <2>1 DEF LIInv, Stages, OnGameStart
  <2>2. CASE OnGameEnd
    <3>1. gpc = "waitmain"
      BY <2>2, EndIsAwaited DEF LIInv, OnGameEnd
    <3>2. QED BY <2>2, <3>1 DEF LIInv, Stages, OnGameEnd
  <2>3. QED BY <1>5, <2>1, <2>2 DEF Callback
<1>6. CASE Game
  <2>1. CASE StartGame \/ InitFails \/ CpuRun \/ PreRun \/ AnnounceStart \/ PreRunDone
    BY <2>1 DEF LIInv, Stages, StartGame, InitFails, CpuRun, PreRun, AnnounceStart,
                PreRunDone, stateVars, Go
  <2>2. CASE LoopAgain \/ LoopExit \/ Slice \/ PauseLoop \/ Frame \/ Poll
    BY <2>2 DEF LIInv, Stages, LoopAgain, LoopExit, Slice, PauseLoop, Frame, Poll,
                stateVars, Go
  <2>3. CASE MachineStop \/ TellStop \/ PostRunDone \/ GameEnded
    BY <2>3 DEF LIInv, Stages, MachineStop, TellStop, PostRunDone, GameEnded, stateVars, Go
  <2>4. QED BY <1>6, <2>1, <2>2, <2>3 DEF Game
<1>7. CASE ThreadReturns
  BY <1>7 DEF LIInv, Stages, ThreadReturns, stateVars
<1>8. QED BY <1>1, <1>2, <1>3, <1>4, <1>5, <1>6, <1>7 DEF Next

\* In every reachable state the place of the game thread and the state that
\* the host reads belong together, with the rest of the invariant.
THEOREM StagesInvariance == Spec => []LIInv
<1>1. Init => LIInv
  BY InitIInv DEF LIInv, Init, Stages
<1>2. LIInv /\ [Next]_vars => LIInv'
  BY NextIInv, StagesStep DEF LIInv
<1>3. QED BY <1>1, <1>2, PTL DEF Spec

LifeStep == [Life!Next]_(Life!vars)

\* The host's calls.  Where PinmameStop finds no thread it forces a state that
\* is 0 already.
LEMMA HostMaps ==
  ASSUME LIInv, PinmameRun \/ Stop
  PROVE  LifeStep
<1>1. CASE PinmameRun
  <2>1. runs + 1 # NoThread /\ gpc = "none"
    BY <1>1 DEF LIInv, IInv, Identities, Thread, PinmameRun, NoThread
  <2>2. Life!Run
    BY <1>1, <2>1 DEF PinmameRun, Life!Run
  <2>3. QED BY <2>2 DEF LifeStep, Life!Next
<1>2. CASE StopBegin
  <2>1. CASE p_gameThread = NoThread
    <3>1. isRunning = Stopped
      BY <2>1 DEF LIInv, IInv, Identities, Thread, NoThread
    <3>2. UNCHANGED Life!vars
      BY <1>2, <2>1, <3>1 DEF StopBegin, idVars, Life!vars
    <3>3. QED BY <3>2 DEF LifeStep
  <2>2. CASE p_gameThread # NoThread
    <3>1. Life!BeginStop
      BY <1>2, <2>2 DEF StopBegin, idVars, Life!BeginStop
    <3>2. QED BY <3>1 DEF LifeStep, Life!Next
  <2>3. QED BY <2>1, <2>2
<1>3. CASE StopUnpause \/ StopQuit
  BY <1>3 DEF StopUnpause, StopQuit, stateVars, idVars, LifeStep, Life!vars
<1>4. CASE StopJoined
  <2>1. gpc = "none" /\ isRunning = Stopped
    BY <1>4 DEF LIInv, IInv, Identities, Thread, StopJoined, Returned
  <2>2. Life!ReturnFromStop
    BY <1>4, <2>1 DEF StopJoined, Life!ReturnFromStop
  <2>3. QED BY <2>2 DEF LifeStep, Life!Next
<1>5. QED BY <1>1, <1>2, <1>3, <1>4 DEF Stop

\* The main thread answers the game thread, which it can do between calls only.
LEMMA CallbackMaps ==
  ASSUME LIInv, Callback
  PROVE  LifeStep
<1>1. CASE OnGameStart
  BY <1>1 DEF OnGameStart, idVars, LifeStep, Life!vars
<1>2. CASE OnGameEnd
  <2>1. gpc = "waitmain"
    BY <1>2, EndIsAwaited DEF LIInv, OnGameEnd
  <2>2. Life!Answer
    BY <1>2, <2>1 DEF OnGameEnd, idVars, Life!Answer
  <2>3. QED BY <2>2 DEF LifeStep, Life!Next
<1>3. QED BY <1>1, <1>2 DEF Callback

\* The game thread reports a state: up, down, over.
LEMMA ReportMaps ==
  ASSUME LIInv, PreRun \/ MachineStop \/ GameEnded
  PROVE  LifeStep
<1>1. CASE PreRun
  <2>1. Life!MachineUp
    BY <1>1 DEF LIInv, Stages, PreRun, Go, idVars, Life!MachineUp
  <2>2. QED BY <2>1 DEF LifeStep, Life!Next
<1>2. CASE MachineStop
  <2>1. Life!MachineDown
    BY <1>2 DEF LIInv, Stages, MachineStop, Go, idVars, Life!MachineDown
  <2>2. QED BY <2>1 DEF LifeStep, Life!Next
<1>3. CASE GameEnded
  <2>1. Life!Over
    BY <1>3 DEF LIInv, Stages, GameEnded, Go, Life!Over
  <2>2. QED BY <2>1 DEF LifeStep, Life!Next
<1>4. QED BY <1>1, <1>2, <1>3

LEMMA TellStopMaps ==
  ASSUME LIInv, TellStop
  PROVE  LifeStep
<1>1. CASE HasMsgApi /\ registered
  <2>1. Life!Wait
    BY <1>1 DEF LIInv, Stages, TellStop, idVars, Life!Wait
  <2>2. QED BY <2>1 DEF LifeStep, Life!Next
<1>2. CASE ~(HasMsgApi /\ registered)
  BY <1>2 DEF TellStop, idVars, LifeStep, Life!vars
<1>3. QED BY <1>1, <1>2

\* What the host does not see: the emulation between two reports, the flags
\* that calls and keys leave for it, and the end of the thread.
LEMMA UnseenMaps ==
  ASSUME \/ PinmameReset \/ PinmamePause \/ SelfReset \/ PauseKey \/ QuitPaused
         \/ StartGame \/ InitFails \/ CpuRun \/ AnnounceStart \/ PreRunDone
         \/ LoopAgain \/ LoopExit \/ Slice \/ PauseLoop \/ Frame \/ Poll
         \/ PostRunDone \/ ThreadReturns
  PROVE  LifeStep
<1>1. UNCHANGED <<isRunning, p_gameThread, hpc>>
  BY DEF PinmameReset, PinmamePause, SelfReset, PauseKey, QuitPaused, StartGame, InitFails,
         CpuRun, AnnounceStart, PreRunDone, LoopAgain, LoopExit, Slice, PauseLoop, Frame,
         Poll, PostRunDone, ThreadReturns, stateVars, idVars
<1>2. gpc' = "waitmain" <=> gpc = "waitmain"
  BY DEF PinmameReset, PinmamePause, SelfReset, PauseKey, QuitPaused, StartGame, InitFails,
         CpuRun, AnnounceStart, PreRunDone, LoopAgain, LoopExit, Slice, PauseLoop, Frame,
         Poll, PostRunDone, ThreadReturns, Go
<1>3. QED BY <1>1, <1>2 DEF LifeStep, Life!vars

LEMMA NextMaps == LIInv /\ [Next]_vars => LifeStep
<1> SUFFICES ASSUME LIInv, [Next]_vars PROVE LifeStep
  OBVIOUS
<1>1. CASE UNCHANGED vars
  BY <1>1 DEF vars, stateVars, idVars, LifeStep, Life!vars
<1>2. CASE PinmameRun \/ Stop \/ Callback
  BY <1>2, HostMaps, CallbackMaps
<1>3. CASE PinmameReset \/ PinmamePause \/ SelfReset \/ PauseKey \/ QuitPaused \/ ThreadReturns
  BY <1>3, UnseenMaps
<1>4. CASE Game
  BY <1>4, ReportMaps, TellStopMaps, UnseenMaps DEF Game
<1>5. QED BY <1>1, <1>2, <1>3, <1>4 DEF Next

\* Every behaviour of the two threads is one of GameLife: the run state makes
\* its documented round, and a stop returns only from a game that is over.
THEOREM ImplementsGameLife == Spec => KeepsGameLife
<1>1. Init => Life!Init
  BY DEF Init, Life!Init
<1>2. LIInv /\ [Next]_vars => [Life!Next]_(Life!vars)
  BY NextMaps DEF LifeStep
<1>3. KeepsGameLife <=> Life!Init /\ [][Life!Next]_(Life!vars)
  BY DEF KeepsGameLife, Life!Spec
<1>4. QED BY <1>1, <1>2, <1>3, StagesInvariance, PTL DEF Spec

=============================================================================
