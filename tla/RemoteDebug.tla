---------------------------- MODULE RemoteDebug ----------------------------
(***************************************************************************)
(* Execution control of the remote debugger: the HTTP server thread of     *)
(* src/src/remote_debug and the emulator thread in cpu_run, cpu_timeslice  *)
(* and the per-instruction hook.                                           *)
(*                                                                         *)
(* The emulator thread holds mame_mutex for a whole timeslice and drops it *)
(* only between slices and while it waits paused, in two places: at the    *)
(* top of a slice ("parked"), and in front of an instruction of halt_cpu   *)
(* ("wait", wait_while_paused).  The flags are written without the lock,   *)
(* so each write of the HTTP thread is a step of its own.  Taking the lock *)
(* and the test made right after it are one step: no other thread can      *)
(* tell them apart.                                                        *)
(*                                                                         *)
(* Abstracted: whether a breakpoint, condition or ignore count matches is  *)
(* left open whenever there is one; a CPU's share of a slice is 1..Share   *)
(* instructions; suspended CPUs, tracing and the pause loop of the user    *)
(* interface, which runs inside a slice, are left out.                     *)
(***************************************************************************)
EXTENDS Integers

CONSTANTS
  NumCpu,      \* number of CPUs
  Hooked,      \* the CPUs whose core calls the instruction hook
  Share,       \* bound: instructions of a CPU in one timeslice
  MAX_POINTS,  \* size of the breakpoint table
  MaxRequests, \* bound: requests that clients make
  MaxHits      \* bound: accesses that hit the watchpoints once they are set

CPU == 0 .. NumCpu - 1

ASSUME DebugAssumption ==
  /\ NumCpu \in Nat \ {0}
  /\ Hooked \subseteq CPU
  /\ Share \in Nat \ {0}
  /\ MAX_POINTS \in Nat
  /\ MaxRequests \in Nat
  /\ MaxHits \in Nat

VARIABLES
  is_paused, step_requested, step_done, reset_pending, should_quit,
  halt_cpu,
  points,          \* the breakpoints: the user's and temporary ones; hits to come
  mame_mutex,      \* who holds the lock
  time_to_reset, time_to_quit,
  stop_requested,  \* of http_server.c
  gpc,             \* where the emulator thread is
  cpu,             \* the CPU it executes
  left,            \* instructions left of that CPU's share
  hpc,             \* where the HTTP thread is
  was,             \* the local of remote_debug_set_paused
  requests,        \* counter for the bound
  expects          \* history: what the client has to expect next

flags    == <<is_paused, step_requested, step_done, reset_pending, should_quit,
              halt_cpu>>
runVars  == <<time_to_reset, time_to_quit>>
gameVars == <<gpc, cpu, left>>
httpVars == <<hpc, was, requests, stop_requested>>
vars == <<flags, points, mame_mutex, runVars, gameVars, httpVars, expects>>

\* The phases in which each thread holds the lock.
GameLocked == {"prerun", "hook", "test", "exec", "timers", "postrun"}
HttpLocked == {"resetting", "resuming", "stepping", "reading"}

GamePC == GameLocked \cup {"start", "clear", "resetdone", "loop", "slice",
                           "parked", "relock", "wait", "rewake", "finish", "exit", "done"}
HttpWants  == {"read", "edit", "reset", "run to", "step over"}

HttpPC == HttpLocked \cup HttpWants \cup
          {"poll", "events", "accept", "pause", "pausing", "step",
           "publish", "exited"}

\* remote_debug_init: -startpaused is an option.  cpu_run follows.
Init ==
  /\ is_paused \in BOOLEAN
  /\ step_requested = FALSE
  /\ step_done = FALSE
  /\ reset_pending = FALSE
  /\ should_quit = FALSE
  /\ halt_cpu = 0
  /\ points = [user |-> 0, temp |-> 0, watch |-> 0]
  /\ mame_mutex = "none"
  /\ time_to_reset = FALSE
  /\ time_to_quit = FALSE
  /\ stop_requested = FALSE
  /\ gpc = "start"
  /\ cpu = 0
  /\ left = 0
  /\ hpc = "poll"
  /\ was = FALSE
  /\ requests = 0
  /\ expects = "nothing"

Free    == mame_mutex = "none"
Lock(t) == Free /\ mame_mutex' = t
Unlock  == mame_mutex' = "none"

-----------------------------------------------------------------------------
(***************************************************************************)
(* The emulator thread: cpu_run.                                           *)
(***************************************************************************)
Game(from, to) == gpc = from /\ gpc' = to

\* A step of which nobody else sees anything.
Goes(from, to) ==
  /\ Game(from, to)
  /\ UNCHANGED <<flags, points, mame_mutex, runVars, cpu, left, httpVars, expects>>

\* cpu_pre_run, under the lock.
PreRun ==
  /\ Game("start", "prerun")
  /\ Lock("game")
  /\ UNCHANGED <<flags, points, runVars, cpu, left, httpVars, expects>>

PreRunDone ==
  /\ Game("prerun", "clear")
  /\ Unlock
  /\ UNCHANGED <<flags, points, runVars, cpu, left, httpVars, expects>>

ClearReset ==
  /\ Game("clear", "resetdone")
  /\ time_to_reset' = FALSE
  /\ UNCHANGED <<flags, points, mame_mutex, time_to_quit, cpu, left, httpVars, expects>>

\* Faulty variant: nobody tells the debugger.
ResetDone_Forgotten == Goes("resetdone", "loop")

\* remote_debug_reset_done.
ResetDone ==
  /\ Game("resetdone", "loop")
  /\ reset_pending' = FALSE
  /\ UNCHANGED <<is_paused, step_requested, step_done, should_quit, halt_cpu,
                 points, mame_mutex, runVars, cpu, left, httpVars, expects>>

\* while (!time_to_quit && !time_to_reset)
Loop ==
  Goes("loop", IF time_to_quit \/ time_to_reset THEN "finish" ELSE "slice")

\* cpu_post_run, under the lock.
PostRun ==
  /\ Game("finish", "postrun")
  /\ Lock("game")
  /\ UNCHANGED <<flags, points, runVars, cpu, left, httpVars, expects>>

PostRunDone ==
  /\ Game("postrun", IF time_to_quit THEN "exit" ELSE "start")
  /\ Unlock
  /\ UNCHANGED <<flags, points, runVars, cpu, left, httpVars, expects>>

\* remote_debug_exit: http_server_stop asks the thread to end ...
StopServer ==
  /\ gpc = "exit"
  /\ ~stop_requested
  /\ stop_requested' = TRUE
  /\ UNCHANGED <<flags, points, mame_mutex, runVars, gameVars, hpc, was,
                 requests, expects>>

\* ... and joins it.
Joined ==
  /\ Goes("exit", "done")
  /\ stop_requested
  /\ hpc = "exited"

-----------------------------------------------------------------------------
(***************************************************************************)
(* cpu_timeslice.                                                          *)
(***************************************************************************)

\* Faulty variant: a step that is asked for does not end the pause.
IsPaused_NoStep == is_paused /\ ~should_quit

\* What remote_debug_is_paused returns.
IsPaused == is_paused /\ ~should_quit /\ ~step_requested

\* The CPUs are executed in turn.
BeginCpu(c) ==
  /\ cpu' = c
  /\ left' \in 1 .. Share
  /\ gpc' = "hook"

\* Returns at once when the emulator is to quit; cpu_run unlocks.
QuitSlice ==
  /\ gpc = "slice"
  /\ Free
  /\ should_quit
  /\ time_to_quit' = TRUE
  /\ gpc' = "loop"
  /\ UNCHANGED <<flags, points, mame_mutex, time_to_reset, cpu, left, httpVars, expects>>

\* Paused: the lock is given back.
Park ==
  /\ Goes("slice", "parked")
  /\ Free
  /\ IsPaused

RunSlice ==
  /\ gpc = "slice"
  /\ Lock("game")
  /\ ~should_quit
  /\ ~IsPaused
  /\ BeginCpu(0)
  /\ UNCHANGED <<flags, points, runVars, httpVars, expects>>

\* The polling loop ends; what follows is decided under the lock again.
Unpark ==
  /\ Goes("parked", "relock")
  /\ ~IsPaused \/ time_to_reset

ReturnUnrun ==
  /\ gpc = "relock"
  /\ Free
  /\ should_quit \/ time_to_reset
  /\ time_to_quit' = (time_to_quit \/ should_quit)
  /\ gpc' = "loop"
  /\ UNCHANGED <<flags, points, mame_mutex, time_to_reset, cpu, left, httpVars, expects>>

RunAfterPause ==
  /\ gpc = "relock"
  /\ Lock("game")
  /\ ~should_quit /\ ~time_to_reset
  /\ BeginCpu(0)
  /\ UNCHANGED <<flags, points, runVars, httpVars, expects>>

-----------------------------------------------------------------------------
(***************************************************************************)
(* An instruction: the hook, the wait, the execution.                      *)
(***************************************************************************)

\* remote_debug_breakpoint_hook finds a point: execution halts here, and the
\* temporary breakpoints are dropped.
Hit ==
  /\ Game("hook", "test")
  /\ cpu \in Hooked
  /\ points.user + points.temp > 0
  /\ is_paused' = TRUE
  /\ halt_cpu' = cpu
  /\ step_done' = FALSE
  /\ points' = [points EXCEPT !.temp = 0]
  /\ expects' = IF expects = "step" THEN "step" ELSE "halt"
  /\ UNCHANGED <<step_requested, reset_pending, should_quit, mame_mutex,
                 runVars, cpu, left, httpVars>>

\* Faulty variant: without points the hook does not look at the pause.
HookLooks_PointsOnly == cpu \in Hooked /\ points.user + points.temp > 0

\* The hook returns early when there is nothing to do for it.
HookLooks == cpu \in Hooked /\ (points.user + points.temp > 0 \/ is_paused)

\* No point matches, or the core has no hook.
NoHit ==
  /\ Goes("hook", IF HookLooks THEN "test" ELSE "exec")

\* is_paused && current_cpu == halt_cpu
Halts == is_paused /\ cpu = halt_cpu

PassHook ==
  /\ Goes("test", "exec")
  /\ ~Halts

\* Faulty variant: the lock is kept during the wait.
BeginWait_Locked ==
  /\ Game("test", "wait")
  /\ Halts
  /\ step_done' = FALSE
  /\ UNCHANGED <<is_paused, step_requested, reset_pending, should_quit, halt_cpu,
                 points, mame_mutex, runVars, cpu, left, httpVars, expects>>

\* wait_while_paused: a finished step is announced, the lock is dropped.
BeginWait ==
  /\ Game("test", "wait")
  /\ Halts
  /\ step_done' = FALSE
  /\ Unlock
  /\ UNCHANGED <<is_paused, step_requested, reset_pending, should_quit, halt_cpu,
                 points, runVars, cpu, left, httpVars, expects>>

\* Faulty variant: the wait does not look at the request to quit.
WaitOver_DeafToQuit == ~is_paused \/ step_requested \/ reset_pending

\* Faulty variant: it does not look at the request to reset.
WaitOver_DeafToReset == ~is_paused \/ step_requested \/ should_quit

\* Faulty variant: the pause is waited for once, not in a loop.
WaitOver_Once == TRUE

\* The condition of the polling loop.
WaitOver == ~is_paused \/ step_requested \/ should_quit \/ reset_pending

\* Faulty variant: the loop ends without taking the lock again.
LockAfterWait_Missing == UNCHANGED mame_mutex

LockAfterWait == Lock("game")

EndWait ==
  /\ Goes("wait", "rewake")
  /\ WaitOver

Rewake ==
  /\ Game("rewake", "exec")
  /\ LockAfterWait

\* Quit and reset come after the slice, which is cut short.
AbortWait ==
  /\ Rewake
  /\ should_quit \/ reset_pending
  /\ left' = 1
  /\ UNCHANGED <<flags, points, runVars, cpu, httpVars, expects>>

TakeStep ==
  /\ Rewake
  /\ ~should_quit /\ ~reset_pending
  /\ is_paused /\ step_requested
  /\ step_requested' = FALSE
  /\ step_done' = TRUE
  /\ expects' = IF expects = "step" THEN "nothing" ELSE expects
  /\ UNCHANGED <<is_paused, reset_pending, should_quit, halt_cpu, points, runVars,
                 cpu, left, httpVars>>

Resumed ==
  /\ Rewake
  /\ ~should_quit /\ ~reset_pending
  /\ ~(is_paused /\ step_requested)
  /\ UNCHANGED <<flags, points, runVars, cpu, left, httpVars, expects>>

NextInstruction ==
  \/ /\ left > 1
     /\ left' = left - 1
     /\ gpc' = "hook"
     /\ UNCHANGED cpu
  \/ /\ left = 1
     /\ cpu < NumCpu - 1
     /\ BeginCpu(cpu + 1)
  \/ /\ left = 1
     /\ cpu = NumCpu - 1
     /\ gpc' = "timers"
     /\ cpu' = 0
     /\ left' = 0

Executed == expects' = IF expects = "halt" THEN "nothing" ELSE expects

Execute ==
  /\ gpc = "exec"
  /\ NextInstruction
  /\ Executed
  /\ UNCHANGED <<flags, points, mame_mutex, runVars, httpVars>>

\* An access hits a watchpoint (remote_debug_memref).
WatchHit ==
  /\ points.watch > 0
  /\ points' = [points EXCEPT !.watch = @ - 1]
  /\ is_paused' = TRUE

\* It is an access of the instruction.
ExecuteWatched ==
  /\ gpc = "exec"
  /\ WatchHit
  /\ NextInstruction
  /\ halt_cpu' = cpu
  /\ Executed
  /\ UNCHANGED <<step_requested, step_done, reset_pending, should_quit,
                 mame_mutex, runVars, httpVars>>

(***************************************************************************)
(* timer_adjust_global_time: the frame ends in some slices, and with it    *)
(* come a monitor's break, the reset key and the watchdog, and             *)
(* time_to_quit = updatescreen().  cpu_run unlocks.                        *)
(***************************************************************************)
Timers ==
  /\ Game("timers", "loop")
  /\ Unlock
  /\ UNCHANGED <<flags, points, runVars, cpu, left, httpVars, expects>>

MonitorBreak ==
  /\ Game("timers", "loop")
  /\ Unlock
  /\ is_paused' = TRUE
  /\ UNCHANGED <<step_requested, step_done, reset_pending, should_quit, halt_cpu,
                 points, runVars, cpu, left, httpVars, expects>>

KeyReset ==
  /\ Game("timers", "loop")
  /\ Unlock
  /\ time_to_reset' = TRUE
  /\ UNCHANGED <<flags, points, time_to_quit, cpu, left, httpVars, expects>>

UpdateScreen ==
  /\ Game("timers", "loop")
  /\ Unlock
  /\ time_to_quit' \in {should_quit, TRUE}
  /\ UNCHANGED <<flags, points, time_to_reset, cpu, left, httpVars, expects>>

-----------------------------------------------------------------------------
(***************************************************************************)
(* The HTTP server thread.                                                 *)
(***************************************************************************)
Http(from, to) == hpc = from /\ hpc' = to

\* while (!stop_requested)
Poll ==
  /\ Http("poll", IF stop_requested THEN "exited" ELSE "events")
  /\ UNCHANGED <<flags, points, mame_mutex, runVars, gameVars, was, requests,
                 stop_requested, expects>>

\* remote_debug_next_event, and publish_event at the end of a request: the
\* lock is taken and given back, the event ring is not modelled.
Events ==
  /\ \/ Http("events", "accept")
     \/ Http("publish", "poll")
  /\ Free
  /\ UNCHANGED <<flags, points, mame_mutex, runVars, gameVars, was, requests,
                 stop_requested, expects>>

NoRequest ==
  /\ Http("accept", "poll")
  /\ UNCHANGED <<flags, points, mame_mutex, runVars, gameVars, was, requests,
                 stop_requested, expects>>

Accept(to) ==
  /\ requests < MaxRequests
  /\ requests' = requests + 1
  /\ Http("accept", to)

\* remote_debug_set_paused(1).
Pause ==
  /\ Accept("pause")
  /\ was' = is_paused
  /\ UNCHANGED <<flags, points, mame_mutex, runVars, gameVars, stop_requested, expects>>

PauseCpu ==
  /\ Http("pause", "pausing")
  /\ halt_cpu' = IF was THEN halt_cpu ELSE 0
  /\ UNCHANGED <<is_paused, step_requested, step_done, reset_pending, should_quit,
                 points, mame_mutex, runVars, gameVars, was, requests,
                 stop_requested, expects>>

PauseFlag ==
  /\ Http("pausing", IF was THEN "poll" ELSE "publish")
  /\ is_paused' = TRUE
  /\ was' = FALSE
  /\ UNCHANGED <<step_requested, step_done, reset_pending, should_quit, halt_cpu,
                 points, mame_mutex, runVars, gameVars, requests, stop_requested,
                 expects>>

\* remote_debug_set_paused(0).
Resume ==
  /\ Accept(IF is_paused THEN "publish" ELSE "poll")
  /\ is_paused' = FALSE
  /\ expects' = "nothing"
  /\ UNCHANGED <<step_requested, step_done, reset_pending, should_quit, halt_cpu,
                 points, mame_mutex, runVars, gameVars, was, stop_requested>>

\* remote_debug_step sets two flags.
Step ==
  /\ Accept("step")
  /\ is_paused' = TRUE
  /\ UNCHANGED <<step_requested, step_done, reset_pending, should_quit, halt_cpu,
                 points, mame_mutex, runVars, gameVars, was, stop_requested, expects>>

\* It is also called with the lock held, by remote_debug_step_over and
\* remote_debug_step_out, which then give it back.
StepFlag ==
  /\ hpc \in {"step", "stepping"}
  /\ hpc' = "publish"
  /\ step_requested' = TRUE
  /\ mame_mutex' = IF hpc = "stepping" THEN "none" ELSE mame_mutex
  /\ expects' = "step"
  /\ UNCHANGED <<is_paused, step_done, reset_pending, should_quit, halt_cpu,
                 points, runVars, gameVars, was, requests, stop_requested>>

\* A request that begins by taking the lock.
LockingRequest ==
  /\ \E want \in HttpWants : Accept(want)
  /\ UNCHANGED <<flags, points, mame_mutex, runVars, gameVars, was,
                 stop_requested, expects>>

\* Step over and step out where there is no call to run to the end of.
StepOver ==
  /\ Http("step over", "stepping")
  /\ Lock("http")
  /\ is_paused' = TRUE
  /\ UNCHANGED <<step_requested, step_done, reset_pending, should_quit, halt_cpu,
                 points, runVars, gameVars, was, requests, stop_requested, expects>>

\* Faulty variant: the last entry is taken for the one behind it.
Room_OffByOne == points.user + points.temp <= MAX_POINTS

\* A full table takes no further point.
Room == points.user + points.temp < MAX_POINTS

\* Run to, step over and step out: a temporary breakpoint, if there is room,
\* and on.
RunTo ==
  /\ hpc \in {"run to", "step over"}
  /\ hpc' = "resuming"
  /\ Lock("http")
  /\ points' = IF Room THEN [points EXCEPT !.temp = @ + 1] ELSE points
  /\ UNCHANGED <<flags, runVars, gameVars, was, requests, stop_requested, expects>>

RunToFlag ==
  /\ Http("resuming", "publish")
  /\ Unlock
  /\ is_paused' = FALSE
  /\ expects' = "nothing"
  /\ UNCHANGED <<step_requested, step_done, reset_pending, should_quit, halt_cpu,
                 points, runVars, gameVars, was, requests, stop_requested>>

\* remote_debug_reset: the request, then machine_reset().
Reset ==
  /\ Http("reset", "resetting")
  /\ Lock("http")
  /\ reset_pending' = TRUE
  /\ expects' = "nothing"
  /\ UNCHANGED <<is_paused, step_requested, step_done, should_quit, halt_cpu,
                 points, runVars, gameVars, was, requests, stop_requested>>

ResetFlag ==
  /\ Http("resetting", "publish")
  /\ Unlock
  /\ time_to_reset' = TRUE
  /\ UNCHANGED <<flags, points, time_to_quit, gameVars, was, requests,
                 stop_requested, expects>>

\* remote_debug_quit.
Quit ==
  /\ Accept("publish")
  /\ should_quit' = TRUE
  /\ expects' = "nothing"
  /\ UNCHANGED <<is_paused, step_requested, step_done, reset_pending, halt_cpu,
                 points, mame_mutex, runVars, gameVars, was, stop_requested>>

\* The tables are edited under the lock: add, delete, clear; watchpoints are
\* set or cleared.
EditPoints ==
  /\ Http("edit", "publish")
  /\ Free
  /\ \/ Room /\ points' = [points EXCEPT !.user = @ + 1]
     \/ points.user > 0 /\ points' = [points EXCEPT !.user = @ - 1]
     \/ points.temp > 0 /\ points' = [points EXCEPT !.temp = @ - 1]
     \/ points' = [points EXCEPT !.user = 0, !.temp = 0]
     \/ points' = [points EXCEPT !.watch = IF @ = 0 THEN MaxHits ELSE 0]
  /\ UNCHANGED <<flags, mame_mutex, runVars, gameVars, was, requests, stop_requested, expects>>

\* Any request that looks at the machine.
Read ==
  /\ Http("read", "reading")
  /\ Lock("http")
  /\ UNCHANGED <<flags, points, runVars, gameVars, was, requests, stop_requested, expects>>

ReadDone ==
  /\ Http("reading", "poll")
  /\ Unlock
  /\ UNCHANGED <<flags, points, runVars, gameVars, was, requests, stop_requested,
                 expects>>

\* Reading memory goes through the same macros as the CPU's accesses, so it
\* can hit a watchpoint itself.
ReadWatched ==
  /\ Http("reading", "poll")
  /\ WatchHit
  /\ Unlock
  /\ halt_cpu' \in CPU
  /\ UNCHANGED <<step_requested, step_done, reset_pending, should_quit,
                 runVars, gameVars, was, requests, stop_requested, expects>>

-----------------------------------------------------------------------------
CpuRun   == \/ PreRun \/ PreRunDone \/ ClearReset \/ ResetDone \/ Loop
            \/ PostRun \/ PostRunDone \/ StopServer \/ Joined
Slice    == QuitSlice \/ Park \/ RunSlice \/ Unpark \/ ReturnUnrun \/ RunAfterPause
Instruct == \/ Hit \/ NoHit \/ PassHook \/ BeginWait \/ EndWait \/ AbortWait \/ TakeStep
            \/ Resumed \/ Execute \/ ExecuteWatched
Frame    == Timers \/ MonitorBreak \/ KeyReset \/ UpdateScreen
Emulator == CpuRun \/ Slice \/ Instruct \/ Frame

Request == Pause \/ Resume \/ Step \/ Quit \/ LockingRequest
TakeLock == Events \/ StepOver \/ RunTo \/ Reset \/ EditPoints \/ Read
Serve   == \/ Poll \/ NoRequest \/ PauseCpu \/ PauseFlag \/ StepFlag
           \/ RunToFlag \/ ResetFlag \/ ReadDone \/ ReadWatched
Server  == Request \/ TakeLock \/ Serve

Next == Emulator \/ Server

(***************************************************************************)
(* Both threads run.  The emulator thread sleeps between two slices "to    *)
(* allow HTTP thread to grab the lock" (cpuexec.c:445): a lock the HTTP    *)
(* thread can take again and again it takes.                               *)
(***************************************************************************)
Fairness == WF_vars(Emulator) /\ WF_vars(Server) /\ SF_vars(TakeLock)

Spec == Init /\ [][Next]_vars /\ Fairness
-----------------------------------------------------------------------------
(***************************************************************************)
(* Properties.                                                             *)
(***************************************************************************)
FlagTypes ==
  /\ is_paused \in BOOLEAN /\ step_requested \in BOOLEAN /\ step_done \in BOOLEAN
  /\ reset_pending \in BOOLEAN /\ should_quit \in BOOLEAN /\ was \in BOOLEAN
  /\ time_to_reset \in BOOLEAN /\ time_to_quit \in BOOLEAN
  /\ stop_requested \in BOOLEAN

PlaceTypes ==
  /\ mame_mutex \in {"none", "game", "http"}
  /\ gpc \in GamePC
  /\ hpc \in HttpPC
  /\ expects \in {"nothing", "step", "halt"}

CountTypes ==
  /\ halt_cpu \in CPU
  /\ cpu \in CPU
  /\ left \in 0 .. Share
  /\ requests \in 0 .. MaxRequests

PointTypes ==
  /\ points \in [user : Nat, temp : Nat, watch : 0 .. MaxHits]
  /\ points.user + points.temp <= MAX_POINTS

\* The types, and that the breakpoints, the user's and temporary ones together,
\* never outgrow their table.
TypeOK == FlagTypes /\ PlaceTypes /\ CountTypes /\ PointTypes

\* The HTTP thread looks at the machine only between slices or while the
\* emulator waits in front of an instruction, never while one is executed,
\* timers run, or the CPUs are (re)initialised (cpuexec.c:424), although the
\* lock is dropped and taken again in the middle of a slice.
MachineReadAtRest == hpc \in HttpLocked => gpc \notin GameLocked

\* A reset the debugger waits for is under way: its flag never stays set when
\* the loop of cpu_run no longer knows of a reset, whatever the order in which
\* the two threads set and clear the two flags.  Otherwise no wait would hold
\* any more.
ResetIsUnderWay ==
  reset_pending => \/ time_to_reset
                   \/ hpc = "resetting"
                   \/ gpc = "resetdone"

\* "Stay here until resumed or stepped, so that this instruction has not been
\* executed yet" (remote_debug.c:1131): in front of a breakpoint the machine
\* stands still until somebody asks it to go on, or to reset or quit.
BreakpointHolds == gpc = "exec" /\ expects = "halt" => should_quit \/ reset_pending

\* What is left of that, and all that can go wrong with it: quit and reset
\* apart, the instruction under a breakpoint is executed although nobody asked
\* for it since the hit only because of a step that was asked for
\* before the halt (step_done says that it was spent here), or on another CPU
\* than 0, when a pause that began before the halt takes the halt away from
\* that CPU (remote_debug.c:797-799).  No wait ends by itself, and no resume,
\* run-to or edit of the points that came first gets past a breakpoint.
HaltIsOverriddenOnlyByRaces ==
  gpc = "exec" /\ expects = "halt" =>
    \/ should_quit \/ reset_pending
    \/ step_done
    \/ cpu # 0 /\ halt_cpu = 0

Leaving == should_quit \/ time_to_quit

AtRest == gpc \in {"parked", "wait"}

\* A paused machine comes to rest, also when it is stepped, reset, or hits a
\* breakpoint meanwhile.
PauseStops == is_paused ~> AtRest \/ ~is_paused \/ Leaving

\* A step that is asked for is taken, unless execution is resumed before.
StepIsTaken ==
  step_requested /\ is_paused ~> ~step_requested \/ ~is_paused \/ Leaving

\* A reset that is asked for is carried out, also of a paused machine.
ResetHappens == reset_pending ~> ~reset_pending \/ Leaving

\* The HTTP thread always gets through with a request, also while the machine
\* is paused, and when it is being joined.
RequestIsServed == hpc # "exited" ~> hpc \in {"poll", "exited"}

\* A request to quit ends the emulation and the server from every state.
QuitEnds == should_quit ~> gpc = "done" /\ hpc = "exited"
=============================================================================
