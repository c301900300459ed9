# PinMAME, specified in TLA+

A verification project for the core of PinMAME: the parts that decide *when*
something happens in an emulated pinball machine (timers, CPU scheduling,
interrupts) and the parts where the emulation meets the program that hosts it
(starting, stopping, resetting and pausing a game, writing its memory).
Everything is translated from the C and C++ under `src/`; paths below are
relative to `src/src/`.

## The system

| Part | State it keeps | Operations | Hard behaviour |
|---|---|---|---|
| Timers (`timer.c`, `timer.h`) | `timers[256]`, active list sorted by expiry, FIFO free list, the callback statics, `global_offset` | alloc, adjust, pulse, set, reset, enable, remove, free a scope, move time and fire | callbacks edit the list that is being fired; equal expiries; pool exhausted |
| Resource tracking (`common.c`) | `resource_tracking_tag` | begin, end | resets of the machine while timers are set |
| CPU scheduler (`cpuexec.c`) | per CPU: suspend/nextsuspend, eatcycles, trigger, localtime | timeslice, suspend, resume, trigger, reset and halt lines | slices cut short by a CPU after others ran past the cut; requests pending in `nextsuspend` |
| Interrupts (`cpuint.c`) | event queue and its index, line states, enable flags | request, drain, acknowledge, enable, clear, reset | the core acknowledges and drivers request inside the drain; queue full; reset frees the timer |
| Run loop (`cpuexec.c`, `mame.c`, `usrintrf.c`, `wpc/core.c`) | `time_to_quit`, `time_to_reset`, `g_fPause` | run, reset, pause loop | plain flags set by other threads and tested once a slice |
| libpinmame API (`libpinmame/libpinmame.cpp`) | `_isRunning`, `_timeToQuit`, thread object, thread id, `registered`, posted callbacks | run, stop, reset, pause, state changes | two threads, one join, one blocking callback in the other direction |
| Host writes (same file) | queue of pointers into stack frames, `done` flags, shared lock | write, drain, withdraw | timeout races the drain |
| Time fence (`cpuexec.c`, `wpc/vpintf.c`) | semaphore, offset | set, park, realign | the thread that waits may be the one that must move the fence |
| VBLANK and timed interrupts (`cpuexec.c`) | countdowns, multipliers | callbacks | several interrupt rates sharing one timer |
| Sound boards and commands (`wpc/sndbrd.c`, `wpc/snd_cmd.c`, `sndintrf.c`) | five sync slots, latches, log rings | write, sync, latch | slots leaked by a reset, latch overrun |
| Remote debugger (`remote_debug/`) | pause, step, reset, quit flags, breakpoints, one recursive lock | HTTP commands, instruction hook | flags set without the lock; the lock dropped in the middle of a slice while paused |
| Chips (`machine/`) | registers | read, write, lines | edges, priorities, serial protocols |
| Mechs, ball simulator, outputs (`wpc/mech.c`, `wpc/sim.c`, `wpc/core.c`) | positions, lamps, segments | per frame | wrap-around, filtering |
| Streams and mixer (`sound/`) | sample counts | update | counts drifting apart |
| RTC dates (`timer.c`), save states (`state.c`), memory maps (`memory.c`) | tables | pure functions, I/O | edge values |

How they interact: `cpu_run` calls `cpu_timeslice` in a loop. A slice runs each
CPU up to the first timer; handlers called by the CPUs set timers, request
interrupts, suspend and trigger CPUs; setting the first timer of the list, a
suspension and a trigger cut the slice short. Then `timer_adjust_global_time`
fires the due timers, among them the one that drains the interrupt queue. Once
a frame the video callback drains the writes of the host and tells the
scheduler whether the player wants to quit; after each slice the scheduler
asks libpinmame whether the host does. With the remote debugger the slice runs
under a lock that an HTTP thread takes between slices, or while the emulation
waits paused in front of an instruction. Machine init and stop report to
libpinmame, which posts callbacks to the host's main thread. What makes each
part correct is stated as its properties below and, line by line, in the
`hazards` of `PROJECT.json`.

## Modules

| Module | Models | State and actions |
|---|---|---|
| `TimerList` | the pool of timers as a value | one operator per C function of `timer.c`; `older` is a history of who was inserted first |
| `Timer` | the timer system at work | clients calling those functions, from CPUs and from inside callbacks; `Advance`, `Fire`, `CallbackReturn`, `FireSilently`, `FireDone` are the stages of `timer_adjust_global_time`; `BeginTracking`, `EndTracking`, `FreeNext`, `FreeDone` those of a reset |
| `TimerAgenda` | what the timer system promises: timers that are armed with a time left, disarmed, and fired when due, in order | `Arm`, `Disarm`, `Pass`, `Fire`, `Return`, `Finish`; `Timer` maps to it by `Armed`, `Left` and the place of the thread |
| `CpuExec` | `cpu_timeslice` and what CPUs do in it | one action per stage of the slice, per callback of a timer, per thing an instruction can do; timers cut down to a sequence of what fires when |
| `CpuInt` | interrupt requests of one CPU | one action per entry point of `cpuint.c`; the drain is split where the CPU core gets control |
| `IrqOrder` | what `cpuint.c` promises those who request interrupts: requests served in their order, lines that otherwise only go down | `Ask`, `Begin`, `Serve`, `EndPulse`, `End`, `Take`, `ClearAll`, `Reset`; `CpuInt` maps to it by `Pending` (what the drain has not reached), `Held` and the place of the drain |
| `LibPinmame` | the life of a game | the host's main thread in `PinmameStop` and the game thread in `run_game`, with a program counter each |
| `GameLife` | what the host sees of it: the run state, a thread to join, a stop under way, a game thread that waits for the main thread | `Run`, `MachineUp`, `MachineDown`, `Wait`, `Answer`, `Over`, `BeginStop`, `ReturnFromStop`; `LibPinmame` maps to it by `_isRunning`, `_p_gameThread` and the two program counters |
| `HostWrite` | writing memory from host threads, with the time fence | a program counter per host thread and one for the game thread; each critical section of `g_writeMutex` is a step |
| `OrderedWrites` | what a host is promised of its writes: one queue, effects in order, true answers | `Begin`, `Refuse`, `Ask`, `Perform`, `Return`, `Withdraw`, `StopOrStart`; `HostWrite` maps to it by `Pending` (the batch, then the queue) and `Calling` |
| `RemoteDebug` | execution control by the remote debugger | a program counter for the HTTP thread (`hpc`), one for the emulator thread (`gpc`) and who holds `mame_mutex`; one action per request, per stage of `cpu_run`, of a slice and of the instruction hook |
| `TimerProofs`, `CpuExecProofs`, `CpuIntProofs`, `LibPinmameProofs`, `HostWriteProofs`, `RemoteDebugProofs` | theorems about each module | see below |
| `SequenceFacts` | lemmas about inserting into and removing from sequences that several proofs use | |

`MCTimer`, `MCCpuExec`, `MCCpuInt`, `MCLibPinmame`, `MCHostWrite` and
`MCRemoteDebug` instantiate them for TLC. Definitions whose name has a suffix
after an underscore and whose comment begins "Faulty variant" are not part of any specification: each is a
plausible bug of the operator that follows it, and `PROJECT.json` says which
property that bug breaks.

Assertions of the code are taken as compiled out (`NDEBUG`), which is what the
code after `assert(!msgLocals.registered)` is written for. Where two threads
share a plain variable (`_timeToQuit`, `g_fPause`, `registered`, `time_to_reset`)
reads and writes of it are taken as atomic; they interleave freely.

## What is checked

| Run | Instance | Shows |
|---|---|---|
| `timers` | 3 slots, slop 1, durations -1 and 2, periods 0 and 3, callbacks that may be NULL, time up to 4, one start with its end | `TypeOK`, `SlotsPartitioned`, `ExpiryOrder`, `NoTimerOutlivesScope`, `OneShotArmedOrGone`, `NothingOverdueMissed`, and that `Timer` implements `TimerAgenda` (`KeepsAgenda`) |
| `cpu_exec` | CPUs with cycles of 1 and 2, instructions of 1 or 2 cycles, slices of 5, 3 timers | `NoCpuFallsBehind`, `TimersFireOnTime`, `ReleasedCpuWasReset`, `WaitIsGuarded`, `TypeOK` |
| `cpu_exec_miss` | the same | violated: `NoTriggerMissed` |
| `cpu_int` | a normal line and the NMI, queue of 2, up to 3 requests per batch, 2 timers, `timer_set` may fail | `QueueIsServed`, `HoldTakenOnce`, `NoLineStuck`, `NothingLostInDrain`, `TypeOK`, and that `CpuInt` implements `IrqOrder` (`KeepsIrqOrder`) |
| `cpu_int_full` | the same | violated: `DrainStaysInQueue` |
| `lib_stop` | 2 runs, 2 resets, message API set, one host thread | `StoppableWhileEmulating`, `NeverForcedToStop`, `EndRequestHasItsWaiter`, `StopReturns`, `TypeOK`, and that `LibPinmame` implements `GameLife` (`KeepsGameLife`) |
| `lib_stopping`, `lib_running` | the same | violated: `NeverStoppedRegistered`, `OnlyRunningRegisters` |
| `lib_reset` | the same, with further host threads | violated: `ResetIsKept` |
| `host_write` | 2 host threads, 2 calls each, semaphore up to 2 | `AnswerIsTrue`, `NoUseAfterReturn`, `NoTearDownUnderWrite`, `NoParkOnQueuedWrite`, `EveryCallReturns`, `TypeOK`, and that `HostWrite` implements `OrderedWrites` (`KeepsOrderedWrites`) |
| `remote_debug` | 2 CPUs with the hook, up to 2 instructions each per slice, 4 requests, a table of 1 breakpoint, 1 watchpoint hit | `MachineReadAtRest`, `ResetIsUnderWay`, `HaltIsOverriddenOnlyByRaces`, `PauseStops`, `StepIsTaken`, `ResetHappens`, `RequestIsServed`, `QuitEnds`, `TypeOK` |
| `remote_debug_hit` | the same | violated: `BreakpointHolds` |

Why the bounds are enough to be interesting. Three timer slots are the one that
fires, the one its callback touches and one more to be behind or in front; the
pool is full in most states. Durations lie on both sides of the slop and of the
slice. A state of `Timer` or `CpuExec` carries fields that are never read again
(those of free slots, those of a wait that is over); the VIEWs of the MC modules
leave exactly these out. `OneStart` confines `timers` to one
start of the machine and its end; a second start with timers left from before it
is covered by the theorems, which have no bound. In `cpu_exec` one CPU
can run several instructions and be rounded by half a cycle of the other;
`LagBound` stops exploring when a CPU has yielded for longer than two units, for
its lag is unbounded in the code; the theorems do without that bound and without
the view. The queue of `cpu_int` holds two events so that
the third overflows. Two runs and two resets in `LibPinmame` let a second one
meet the remains of the first: an unjoined thread, a posted callback, a flag.
Two writers can be one in the queue and one in the drain's batch, and a second
call can meet what a withdrawn first one left. Four requests to the debugger are
a pause, a step, a resume or run-to that overtakes it, and one more. `MaxHits`
is a bound that matters: two CPUs that hit watchpoints in turn move `halt_cpu` to
and fro, each time before the machine has come to rest in front of an instruction
of the other, and without it `PauseStops` would not hold.

Deadlock is checked except for `LibPinmame` and `RemoteDebug`, which really stop:
the first when the bounds are used up and in the race described by `StopReturns`,
the second when both threads have ended.

Fairness. `LibPinmame`: both threads are scheduled by the operating system, a
stop that has begun runs on, and the host's message pump runs posted callbacks
between calls. No call of the host and no key of the player is fair.
`HostWrite`: host threads run, their 250 ms do pass, and a drain that has begun
goes on; nothing is assumed of the rest of the emulation, since the claim is
that a stalled emulator cannot hang a caller. `RemoteDebug`: both threads run,
no request is fair, and taking the lock is strongly fair for the HTTP thread,
because the emulator thread sleeps between slices for that purpose
(`cpuexec.c:445`, "Tiny gap to allow HTTP thread to grab the lock").
The other modules have no liveness properties: they are driven by what the emulated program does.

### Where the code and its comments disagree

The six runs expected to be violated; `PROJECT.json` quotes the lines.

1. `NeverStoppedRegistered`: a machine reset reaches the stopping state with the
   message API registered, against the comment and assertion in `OnStateChange`.
2. `OnlyRunningRegisters`: the posted `OnGameStart` does not check that the game
   still runs, against the comment and assertion in `SetupMsgApi`.
3. `ResetIsKept`: a reset requested while `cpu_pre_run` finishes is accepted and
   dropped by `time_to_reset = 0`.
4. `DrainStaysInQueue`: the event index counts refused requests.
5. `NoTriggerMissed`: a trigger in the slice in which the wait began is lost.
   `WaitIsGuarded` shows that the guard timer of `wpc/rfranco.c` is not affected.
6. `BreakpointHolds`: a step that was overtaken by a resume or a run-to stays
   requested, and the next breakpoint spends it and executes its instruction.
   `HaltIsOverriddenOnlyByRaces` says what is left: of the requests made before the
   hit, quit and reset apart, only such a step gets past a breakpoint, and a pause
   that began before a hit on another CPU than 0 and then sets `halt_cpu` to 0.

`StopReturns` names two ways for `PinmameStop` to hang: the game thread waits
for the main thread in `OnStateChange(3)`, and a pause key after the stop has
lifted the pause. `QueueIsServed` names one way for interrupt requests to be lost:
`timer_set` finds no slot for the first of a batch, says nothing, and no later
request tries again until the machine is reset.

Seen in the source of the debugger while modelling it, without a run: a step asked
of a CPU whose core has no hook is never taken, though `remote_debug/README.md:506`
offers single step on all platforms; a halt by a watchpoint or a monitor leaves
temporary breakpoints in place; a run-to with a full table resumes without its breakpoint.

## What is proved

Every safety property of a passing run, invariant or action property, is a theorem
for every value of the constants; so are the four refinements. Each proof module finds an
inductive invariant (`IInv`; separate ones in `RemoteDebugProofs`), shows that
`Init` implies it and that each action keeps it, and reads the properties off it.
The bounds on counters (calls, runs, requests, pending interrupts, timers) are
constants too: no theorem depends on their value.

### The timer system

`TimerProofs` proves for every number of slots, every slop, every set of
durations, periods, slice lengths and local times:

- `TypeCorrect`, `SlotsStayPartitioned`, `ListStaysSorted`,
  `ScopesOwnTheirTimers`, `OneShotsFireOnce`: `Spec => []` of `TypeOK`,
  `SlotsPartitioned`, `ExpiryOrder`, `NoTimerOutlivesScope`,
  `OneShotArmedOrGone`;
- `NothingIsMissed`: `Spec => NothingOverdueMissed`, an action property;
- `ImplementsAgenda`: `Spec => KeepsAgenda`, that is, every step is a step of
  `TimerAgenda` or leaves it alone;
- `Invariance`: `Spec => []IInv`, on which they all rest.

The argument. `ExpiryOrder` is not inductive: to know that an insertion keeps the
order one must know that the history `older` orders what is within the slop, that
it relates active timers only, and that disabled timers, which keep their old
expiry in the list, cannot come between. `Wellformed` collects what is true of
the pool alone; each operator of `TimerList` has a lemma that it keeps
`Wellformed` and says which timers it touches. Removing a timer leaves every
clause but the partition (`RemoveDetaches`), inserting restores it
(`InsertRestores`), and all relinking calls are compositions of the two
(`RelistRestores`). `IInv` adds what ties the pool to the program: who owns a
timer (its tag and the callback that runs), that the timeslice timer is always
armed while the machine runs, so the head of the list exists and is the
reason why `HeadDue` is decisive, and that a temporary timer is never the one a
callback adjusted. `ClientIInv`, `ElapseIInv` and `TrackingIInv` go through
`Next` action by action.

The refinement uses the same invariant. A call touches one timer (`Touches`), and
so is an `Arm` or a `Disarm` (`CallMaps`). The head of the list is due and first
among the armed timers (`HeadComesFirst`), so what fires is what the agenda lets
fire (`FireMaps`). The timer whose callback runs is mapped to the time it will
have afterwards, unless the callback adjusted it; that makes the return from the
callback invisible but for the end of the handler (`CallbackReturnMaps`).

Assumptions: `TimerAssumption` and `ClientAssumption`, that is: there are slots,
the slop is positive and far from `Never`, durations are integers, periods and
slices natural numbers.

### The scheduler

`CpuExecProofs`: `SchedulerTypeCorrect`, `NoCpuIsLate`, `TimersAreOnTime`,
`ReleasedCpuIsReset`, `GuardEndsTheWait`, from `SchedulerInvariance`.

Two arguments meet in `IInv`. Time: a CPU that is given cycles for what is left of
the slice ends within half a cycle of the target, because the number of cycles is
rounded and an instruction that runs over only adds (`Rounding`); a CPU that stops
short takes the target down to its own time. So those whose turn has passed are at
the target (`Reached`), suspended CPUs too unless they yielded, as they eat their
cycles (`Eating`), and no timer is earlier than the target by more than the
instruction that set it (`OnTime`). Lines: setting the timer of a line cuts the
slice for CPU 1, which drives the lines, so CPU 1 does nothing more before that
timer has fired and no two line changes are pending together (`LineTimers`). A
RESET suspension is then in force, not only requested, when its release comes
(`ResetLines`); that is why `ReleasedCpuWasReset` holds, and `Waiting` says the same
of the guard timer and the wait it ends.

Assumptions: `CpuAssumption`: there is a CPU, cycles are positive integers,
instructions take at least one cycle, slices have a positive length.

### Interrupt requests

`CpuIntProofs`: `IntTypeCorrect`, `QueueAlwaysServed`, `HoldIsTakenOnce`,
`NoLineStaysStuck`, `DrainLosesNothing`, from `IntInvariance`. The loop has handled
as many requests as its variable says and `irq_event_index` counts all of them
(`Counts`), so it ends only when all are handled. A line the core sees
asserted has a state that says so, or is the one that is being pulsed (`Lines`).

`ImplementsIrqOrder`: `Spec => KeepsIrqOrder`. The pending requests of `IrqOrder` are
the cells of the queue from the one the loop has reached up to `irq_event_index`;
a count beyond the array stands for a request of which nothing is remembered, so
its cell may hold any event (`PendingCells`, `PendingFacts`). A request adds one at the
end, whether it is made before the drain, in a hook inside it or during a reset
(`RequestMaps`), and the loop takes the first (`ServeMaps`); a driver's acknowledge in
the middle of the loop changes only what `Take` allows, because the state was stored
before the core got the line (`TakeMaps`). That the same cells are meant before and
after a step is what the invariant is for.

`IntAssumption`: the queue has a cell, the NMI is a line, the bound is a number.

### The life of a game

`LibPinmameProofs`: `LifeTypeCorrect`, `StopReachesTheGame`, `NothingToForce`,
`EndRequestsAreAwaited`, from `LifeInvariance`. `_isRunning`, `_p_gameThread` and
the place of the game thread are written by two threads without a lock; `Thread`
says that a game thread that has not ended is the one in `_p_gameThread`, and that
the state is 0 exactly without one. `Requests` says that at most one `OnGameEnd` is
posted, exactly while the game thread waits for it.

`ImplementsGameLife`: `Spec => KeepsGameLife`, from `StagesInvariance`, which adds to
`IInv` that the place of the game thread and `_isRunning` agree at each of its
stages (`Stages`): the three assignments of the game thread then come only where
`GameLife` has a step for them (`ReportMaps`), an `OnGameEnd` at the head of the
queue finds the thread waiting (`EndIsAwaited`, `CallbackMaps`), and the two places
where `PinmameStop` forces the state change nothing (`HostMaps`). So a stop returns
only from a game that is over, and a game that waits for the main thread cannot end
while the main thread is in a stop: the deadlock that `StopReturns` names is in
`GameLife` as well, and not an effect of the flags. `LibAssumption`: two flags,
two bounds.

### Host writes

`HostWriteProofs`: `WriteTypeCorrect`, `AnswersAreTrue`, `NoRequestUsedAfterReturn`,
`TearDownWaits`, `NeverParkedOnAWrite`, from `WriteInvariance`.
A request is in the queue, in the batch of the drain, or in neither, never in both,
and the flag `done`, the place of its owner and the count of applications agree with
that (`Lists`, `Ownership`). Every call holds the shared lock, so the machine cannot
be left while one does (`Locks`); a request that comes in after the drain has
emptied the queue leaves a post behind, so the fence does not hold it up (`Posts`).

`ImplementsOrderedWrites`: `Spec => KeepsOrderedWrites`. A request is pending until
`ApplyWrites` has passed it, whether it stands in the queue or in the batch of the
drain; swapping the queue out is therefore invisible (`TakeMaps`), applying the batch
is one `Perform` of all of it (`ApplyMaps`, `BatchRuns`), and a timeout either
withdraws a request that is still in the queue (`WithdrawMaps`) or waits for one that
is not. Marking the requests done and waking their owners is invisible as well
(`MarkMaps`, `SilentMaps`); the answers come from the flags, which `Ownership` ties to
what was applied (`ReturnMaps`).
`WriteAssumption`: the semaphore can count to one at least.

### The remote debugger

`RemoteDebugProofs`: `DebugTypeCorrect`, `MachineIsReadAtRest`,
`PendingResetIsUnderWay`. Each thread holds the lock exactly in its locked phases,
also around the wait in the middle of a slice (`LockInv`), so the two are never
both in one. `ResetIsUnderWay` is inductive as it stands: the debugger's flag is set
before that of `cpu_run` and cleared after it.
`BreakpointIsOverriddenOnlyByRaces`: from a hit on, the machine is paused, and what
let the emulator thread past the test, or ended its wait, is remembered at each of
its places (`HaltInv`); `LockInv` is needed because an access of the HTTP thread that hits
a watchpoint may set `halt_cpu` to any CPU, but not while the emulator is between the
test and the instruction.
`DebugAssumption`: there is a CPU, a share of at least one instruction, and the
hooked CPUs are among the CPUs.

### Common

The lemmas of `SequenceFacts` are proved from the definitions of the operators with
the library's facts on sequences. TLC evaluates every assumption in the runs of its
module.

Only model-checked: the liveness properties `StopReturns`, `EveryCallReturns`,
`PauseStops`, `StepIsTaken`, `ResetHappens`, `RequestIsServed` and `QuitEnds`,
which are out of the prover's reach.

## Not modelled

- Times are integers, the code's are doubles. `TIME_NEVER` absorbs like a double
  of that size; rounding of sums is not modelled, the slop that is there because
  of it is.
- A callback that removes its own timer (no caller does it), a pool so full that `cpu_inittimers` fails (the code dereferences
  NULL), PULSE_LINE on a reset line, DISABLE as a reason of its own.
- In `CpuExec` the pool of timers is a short sequence without slop.
  `CpuInt`
  keeps its own timers as well; `timer_set` may find the pool full there.
- In `RemoteDebug`: the pause loop of the user interface, which runs inside a slice
  and keeps the lock; the ring of events and their blocking sends; suspended CPUs
  and tracing; a failure of `run_machine` before `cpu_run`; whether a breakpoint's
  condition matches, which is left open.
- In `CpuExec` a CPU that yielded may be late without a bound, as in the code, and
  `cpu_timeslice` does not lower the target to a local time that is not positive
  (`cpuexec.c:1126`): `NoCpuFallsBehind` and `TimersFireOnTime` leave such a CPU out.
- In `HostWrite` the semaphore of the time fence exists from the start: the test of
  `time_fence_initialized` in `time_fence_post` is left out, since the semaphore is
  created before the drain that the post is for.
- What callbacks compute, displays, audio, the game database, vectors, addresses.
- The components with status `not_modelled` in `PROJECT.json`, for the reasons
  given there.

## Plan

1. Model further:
   - `SoundSync` (sync slots that leak on a machine reset, latches), with the timer
     list of `CpuInt` or, better, `TimerAgenda` in the place of the timers that
     `CpuExec` and `CpuInt` now keep themselves;
   - `VBlank` (countdowns of several interrupt rates on one timer against their
     exact rates), `Pic8259`, `Pia`, `Eeprom`, `Streams`;
   - pure algorithms with reference definitions: RTC dates, mech positions;
   - a composition of `LibPinmame` and `HostWrite` around the game thread's id.
2. Prove of each of these what its run checks; that `CpuExec` and `CpuInt`
   with an agenda refine what they do with a sequence; and that `CpuExec` implements
   an abstract scheduler in which local times only meet at the end of a slice.
