------------------------------ MODULE HostWrite ------------------------------
(***************************************************************************)
(* Writing the memory of the emulated CPU from the host's threads          *)
(* (src/src/libpinmame/libpinmame.cpp: WriteMemory, SubmitWrite,           *)
(* libpinmame_drain_pending_writes).                                       *)
(*                                                                         *)
(* A host thread queues a pointer to a request in its own stack frame and  *)
(* waits at most 250 ms, under the shared lock of _stateMutex.  The game   *)
(* thread drains the queue once a frame and when it is ahead of the time   *)
(* fence, which often only the waiting thread could advance.  The race is  *)
(* between the timeout, which withdraws the request, and the drain, which  *)
(* takes it without holding the lock while it applies it.                  *)
(*                                                                         *)
(* Each critical section of g_writeMutex is one step.  Left out: what is   *)
(* written where, and calls made on the game thread itself, which apply    *)
(* the write at once and touch none of this state.                         *)
(***************************************************************************)
EXTENDS Integers, SequencesExt

CONSTANTS
  Writer,    \* the host's threads
  MaxCalls,  \* bound: calls each makes
  MaxPosts   \* bound: what the time fence's semaphore counts up to

ASSUME WriteAssumption ==
  /\ MaxCalls \in Nat
  /\ MaxPosts \in Nat \ {0}

Running  == 1
Stopping == 3

VARIABLES
  isRunning,     \* _isRunning, as far as it is Running or not
  sharedLock,    \* the holders of the shared lock of _stateMutex
  g_writeQueue,  \* the writers whose requests are queued
  batch,         \* the requests taken by the drain
  done,          \* PendingWrite.done
  asleep,        \* the threads blocked in g_writeCv
  wpc,           \* where each writer is
  gpc,           \* where the game thread is
  back,          \* and where it goes when the drain is finished
  ahead,         \* the emulation has reached the time fence
  posts,         \* the count of time_fence_semaphore
  calls,         \* counter for the bound
  applied,       \* history: how often the writer's latest request was applied
  answer         \* history: what its latest finished call returned

lockVars  == <<isRunning, sharedLock>>
queueVars == <<g_writeQueue, batch, done, asleep>>
fenceVars == <<ahead, posts>>
gameVars  == <<gpc, back>>
callVars  == <<wpc, calls, answer>>
vars == <<lockVars, queueVars, fenceVars, gameVars, callVars, applied>>

WriterPC == {"idle", "submit", "waiting", "taken"}
GamePC   == {"slice", "take", "apply", "mark", "notify", "park", "stopped"}

Init ==
  /\ isRunning = Running
  /\ sharedLock = {}
  /\ g_writeQueue = <<>>
  /\ batch = <<>>
  /\ done = [w \in Writer |-> FALSE]
  /\ asleep = {}
  /\ wpc = [w \in Writer |-> "idle"]
  /\ gpc = "slice"
  /\ back = "slice"
  /\ ahead = FALSE
  /\ posts = 0
  /\ calls = [w \in Writer |-> 0]
  /\ applied = [w \in Writer |-> 0]
  /\ answer = [w \in Writer |-> TRUE]

Post == posts' = IF posts < MaxPosts THEN posts + 1 ELSE posts

-----------------------------------------------------------------------------
(***************************************************************************)
(* The host's threads.                                                     *)
(***************************************************************************)

Finish(w, result) ==
  /\ wpc' = [wpc EXCEPT ![w] = "idle"]
  /\ answer' = [answer EXCEPT ![w] = result]

\* Faulty variant: the state is tested, but the lock is not kept.
WriteMemory_Unlocked(w) ==
  /\ wpc[w] = "idle"
  /\ calls[w] < MaxCalls
  /\ isRunning = Running
  /\ calls' = [calls EXCEPT ![w] = @ + 1]
  /\ wpc' = [wpc EXCEPT ![w] = "submit"]
  /\ applied' = [applied EXCEPT ![w] = 0]
  /\ answer' = [answer EXCEPT ![w] = FALSE]
  /\ UNCHANGED <<lockVars, queueVars, fenceVars, gameVars>>

\* WriteMemory takes the shared lock, tests the state and checks the request.
WriteMemory(w) ==
  /\ wpc[w] = "idle"
  /\ calls[w] < MaxCalls
  /\ isRunning = Running
  /\ calls' = [calls EXCEPT ![w] = @ + 1]
  /\ sharedLock' = sharedLock \cup {w}
  /\ wpc' = [wpc EXCEPT ![w] = "submit"]
  /\ applied' = [applied EXCEPT ![w] = 0]
  /\ answer' = [answer EXCEPT ![w] = FALSE]
  /\ UNCHANGED <<isRunning, queueVars, fenceVars, gameVars>>

\* It refuses when the machine does not run or an address is out of range.
WriteRefused(w) ==
  /\ wpc[w] = "idle"
  /\ calls[w] < MaxCalls
  /\ calls' = [calls EXCEPT ![w] = @ + 1]
  /\ applied' = [applied EXCEPT ![w] = 0]
  /\ Finish(w, FALSE)
  /\ UNCHANGED <<lockVars, queueVars, fenceVars, gameVars>>

\* Faulty variant: a parked emulator is not woken.
SubmitWrite_NoPost(w) ==
  /\ wpc[w] = "submit"
  /\ g_writeQueue' = Append(g_writeQueue, w)
  /\ done' = [done EXCEPT ![w] = FALSE]
  /\ asleep' = asleep \cup {w}
  /\ wpc' = [wpc EXCEPT ![w] = "waiting"]
  /\ UNCHANGED <<lockVars, batch, fenceVars, gameVars, calls, answer, applied>>

\* SubmitWrite up to the bounded wait.
SubmitWrite(w) ==
  /\ wpc[w] = "submit"
  /\ g_writeQueue' = Append(g_writeQueue, w)
  /\ done' = [done EXCEPT ![w] = FALSE]
  /\ Post
  /\ asleep' = asleep \cup {w}
  /\ wpc' = [wpc EXCEPT ![w] = "waiting"]
  /\ UNCHANGED <<lockVars, batch, ahead, gameVars, calls, answer, applied>>

\* Awake in either wait, with w.done set: applied.
WaitOver(w) ==
  /\ wpc[w] \in {"waiting", "taken"}
  /\ w \notin asleep
  /\ done[w]
  /\ Finish(w, TRUE)
  /\ sharedLock' = sharedLock \ {w}
  /\ UNCHANGED <<isRunning, queueVars, fenceVars, gameVars, calls, applied>>

\* Awake for another request's sake: back to sleep.
WaitOn(w) ==
  /\ wpc[w] \in {"waiting", "taken"}
  /\ w \notin asleep
  /\ ~done[w]
  /\ asleep' = asleep \cup {w}
  /\ UNCHANGED <<lockVars, g_writeQueue, batch, done, fenceVars, gameVars,
                 callVars, applied>>

\* Where a request is: in the queue, or with the drain.
Queued(w) == w \in Range(g_writeQueue)
Taken(w)  == w \in Range(batch)

\* 250 ms are over and the request is done after all.
TimeoutDone(w) ==
  /\ wpc[w] = "waiting"
  /\ done[w]
  /\ Finish(w, TRUE)
  /\ sharedLock' = sharedLock \ {w}
  /\ asleep' = asleep \ {w}
  /\ UNCHANGED <<isRunning, g_writeQueue, batch, done, fenceVars, gameVars,
                 calls, applied>>

\* Faulty variant: the request is given up but stays queued.
TimeoutWithdraw_Leave(w) ==
  /\ wpc[w] = "waiting"
  /\ ~done[w]
  /\ Queued(w)
  /\ Finish(w, FALSE)
  /\ sharedLock' = sharedLock \ {w}
  /\ asleep' = asleep \ {w}
  /\ UNCHANGED <<isRunning, g_writeQueue, batch, done, fenceVars, gameVars,
                 calls, applied>>

\* 250 ms are over and the request is still queued: withdrawn.
TimeoutWithdraw(w) ==
  /\ wpc[w] = "waiting"
  /\ ~done[w]
  /\ \E i \in DOMAIN g_writeQueue :
       /\ g_writeQueue[i] = w
       /\ g_writeQueue' = RemoveAt(g_writeQueue, i)
  /\ Finish(w, FALSE)
  /\ sharedLock' = sharedLock \ {w}
  /\ asleep' = asleep \ {w}
  /\ UNCHANGED <<isRunning, batch, done, fenceVars, gameVars, calls, applied>>

\* Faulty variant: a request that is being applied is given up as well.
TimeoutTaken_GiveUp(w) ==
  /\ wpc[w] = "waiting"
  /\ ~done[w]
  /\ ~Queued(w)
  /\ Finish(w, FALSE)
  /\ sharedLock' = sharedLock \ {w}
  /\ asleep' = asleep \ {w}
  /\ UNCHANGED <<isRunning, g_writeQueue, batch, done, fenceVars, gameVars,
                 calls, applied>>

\* 250 ms are over and the drain has it: wait without a limit.
TimeoutTaken(w) ==
  /\ wpc[w] = "waiting"
  /\ ~done[w]
  /\ ~Queued(w)
  /\ wpc' = [wpc EXCEPT ![w] = "taken"]
  /\ asleep' = asleep \cup {w}
  /\ UNCHANGED <<lockVars, g_writeQueue, batch, done, fenceVars, gameVars,
                 calls, answer, applied>>

\* A thread that is not inside a call moves the fence (vp_setTimeFence), far
\* enough or not.
SetTimeFence(w) ==
  /\ wpc[w] = "idle"
  /\ ahead' \in {ahead, FALSE}
  /\ Post
  /\ UNCHANGED <<lockVars, queueVars, gameVars, callVars, applied>>

-----------------------------------------------------------------------------
(***************************************************************************)
(* The game thread.                                                        *)
(***************************************************************************)
Go(from, to) == gpc = from /\ gpc' = to

\* A slice runs; there may be a frame in it, and the fence may be reached.
RunSlice ==
  /\ gpc = "slice"
  /\ ~ahead
  /\ \/ gpc' = "take" /\ back' = "slice"
     \/ gpc' = "slice" /\ UNCHANGED back
  /\ ahead' \in BOOLEAN
  /\ UNCHANGED <<lockVars, queueVars, posts, callVars, applied>>

\* cpu_timeslice ahead of the fence: drain, then park.
ReachFence ==
  /\ ahead
  /\ Go("slice", "take")
  /\ back' = "park"
  /\ UNCHANGED <<lockVars, queueVars, fenceVars, callVars, applied>>

\* It is ahead by so much that the fence is moved: drain, then run a slice.
RealignFence ==
  /\ ahead
  /\ Go("slice", "take")
  /\ back' = "slice"
  /\ ahead' = FALSE
  /\ UNCHANGED <<lockVars, queueVars, posts, callVars, applied>>

\* time_fence_wait gets a post, or 250 ms pass: cpu_timeslice is entered again.
FencePosted ==
  /\ Go("park", "slice")
  /\ posts > 0
  /\ posts' = posts - 1
  /\ UNCHANGED <<lockVars, queueVars, ahead, back, callVars, applied>>

FenceTimeout ==
  /\ Go("park", "slice")
  /\ UNCHANGED <<lockVars, queueVars, fenceVars, back, callVars, applied>>

Drained == gpc' = back

DrainEmpty ==
  /\ gpc = "take"
  /\ g_writeQueue = <<>>
  /\ Drained
  /\ UNCHANGED <<lockVars, queueVars, fenceVars, back, callVars, applied>>

\* Faulty variant: the batch is copied out, the queue not emptied.
DrainTake_Copy ==
  /\ Go("take", "apply")
  /\ g_writeQueue # <<>>
  /\ batch' = g_writeQueue
  /\ UNCHANGED <<lockVars, g_writeQueue, done, asleep, fenceVars, back,
                 callVars, applied>>

\* Faulty variant: the drain takes one request, the one pushed last.
DrainTake_Back ==
  /\ Go("take", "apply")
  /\ g_writeQueue # <<>>
  /\ batch' = <<Last(g_writeQueue)>>
  /\ g_writeQueue' = Front(g_writeQueue)
  /\ UNCHANGED <<lockVars, done, asleep, fenceVars, back, callVars, applied>>

DrainTake ==
  /\ Go("take", "apply")
  /\ g_writeQueue # <<>>
  /\ batch' = g_writeQueue
  /\ g_writeQueue' = batch
  /\ UNCHANGED <<lockVars, done, asleep, fenceVars, back, callVars, applied>>

\* ApplyWrites reads every request through the pointer.
ApplyWrites ==
  /\ Go("apply", "mark")
  /\ applied' = [w \in Writer |->
                   applied[w] + Cardinality({i \in DOMAIN batch : batch[i] = w})]
  /\ UNCHANGED <<lockVars, queueVars, fenceVars, back, callVars>>

\* The flags are set under the lock, then the batch is cleared.
DrainMark ==
  /\ Go("mark", "notify")
  /\ done' = [w \in Writer |-> done[w] \/ Taken(w)]
  /\ batch' = <<>>
  /\ UNCHANGED <<lockVars, g_writeQueue, asleep, fenceVars, back, callVars,
                 applied>>

\* Faulty variant: only one waiter is woken.
DrainNotify_One ==
  /\ gpc = "notify"
  /\ \E w \in Writer : asleep' = asleep \ {w}
  /\ Drained
  /\ UNCHANGED <<lockVars, g_writeQueue, batch, done, fenceVars, back,
                 callVars, applied>>

DrainNotify ==
  /\ gpc = "notify"
  /\ asleep' = {}
  /\ Drained
  /\ UNCHANGED <<lockVars, g_writeQueue, batch, done, fenceVars, back,
                 callVars, applied>>

\* OnStateChange takes the lock exclusively, around a reset of the machine.
LeaveRunning ==
  /\ Go("slice", "stopped")
  /\ sharedLock = {}
  /\ isRunning' = Stopping
  /\ UNCHANGED <<sharedLock, queueVars, fenceVars, back, callVars, applied>>

EnterRunning ==
  /\ Go("stopped", "slice")
  /\ sharedLock = {}
  /\ isRunning' = Running
  /\ UNCHANGED <<sharedLock, queueVars, fenceVars, back, callVars, applied>>

-----------------------------------------------------------------------------
Timeout(w) == TimeoutDone(w) \/ TimeoutWithdraw(w) \/ TimeoutTaken(w)
Call(w) == \/ WriteMemory(w) \/ WriteRefused(w) \/ SubmitWrite(w)
           \/ WaitOver(w) \/ WaitOn(w) \/ Timeout(w)
Drain == DrainEmpty \/ DrainTake \/ ApplyWrites \/ DrainMark \/ DrainNotify
Loop  == RunSlice \/ ReachFence \/ RealignFence \/ FencePosted

Next == \/ \E w \in Writer : Call(w) \/ SetTimeFence(w)
        \/ Drain \/ Loop \/ FenceTimeout \/ LeaveRunning \/ EnterRunning

(***************************************************************************)
(* Host threads run, their timeouts expire, and a drain once begun goes    *)
(* on.  Nothing is assumed of the rest of the emulation, which may stall   *)
(* or be paused for ever.                                                  *)
(***************************************************************************)
Fairness ==
  /\ \A w \in Writer : /\ WF_vars(SubmitWrite(w))
                       /\ WF_vars(WaitOver(w) \/ WaitOn(w))
                       /\ WF_vars(Timeout(w))
  /\ WF_vars(Drain)

Spec == Init /\ [][Next]_vars /\ Fairness

-----------------------------------------------------------------------------
(***************************************************************************)
(* Properties.                                                             *)
(***************************************************************************)

TypeOK ==
  /\ isRunning \in {Running, Stopping}
  /\ sharedLock \subseteq Writer
  /\ g_writeQueue \in Seq(Writer) /\ batch \in Seq(Writer)
  /\ done \in [Writer -> BOOLEAN]
  /\ asleep \subseteq Writer
  /\ wpc \in [Writer -> WriterPC]
  /\ gpc \in GamePC /\ back \in {"slice", "park"}
  /\ ahead \in BOOLEAN /\ posts \in 0 .. MaxPosts
  /\ calls \in [Writer -> 0 .. MaxCalls]
  /\ applied \in [Writer -> {0, 1}]
  /\ answer \in [Writer -> BOOLEAN]

\* A call that returned true was applied exactly once, and one that returned
\* false is never applied, not even after it returned ("withdraw it, and
\* nothing is applied", "report it applied, because it is").
AnswerIsTrue ==
  \A w \in Writer :
    /\ applied[w] <= 1
    /\ wpc[w] = "idle" /\ calls[w] > 0 => (answer[w] <=> applied[w] = 1)

\* The drain never reads a request whose owner has returned: the requests and
\* the caller's buffers live in the caller's stack frame.
NoUseAfterReturn ==
  \A w \in Writer :
    Queued(w) \/ Taken(w) => wpc[w] \in {"waiting", "taken"}

\* "the game thread cannot leave state 1 (and tear down) while a write is
\* queued or applied" (libpinmame.cpp:2215-2216).
NoTearDownUnderWrite ==
  g_writeQueue # <<>> \/ batch # <<>> => isRunning = Running

\* "a stalled or paused emulator cannot hang the caller": every call returns,
\* whatever the emulation does outside the drain.
EveryCallReturns ==
  \A w \in Writer : wpc[w] # "idle" ~> wpc[w] = "idle"

(***************************************************************************)
(* What the host sees of all this, without the drain's batch: a request is *)
(* pending until ApplyWrites has passed it, wherever it is kept.           *)
(***************************************************************************)
Pending == (IF gpc = "mark" THEN <<>> ELSE batch) \o g_writeQueue
Calling == {w \in Writer : wpc[w] # "idle"}

Writes == INSTANCE OrderedWrites WITH
  running <- isRunning = Running, calling <- Calling, pending <- Pending,
  effect <- applied

\* The protocol keeps what the interface promises of a request, "applied in
\* order, atomically" (PinMAMEPlugin.h:64), and of the answer to it: a timeout
\* that meets the drain at any point withdraws a request that has not taken
\* effect or reports one that has, and no request overtakes another.
KeepsOrderedWrites == Writes!Spec

\* A thread that alone could move the fence is not stuck behind it: the
\* emulation never stays parked at the fence with a request in the queue, for
\* the post that wakes it comes with the request and is not used up by a wait
\* that ended before.
NoParkOnQueuedWrite ==
  gpc = "park" /\ g_writeQueue # <<>> => posts > 0

=============================================================================
