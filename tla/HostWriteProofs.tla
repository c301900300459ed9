--------------------------- MODULE HostWriteProofs ---------------------------
(***************************************************************************)
(* Proofs about HostWrite, for any set of host threads, any number of      *)
(* calls and any limit of the semaphore.                                   *)
(*                                                                         *)
(* The heart is who owns a request.  It is in the queue, in the drain's    *)
(* batch, or nowhere, never in two places, and what its owner's flag, its  *)
(* place in the call and the count of applications say agrees with that    *)
(* (Ownership).  The four safety properties are read off from it.          *)
(***************************************************************************)
EXTENDS HostWrite, SequenceFacts, TLAPS

-----------------------------------------------------------------------------
(***************************************************************************)
(* The invariant.                                                          *)
(***************************************************************************)
InCall(w) == wpc[w] \in {"waiting", "taken"}

VarTypes ==
  /\ isRunning \in {Running, Stopping}
  /\ sharedLock \subseteq Writer
  /\ done \in [Writer -> BOOLEAN]
  /\ asleep \subseteq Writer
  /\ wpc \in [Writer -> WriterPC]
  /\ gpc \in GamePC
  /\ back \in {"slice", "park"}
  /\ ahead \in BOOLEAN
  /\ posts \in 0 .. MaxPosts
  /\ calls \in [Writer -> 0 .. MaxCalls]
  /\ applied \in [Writer -> {0, 1}]
  /\ answer \in [Writer -> BOOLEAN]

\* The two lists of requests: none twice, none in both, and no batch left when
\* the drain is over.
Lists ==
  /\ g_writeQueue \in Seq(Writer) /\ IsInjective(g_writeQueue)
  /\ batch \in Seq(Writer) /\ IsInjective(batch)
  /\ Range(g_writeQueue) \cap Range(batch) = {}
  /\ batch # <<>> => gpc \in {"apply", "mark"}

\* Where the request of a call is, against what its owner knows of it.
Ownership ==
  \A w \in Writer :
    /\ Queued(w) => wpc[w] = "waiting" /\ ~done[w] /\ applied[w] = 0
    /\ Taken(w) => /\ InCall(w) /\ ~done[w]
                   /\ applied[w] = IF gpc = "mark" THEN 1 ELSE 0
    /\ InCall(w) /\ ~done[w] => Queued(w) \/ Taken(w)
    /\ InCall(w) /\ done[w] => applied[w] = 1
    /\ wpc[w] = "submit" => applied[w] = 0
    /\ wpc[w] = "idle" /\ calls[w] > 0 => (answer[w] <=> applied[w] = 1)

\* Every call holds the shared lock, and whoever holds it keeps the machine
\* running.
Locks ==
  /\ \A w \in Writer : wpc[w] # "idle" <=> w \in sharedLock
  /\ sharedLock # {} => isRunning = Running

\* From the moment the drain has emptied the queue, a request that comes in
\* leaves its post behind.
Posts ==
  gpc \in {"apply", "mark", "notify", "park"} /\ g_writeQueue # <<>> => posts > 0

IInv == VarTypes /\ Lists /\ Ownership /\ Locks /\ Posts

-----------------------------------------------------------------------------
(***************************************************************************)
(* The invariant holds at first, and every step keeps it.                  *)
(***************************************************************************)

\* Nothing is queued, nobody is in a call.
LEMMA InitIInv == Init => IInv
<1> SUFFICES ASSUME Init PROVE IInv
  OBVIOUS
<1>1. VarTypes
  <2>1. posts \in 0 .. MaxPosts /\ calls \in [Writer -> 0 .. MaxCalls]
    <3>1. 0 \in 0 .. MaxPosts /\ 0 \in 0 .. MaxCalls
      BY WriteAssumption
    <3>2. QED BY <3>1 DEF Init
  <2>2. /\ done \in [Writer -> BOOLEAN]
        /\ answer \in [Writer -> BOOLEAN]
        /\ wpc \in [Writer -> WriterPC]
        /\ applied \in [Writer -> {0, 1}]
    BY DEF Init, WriterPC
  <2>3. /\ isRunning \in {Running, Stopping}
        /\ sharedLock \subseteq Writer
        /\ asleep \subseteq Writer
        /\ gpc \in GamePC
        /\ back \in {"slice", "park"}
        /\ ahead \in BOOLEAN
    BY DEF Init, GamePC
  <2>4. QED BY <2>1, <2>2, <2>3 DEF VarTypes
<1>2. Range(g_writeQueue) = {} /\ Range(batch) = {}
  BY DEF Init, Range
<1>3. Lists
  BY <1>2 DEF Init, Lists, IsInjective
<1>4. Ownership
  BY <1>2 DEF Init, Ownership, Queued, Taken, InCall
<1>5. Locks /\ Posts
  BY DEF Init, Locks, Posts
<1>6. QED BY <1>1, <1>3, <1>4, <1>5 DEF IInv

\* Entering a call: WriteMemory takes the lock while the machine runs.
LEMMA WriteMemoryIInv ==
  ASSUME IInv, NEW w \in Writer, WriteMemory(w)
  PROVE  IInv'
<1>1. VarTypes'
  <2>1. calls' \in [Writer -> 0 .. MaxCalls]
    BY WriteAssumption DEF IInv, VarTypes, WriteMemory
  <2>2. /\ wpc' \in [Writer -> WriterPC]
        /\ applied' \in [Writer -> {0, 1}]
        /\ answer' \in [Writer -> BOOLEAN]
        /\ sharedLock' \subseteq Writer
    BY DEF IInv, VarTypes, WriteMemory, WriterPC
  <2>3. QED BY <2>1, <2>2 DEF IInv, VarTypes, WriteMemory, queueVars, fenceVars, gameVars
<1>2. Lists'
  BY DEF IInv, Lists, WriteMemory, queueVars, gameVars
<1>3. Ownership'
  BY DEF IInv, VarTypes, Ownership, Queued, Taken, InCall, WriteMemory, queueVars, gameVars
<1>4. Locks' /\ Posts'
  BY DEF IInv, VarTypes, Locks, Posts, WriteMemory, queueVars, fenceVars, gameVars
<1>5. QED BY <1>1, <1>2, <1>3, <1>4 DEF IInv

\* A refused call returns false without having been applied.
LEMMA WriteRefusedIInv ==
  ASSUME IInv, NEW w \in Writer, WriteRefused(w)
  PROVE  IInv'
<1>1. VarTypes'
  <2>1. calls' \in [Writer -> 0 .. MaxCalls]
    BY WriteAssumption DEF IInv, VarTypes, WriteRefused
  <2>2. /\ wpc' \in [Writer -> WriterPC]
        /\ applied' \in [Writer -> {0, 1}]
        /\ answer' \in [Writer -> BOOLEAN]
    BY DEF IInv, VarTypes, WriteRefused, Finish, WriterPC
  <2>3. QED BY <2>1, <2>2 DEF IInv, VarTypes, WriteRefused, lockVars, queueVars, fenceVars,
                           gameVars
<1>2. Lists'
  BY DEF IInv, Lists, WriteRefused, queueVars, gameVars
<1>3. Ownership'
  BY DEF IInv, VarTypes, Ownership, Queued, Taken, InCall, WriteRefused, Finish,
         queueVars, gameVars
<1>4. Locks' /\ Posts'
  BY DEF IInv, VarTypes, Locks, Posts, WriteRefused, Finish, lockVars, queueVars,
         fenceVars, gameVars
<1>5. QED BY <1>1, <1>2, <1>3, <1>4 DEF IInv

\* A submitted request is in the queue and nowhere else, and its post is there.
LEMMA SubmitWriteIInv ==
  ASSUME IInv, NEW w \in Writer, SubmitWrite(w)
  PROVE  IInv'
<1>1. VarTypes' /\ posts' > 0
  BY WriteAssumption DEF IInv, VarTypes, SubmitWrite, Post, lockVars, gameVars, WriterPC
<1>2. w \notin Range(g_writeQueue) /\ w \notin Range(batch)
  BY DEF IInv, Ownership, Queued, Taken, InCall, SubmitWrite
<1>3. /\ g_writeQueue' \in Seq(Writer)
      /\ IsInjective(g_writeQueue')
      /\ Range(g_writeQueue') = Range(g_writeQueue) \cup {w}
  BY <1>2, AppendNew DEF IInv, Lists, SubmitWrite
<1>4. Lists'
  BY <1>2, <1>3 DEF IInv, Lists, SubmitWrite, gameVars
<1>5. Ownership'
  BY <1>3 DEF IInv, VarTypes, Ownership, Queued, Taken, InCall, SubmitWrite, gameVars
<1>6. Locks' /\ Posts'
  BY <1>1 DEF IInv, VarTypes, Locks, Posts, SubmitWrite, lockVars
<1>7. QED BY <1>1, <1>4, <1>5, <1>6 DEF IInv

\* A call whose flag is set returns true: it was applied.
LEMMA WaitOverIInv ==
  ASSUME IInv, NEW w \in Writer, WaitOver(w) \/ TimeoutDone(w)
  PROVE  IInv'
<1>1. VarTypes'
  BY DEF IInv, VarTypes, WaitOver, TimeoutDone, Finish, queueVars, fenceVars, gameVars,
         WriterPC
<1>2. UNCHANGED <<g_writeQueue, batch, done, gpc, posts, isRunning, calls, applied>>
  BY DEF WaitOver, TimeoutDone, queueVars, fenceVars, gameVars
<1>3. Lists'
  BY <1>2 DEF IInv, Lists
<1>4. /\ InCall(w) /\ done[w]
      /\ wpc' = [wpc EXCEPT ![w] = "idle"]
      /\ answer' = [answer EXCEPT ![w] = TRUE]
      /\ sharedLock' = sharedLock \ {w}
  BY DEF WaitOver, TimeoutDone, Finish, InCall
<1>5. Ownership'
  BY <1>2, <1>4 DEF IInv, VarTypes, Ownership, Queued, Taken, InCall
<1>6. Locks' /\ Posts'
  BY <1>2, <1>4 DEF IInv, VarTypes, Locks, Posts
<1>7. QED BY <1>1, <1>3, <1>5, <1>6 DEF IInv

\* A withdrawn request is in no list any more and was not applied.
LEMMA TimeoutWithdrawIInv ==
  ASSUME IInv, NEW w \in Writer, TimeoutWithdraw(w)
  PROVE  IInv'
<1>1. VarTypes'
  BY DEF IInv, VarTypes, TimeoutWithdraw, Finish, fenceVars, gameVars, WriterPC
<1>2. PICK i \in DOMAIN g_writeQueue :
        /\ g_writeQueue[i] = w
        /\ g_writeQueue' = RemoveAt(g_writeQueue, i)
  BY DEF TimeoutWithdraw
<1>3. /\ g_writeQueue' \in Seq(Writer)
      /\ IsInjective(g_writeQueue')
      /\ Range(g_writeQueue') = Range(g_writeQueue) \ {w}
  BY <1>2, RemoveOnly DEF IInv, Lists
<1>4. w \in Range(g_writeQueue) /\ w \notin Range(batch)
  BY <1>2 DEF IInv, Lists, Range
<1>5. UNCHANGED <<batch, done, gpc, posts, isRunning, calls, applied>>
  BY DEF TimeoutWithdraw, fenceVars, gameVars
<1>6. Lists'
  BY <1>3, <1>5 DEF IInv, Lists
<1>7. /\ wpc' = [wpc EXCEPT ![w] = "idle"]
      /\ answer' = [answer EXCEPT ![w] = FALSE]
      /\ sharedLock' = sharedLock \ {w}
  BY DEF TimeoutWithdraw, Finish
<1>8. Ownership'
  BY <1>3, <1>4, <1>5, <1>7 DEF IInv, VarTypes, Ownership, Queued, Taken, InCall
<1>9. g_writeQueue # <<>>
  BY <1>4 DEF Range
<1>10. Locks' /\ Posts'
  BY <1>5, <1>7, <1>9 DEF IInv, VarTypes, Locks, Posts
<1>11. QED BY <1>1, <1>6, <1>8, <1>10 DEF IInv

\* A request that times out in the drain's hands stays where it is.
LEMMA WaitOnIInv ==
  ASSUME IInv, NEW w \in Writer, WaitOn(w) \/ TimeoutTaken(w)
  PROVE  IInv'
<1>1. VarTypes'
  BY DEF IInv, VarTypes, WaitOn, TimeoutTaken, callVars, lockVars, fenceVars, gameVars, WriterPC
<1>2. UNCHANGED <<g_writeQueue, batch, done, gpc, posts, lockVars, calls, answer, applied>>
  BY DEF WaitOn, TimeoutTaken, fenceVars, gameVars, callVars
<1>3. Lists'
  BY <1>2 DEF IInv, Lists
<1>4. \/ wpc' = wpc
      \/ /\ wpc[w] = "waiting" /\ ~Queued(w)
         /\ wpc' = [wpc EXCEPT ![w] = "taken"]
  BY DEF WaitOn, TimeoutTaken, callVars
<1>5. Ownership'
  BY <1>2, <1>4 DEF IInv, VarTypes, Ownership, Queued, Taken, InCall
<1>6. Locks' /\ Posts'
  BY <1>2, <1>4 DEF IInv, VarTypes, Locks, Posts, lockVars
<1>7. QED BY <1>1, <1>3, <1>5, <1>6 DEF IInv

\* The steps of both threads that leave calls and requests alone.
LEMMA FenceIInv ==
  ASSUME IInv,
         \/ \E w \in Writer : SetTimeFence(w)
         \/ DrainEmpty \/ Loop \/ FenceTimeout \/ LeaveRunning \/ EnterRunning
  PROVE  IInv'
<1>1. UNCHANGED <<g_writeQueue, batch, done, asleep, sharedLock, wpc, calls, answer, applied>>
  BY DEF SetTimeFence, DrainEmpty, Loop, RunSlice, ReachFence, RealignFence, FencePosted,
         FenceTimeout, LeaveRunning, EnterRunning, queueVars, lockVars, callVars
<1>2. VarTypes'
  <2>1. isRunning' \in {Running, Stopping} /\ ahead' \in BOOLEAN
    BY DEF IInv, VarTypes, SetTimeFence, DrainEmpty, Loop, RunSlice, ReachFence,
           RealignFence, FencePosted, FenceTimeout, LeaveRunning, EnterRunning, lockVars,
           fenceVars
  <2>2. gpc' \in GamePC /\ back' \in {"slice", "park"}
    BY DEF IInv, VarTypes, GamePC, SetTimeFence, DrainEmpty, Drained, Loop, RunSlice,
           ReachFence, RealignFence, FencePosted, FenceTimeout, LeaveRunning,
           EnterRunning, Go, gameVars
  <2>3. posts' \in 0 .. MaxPosts
    <3>1. UNCHANGED posts \/ FencePosted \/ Post
      BY DEF SetTimeFence, DrainEmpty, Loop, RunSlice, ReachFence, RealignFence,
             FenceTimeout, LeaveRunning, EnterRunning, fenceVars
    <3>2. QED BY <3>1, WriteAssumption DEF IInv, VarTypes, FencePosted, Post
  <2>4. QED BY <1>1, <2>1, <2>2, <2>3 DEF IInv, VarTypes
<1>3. gpc' # gpc => gpc \notin {"apply", "mark"} /\ gpc' \notin {"apply", "mark", "notify"}
  BY DEF IInv, VarTypes, SetTimeFence, DrainEmpty, Drained, Loop, RunSlice, ReachFence,
         RealignFence, FencePosted, FenceTimeout, LeaveRunning, EnterRunning, Go, gameVars
<1>4. Lists'
  BY <1>1, <1>3 DEF IInv, Lists
<1>5. Ownership'
  <2>1. \A w \in Writer : Taken(w) => batch # <<>>
    BY DEF Taken, Range
  <2>2. QED BY <1>1, <1>3, <2>1 DEF IInv, Lists, Ownership, Queued, Taken, InCall
<1>6. Locks'
  <2>1. isRunning' = isRunning \/ isRunning' = Running \/ sharedLock = {}
    BY DEF SetTimeFence, DrainEmpty, Loop, RunSlice, ReachFence, RealignFence,
           FencePosted, FenceTimeout, LeaveRunning, EnterRunning, lockVars
  <2>2. QED BY <1>1, <2>1 DEF IInv, Locks
<1>7. Posts'
  <2>1. CASE \E w \in Writer : SetTimeFence(w)
    BY <2>1, WriteAssumption DEF IInv, VarTypes, Posts, SetTimeFence, Post, queueVars,
                                 gameVars
  <2>2. CASE DrainEmpty
    BY <2>2, <1>1 DEF DrainEmpty, Posts
  <2>3. CASE Loop \/ FenceTimeout \/ LeaveRunning \/ EnterRunning
    <3>1. gpc' \notin {"apply", "mark", "notify", "park"}
      BY <2>3 DEF Loop, RunSlice, ReachFence, RealignFence, FencePosted, FenceTimeout,
                  LeaveRunning, EnterRunning, Go
    <3>2. QED BY <3>1 DEF Posts
  <2>4. QED BY <2>1, <2>2, <2>3
<1>8. QED BY <1>2, <1>4, <1>5, <1>6, <1>7 DEF IInv

\* The drain takes over the whole queue.
LEMMA DrainTakeIInv ==
  ASSUME IInv, DrainTake
  PROVE  IInv'
<1>1. batch = <<>> /\ gpc = "take"
  BY DEF IInv, Lists, DrainTake, Go
<1>2. /\ batch' = g_writeQueue
      /\ g_writeQueue' = <<>>
      /\ gpc' = "apply"
      /\ UNCHANGED <<isRunning, sharedLock, done, asleep, wpc, ahead, posts, back,
                     calls, answer, applied>>
  BY <1>1 DEF DrainTake, Go, lockVars, fenceVars, callVars
<1>3. Range(batch) = {} /\ Range(g_writeQueue') = {}
  BY <1>1, <1>2 DEF Range
<1>4. VarTypes'
  BY <1>2 DEF IInv, VarTypes, GamePC
<1>5. Lists'
  <2>1. IsInjective(g_writeQueue') /\ g_writeQueue' \in Seq(Writer)
    BY <1>2 DEF IsInjective
  <2>2. QED BY <1>2, <1>3, <2>1 DEF IInv, Lists
<1>6. Ownership'
  BY <1>1, <1>2, <1>3 DEF IInv, Ownership, Queued, Taken, InCall
<1>7. Locks' /\ Posts'
  BY <1>2 DEF IInv, Locks, Posts
<1>8. QED BY <1>4, <1>5, <1>6, <1>7 DEF IInv

\* Each request of the batch is applied, once.
LEMMA ApplyWritesIInv ==
  ASSUME IInv, ApplyWrites
  PROVE  IInv'
<1>1. /\ gpc = "apply" /\ gpc' = "mark"
      /\ UNCHANGED <<isRunning, sharedLock, g_writeQueue, batch, done, asleep, ahead,
                     posts, back, wpc, calls, answer>>
  BY DEF ApplyWrites, Go, lockVars, queueVars, fenceVars, callVars
<1>2. ASSUME NEW w \in Writer
      PROVE  applied'[w] = IF Taken(w) THEN 1 ELSE applied[w]
  <2>1. Cardinality({i \in DOMAIN batch : batch[i] = w}) = IF Taken(w) THEN 1 ELSE 0
    BY OccursOnce DEF IInv, Lists, Taken
  <2>2. applied'[w] = applied[w] + IF Taken(w) THEN 1 ELSE 0
    BY <2>1 DEF ApplyWrites
  <2>3. applied[w] \in {0, 1} /\ (Taken(w) => applied[w] = 0)
    BY <1>1 DEF IInv, VarTypes, Ownership
  <2>4. QED BY <2>2, <2>3
<1>3. applied' \in [Writer -> {0, 1}]
  <2>1. applied' = [w \in Writer |-> applied'[w]]
    BY DEF ApplyWrites
  <2>2. \A w \in Writer : applied'[w] \in {0, 1}
    BY <1>2 DEF IInv, VarTypes
  <2>3. QED BY <2>1, <2>2
<1>4. VarTypes'
  BY <1>1, <1>3 DEF IInv, VarTypes, GamePC
<1>5. Lists'
  BY <1>1 DEF IInv, Lists
<1>6. Ownership'
  <2> SUFFICES ASSUME NEW w \in Writer
      PROVE /\ Queued(w) => wpc[w] = "waiting" /\ ~done[w] /\ applied'[w] = 0
            /\ Taken(w) => InCall(w) /\ ~done[w] /\ applied'[w] = 1
            /\ InCall(w) /\ ~done[w] => Queued(w) \/ Taken(w)
            /\ InCall(w) /\ done[w] => applied'[w] = 1
            /\ wpc[w] = "submit" => applied'[w] = 0
            /\ wpc[w] = "idle" /\ calls[w] > 0 => (answer[w] <=> applied'[w] = 1)
    BY <1>1 DEF Ownership, Queued, Taken, InCall
  <2>1. ~(Queued(w) /\ Taken(w))
    BY DEF IInv, Lists, Queued, Taken
  <2>2. Taken(w) => wpc[w] \notin {"idle", "submit"}
    BY DEF IInv, Ownership, InCall
  <2>3. QED BY <2>1, <2>2, <1>2 DEF IInv, Ownership
<1>7. Locks' /\ Posts'
  BY <1>1 DEF IInv, Locks, Posts
<1>8. QED BY <1>4, <1>5, <1>6, <1>7 DEF IInv

\* The flags of the batch are set when it has been applied.
LEMMA DrainMarkIInv ==
  ASSUME IInv, DrainMark
  PROVE  IInv'
<1>1. /\ gpc = "mark" /\ gpc' = "notify"
      /\ batch' = <<>>
      /\ UNCHANGED <<isRunning, sharedLock, g_writeQueue, asleep, ahead, posts, back,
                     wpc, calls, answer, applied>>
  BY DEF DrainMark, Go, lockVars, fenceVars, callVars
<1>2. \A w \in Writer : done'[w] = (done[w] \/ Taken(w))
  BY DEF DrainMark
<1>3. done' \in [Writer -> BOOLEAN]
  BY DEF DrainMark, IInv, VarTypes
<1>4. Range(batch') = {}
  BY <1>1 DEF Range
<1>5. VarTypes'
  BY <1>1, <1>3 DEF IInv, VarTypes, GamePC
<1>6. Lists'
  <2>1. IsInjective(batch') /\ batch' \in Seq(Writer)
    BY <1>1 DEF IsInjective
  <2>2. QED BY <1>1, <1>4, <2>1 DEF IInv, Lists
<1>7. Ownership'
  <2> SUFFICES ASSUME NEW w \in Writer
      PROVE /\ Queued(w) => wpc[w] = "waiting" /\ ~done'[w] /\ applied[w] = 0
            /\ InCall(w) /\ ~done'[w] => Queued(w)
            /\ InCall(w) /\ done'[w] => applied[w] = 1
            /\ wpc[w] = "submit" => applied[w] = 0
            /\ wpc[w] = "idle" /\ calls[w] > 0 => (answer[w] <=> applied[w] = 1)
    BY <1>1, <1>4 DEF Ownership, Queued, Taken, InCall
  <2>1. ~(Queued(w) /\ Taken(w))
    BY DEF IInv, Lists, Queued, Taken
  <2>2. QED BY <2>1, <1>1, <1>2 DEF IInv, Ownership
<1>8. Locks' /\ Posts'
  BY <1>1 DEF IInv, Locks, Posts
<1>9. QED BY <1>5, <1>6, <1>7, <1>8 DEF IInv

\* Waking the waiters changes nothing about the requests.
LEMMA DrainNotifyIInv ==
  ASSUME IInv, DrainNotify
  PROVE  IInv'
<1>1. /\ gpc = "notify" /\ gpc' = back /\ asleep' = {}
      /\ UNCHANGED <<isRunning, sharedLock, g_writeQueue, batch, done, ahead, posts,
                     back, wpc, calls, answer, applied>>
  BY DEF DrainNotify, Drained, lockVars, fenceVars, callVars
<1>2. batch = <<>> /\ Range(batch) = {}
  BY <1>1 DEF IInv, Lists, Range
<1>3. VarTypes'
  BY <1>1 DEF IInv, VarTypes, GamePC
<1>4. Lists'
  BY <1>1, <1>2 DEF IInv, Lists
<1>5. Ownership'
  BY <1>1, <1>2 DEF IInv, Ownership, Queued, Taken, InCall
<1>6. Locks' /\ Posts'
  BY <1>1 DEF IInv, Locks, Posts
<1>7. QED BY <1>3, <1>4, <1>5, <1>6 DEF IInv

\* A step that changes nothing.
LEMMA StutterIInv ==
  ASSUME IInv, UNCHANGED vars
  PROVE  IInv'
BY DEF IInv, VarTypes, Lists, Ownership, Locks, Posts, Queued, Taken, InCall, vars,
       lockVars, queueVars, fenceVars, gameVars, callVars

\* Every step keeps the invariant.
LEMMA NextIInv ==
  ASSUME IInv, [Next]_vars
  PROVE  IInv'
<1>1. ASSUME NEW w \in Writer, Call(w)
      PROVE  IInv'
  BY <1>1, WriteMemoryIInv, WriteRefusedIInv, SubmitWriteIInv, WaitOverIInv, WaitOnIInv,
     TimeoutWithdrawIInv DEF Call, Timeout
<1>2. CASE Drain
  BY <1>2, FenceIInv, DrainTakeIInv, ApplyWritesIInv, DrainMarkIInv, DrainNotifyIInv DEF Drain
<1>3. CASE \/ \E w \in Writer : SetTimeFence(w)
           \/ Loop \/ FenceTimeout \/ LeaveRunning \/ EnterRunning
  BY <1>3, FenceIInv
<1>4. QED BY <1>1, <1>2, <1>3, StutterIInv DEF Next

-----------------------------------------------------------------------------
(***************************************************************************)
(* The theorems.                                                           *)
(***************************************************************************)

\* The ownership of requests, in every reachable state.
THEOREM WriteInvariance == Spec => []IInv
<1>1. IInv /\ [Next]_vars => IInv'
  BY NextIInv
<1>2. QED BY <1>1, InitIInv, PTL DEF Spec

\* The types; among others, no request is ever applied twice.
THEOREM WriteTypeCorrect == Spec => []TypeOK
<1>1. IInv => TypeOK
  BY DEF IInv, VarTypes, Lists, TypeOK
<1>2. QED BY <1>1, WriteInvariance, PTL

\* What a call returned is what happened to its request, now and later.
THEOREM AnswersAreTrue == Spec => []AnswerIsTrue
<1>1. IInv => AnswerIsTrue
  BY DEF IInv, VarTypes, Ownership, AnswerIsTrue
<1>2. QED BY <1>1, WriteInvariance, PTL

\* The drain reads no request whose owner has returned.
THEOREM NoRequestUsedAfterReturn == Spec => []NoUseAfterReturn
<1>1. IInv => NoUseAfterReturn
  BY DEF IInv, Ownership, InCall, NoUseAfterReturn
<1>2. QED BY <1>1, WriteInvariance, PTL

\* Requests, queued or taken, belong to a machine that runs.
LEMMA BatchRuns ==
  ASSUME IInv, NEW s \in {g_writeQueue, batch}, s # <<>>
  PROVE  isRunning = Running
<1>1. s \in Seq(Writer)
  BY DEF IInv, Lists
<1>2. s[1] \in Writer /\ s[1] \in Range(s)
  BY <1>1, EmptySeq, LenProperties, ElementOfSeq DEF Range
<1>3. Queued(s[1]) \/ Taken(s[1])
  BY <1>2 DEF Queued, Taken
<1>4. wpc[s[1]] # "idle"
  BY <1>2, <1>3 DEF IInv, Ownership, InCall
<1>5. QED BY <1>2, <1>4 DEF IInv, Locks

\* The machine is not torn down while a request is queued or being applied.
THEOREM TearDownWaits == Spec => []NoTearDownUnderWrite
<1>1. IInv => NoTearDownUnderWrite
  BY BatchRuns DEF NoTearDownUnderWrite
<1>2. QED BY <1>1, WriteInvariance, PTL

\* Parked at the fence with a request in the queue, the emulation has a post
\* to wake it.
THEOREM NeverParkedOnAWrite == Spec => []NoParkOnQueuedWrite
<1>1. IInv => NoParkOnQueuedWrite
  BY DEF IInv, Posts, NoParkOnQueuedWrite
<1>2. QED BY <1>1, WriteInvariance, PTL

-----------------------------------------------------------------------------
(***************************************************************************)
(* The protocol implements OrderedWrites.  Most steps are invisible there: *)
(* what the drain takes stays pending, and flags, waits and the fence do   *)
(* not exist.  What is left is one abstract step per begun, refused,       *)
(* submitted, finished or withdrawn call, and one for the whole batch.     *)
(***************************************************************************)
WritesStep == [Writes!Next]_(Writes!vars)

\* The pending requests are those of the two lists, but for a batch that has
\* been applied.
LEMMA PendingFacts ==
  ASSUME IInv
  PROVE  /\ Pending \in Seq(Writer)
         /\ Range(Pending) = Range(g_writeQueue) \cup
                             IF gpc = "mark" THEN {} ELSE Range(batch)
<1>1. g_writeQueue \in Seq(Writer) /\ batch \in Seq(Writer)
  BY DEF IInv, Lists
<1>2. CASE gpc = "mark"
  <2>1. Pending = g_writeQueue
    BY <1>1, <1>2, ConcatEmptySeq DEF Pending
  <2>2. QED BY <2>1, <1>1, <1>2
<1>3. CASE gpc # "mark"
  <2>1. Pending = batch \o g_writeQueue
    BY <1>3 DEF Pending
  <2>2. QED BY <2>1, <1>1, <1>3, ConcatProperties, RangeConcat
<1>4. QED BY <1>2, <1>3

\* A step that leaves the lists, the calls and the machine's state alone.
LEMMA InvisibleMaps ==
  ASSUME UNCHANGED <<isRunning, g_writeQueue, batch, applied, answer>>,
         Calling' = Calling,
         gpc' = "mark" <=> gpc = "mark"
  PROVE  WritesStep
<1>1. Pending' = Pending
  BY DEF Pending
<1>2. QED BY <1>1 DEF WritesStep, Writes!vars

LEMMA BeginMaps ==
  ASSUME IInv, NEW w \in Writer, WriteMemory(w) \/ WriteRefused(w)
  PROVE  WritesStep
<1>1. Pending' = Pending /\ isRunning' = isRunning
  BY DEF Pending, WriteMemory, WriteRefused, queueVars, gameVars, lockVars
<1>2. w \notin Calling
  BY DEF Calling, WriteMemory, WriteRefused
<1>3. CASE WriteMemory(w)
  <2>1. Calling' = Calling \cup {w}
    BY <1>3 DEF IInv, VarTypes, Calling, WriteMemory
  <2>2. Writes!Begin(w)
    BY <1>1, <1>2, <1>3, <2>1 DEF Writes!Begin, WriteMemory
  <2>3. QED BY <2>2 DEF WritesStep, Writes!Next
<1>4. CASE WriteRefused(w)
  <2>1. Calling' = Calling
    BY <1>4 DEF IInv, VarTypes, Calling, WriteRefused, Finish
  <2>2. Writes!Refuse(w)
    BY <1>1, <1>2, <1>4, <2>1 DEF Writes!Refuse, WriteRefused, Finish
  <2>3. QED BY <2>2 DEF WritesStep, Writes!Next
<1>5. QED BY <1>3, <1>4

LEMMA SubmitMaps ==
  ASSUME IInv, NEW w \in Writer, SubmitWrite(w)
  PROVE  WritesStep
<1>1. g_writeQueue \in Seq(Writer) /\ batch \in Seq(Writer) /\ <<>> \in Seq(Writer)
  BY EmptySeq DEF IInv, Lists
<1>2. Pending' = Append(Pending, w)
  <2> DEFINE a == IF gpc = "mark" THEN <<>> ELSE batch
  <2>1. /\ a \in Seq(Writer)
        /\ Pending = a \o g_writeQueue
        /\ Pending' = a \o Append(g_writeQueue, w)
    BY <1>1 DEF Pending, SubmitWrite, gameVars
  <2> HIDE DEF a
  <2>2. QED BY <1>1, <2>1, ConcatAppend
<1>3. w \in Calling /\ Calling' = Calling
  BY DEF IInv, VarTypes, Calling, SubmitWrite
<1>4. w \notin Range(Pending) /\ applied[w] = 0
  BY PendingFacts DEF IInv, Ownership, Queued, Taken, InCall, SubmitWrite
<1>5. UNCHANGED <<isRunning, applied, answer>>
  BY DEF SubmitWrite, lockVars
<1>6. Writes!Ask(w)
  BY <1>2, <1>3, <1>4, <1>5 DEF Writes!Ask, Writes!Range, Range
<1>7. QED BY <1>6 DEF WritesStep, Writes!Next

\* Whoever finds its flag set reports a request that has taken effect.
LEMMA ReturnMaps ==
  ASSUME IInv, NEW w \in Writer, WaitOver(w) \/ TimeoutDone(w)
  PROVE  WritesStep
<1>1. Pending' = Pending /\ UNCHANGED <<isRunning, applied>>
  BY DEF Pending, WaitOver, TimeoutDone, queueVars, gameVars
<1>2. /\ InCall(w) /\ done[w]
      /\ wpc' = [wpc EXCEPT ![w] = "idle"]
      /\ answer' = [answer EXCEPT ![w] = TRUE]
  BY DEF WaitOver, TimeoutDone, Finish, InCall
<1>3. w \in Calling /\ Calling' = Calling \ {w}
  BY <1>2 DEF IInv, VarTypes, Calling, InCall
<1>4. applied[w] = 1
  BY <1>2 DEF IInv, Ownership
<1>5. Writes!Return(w)
  BY <1>1, <1>2, <1>3, <1>4 DEF Writes!Return
<1>6. QED BY <1>5 DEF WritesStep, Writes!Next

\* What is still queued has not taken effect.
LEMMA WithdrawMaps ==
  ASSUME IInv, NEW w \in Writer, TimeoutWithdraw(w)
  PROVE  WritesStep
<1>1. PICK i \in DOMAIN g_writeQueue :
        /\ g_writeQueue[i] = w
        /\ g_writeQueue' = RemoveAt(g_writeQueue, i)
  BY DEF TimeoutWithdraw
<1> DEFINE a == IF gpc = "mark" THEN <<>> ELSE batch
<1>2. /\ a \in Seq(Writer) /\ g_writeQueue \in Seq(Writer)
      /\ Pending = a \o g_writeQueue
      /\ Pending' = a \o RemoveAt(g_writeQueue, i)
  BY <1>1, EmptySeq DEF IInv, Lists, Pending, TimeoutWithdraw, gameVars
<1> HIDE DEF a
<1>3. \E j \in DOMAIN Pending : Pending[j] = w /\ Pending' = RemoveAt(Pending, j)
  <2>1. /\ Len(a) + i \in DOMAIN (a \o g_writeQueue)
        /\ (a \o g_writeQueue)[Len(a) + i] = w
        /\ RemoveAt(a \o g_writeQueue, Len(a) + i) = a \o RemoveAt(g_writeQueue, i)
    BY <1>1, <1>2, ConcatRemove
  <2>2. QED BY <2>1, <1>2
<1>4. /\ wpc[w] = "waiting" /\ wpc' = [wpc EXCEPT ![w] = "idle"]
      /\ answer' = [answer EXCEPT ![w] = FALSE]
      /\ UNCHANGED <<isRunning, applied>>
  BY DEF TimeoutWithdraw, Finish
<1>5. w \in Calling /\ Calling' = Calling \ {w}
  BY <1>4 DEF IInv, VarTypes, Calling
<1>6. applied[w] = 0
  BY <1>1 DEF IInv, Ownership, Queued, Range
<1>7. Writes!Withdraw(w)
  BY <1>3, <1>4, <1>5, <1>6 DEF Writes!Withdraw, Writes!RemoveAt, RemoveAt
<1>8. QED BY <1>7 DEF WritesStep, Writes!Next

\* The drain takes the whole queue: the order of what is pending stays.
LEMMA TakeMaps ==
  ASSUME IInv, DrainTake
  PROVE  WritesStep
<1>1. batch = <<>> /\ gpc = "take" /\ gpc' = "apply"
  BY DEF IInv, Lists, DrainTake, Go
<1>2. g_writeQueue \in Seq(Writer)
  BY DEF IInv, Lists
<1>3. Pending = <<>> \o g_writeQueue /\ Pending' = g_writeQueue \o <<>>
  BY <1>1 DEF Pending, DrainTake
<1>4. Pending' = Pending
  BY <1>2, <1>3, ConcatEmptySeq
<1>5. Calling' = Calling /\ UNCHANGED <<isRunning, applied, answer>>
  BY DEF Calling, DrainTake, lockVars, callVars
<1>6. QED BY <1>4, <1>5 DEF WritesStep, Writes!vars

\* The whole batch takes effect at once, and it is what was asked for first.
LEMMA ApplyMaps ==
  ASSUME IInv, ApplyWrites
  PROVE  WritesStep
<1>1. /\ gpc = "apply" /\ gpc' = "mark"
      /\ UNCHANGED <<isRunning, g_writeQueue, batch, wpc, answer>>
  BY DEF ApplyWrites, Go, lockVars, queueVars, callVars
<1>2. /\ batch \in Seq(Writer) /\ g_writeQueue \in Seq(Writer)
      /\ DOMAIN batch = 1 .. Len(batch) /\ Len(batch) \in Nat
  BY LenProperties DEF IInv, Lists
<1>3. Pending = batch \o g_writeQueue /\ Pending' = g_writeQueue
  BY <1>1, <1>2, ConcatEmptySeq DEF Pending
<1>4. Pending' = SubSeq(Pending, Len(batch) + 1, Len(Pending))
  BY <1>2, <1>3, ConcatDrop
<1>5. /\ Len(Pending) = Len(batch) + Len(g_writeQueue)
      /\ DOMAIN Pending = 1 .. Len(batch) + Len(g_writeQueue)
      /\ Len(g_writeQueue) \in Nat
      /\ \A k \in 1 .. Len(batch) : Pending[k] = batch[k]
  BY <1>2, <1>3, ConcatProperties, LenProperties
<1>6. ASSUME NEW w \in Writer
      PROVE  applied'[w] = IF \E k \in 1 .. Len(batch) : Pending[k] = w
                           THEN applied[w] + 1 ELSE applied[w]
  <2>1. Taken(w) <=> \E k \in 1 .. Len(batch) : Pending[k] = w
    BY <1>2, <1>5 DEF Taken, Range
  <2>2. Cardinality({k \in DOMAIN batch : batch[k] = w}) = IF Taken(w) THEN 1 ELSE 0
    BY OccursOnce DEF IInv, Lists, Taken
  <2>3. applied'[w] = applied[w] + (IF Taken(w) THEN 1 ELSE 0) /\ applied[w] \in {0, 1}
    BY <2>2 DEF ApplyWrites, IInv, VarTypes
  <2>4. QED BY <2>1, <2>3
<1>7. applied' = [w \in Writer |-> IF \E k \in 1 .. Len(batch) : Pending[k] = w
                                  THEN applied[w] + 1 ELSE applied[w]]
  <2>1. applied' = [w \in Writer |-> applied'[w]]
    BY DEF ApplyWrites
  <2>2. QED BY <2>1, <1>6
<1>8. CASE batch = <<>>
  <2>1. Pending' = Pending
    BY <1>2, <1>3, <1>8, ConcatEmptySeq
  <2>2. ASSUME NEW w \in Writer PROVE applied'[w] = applied[w]
    <3>1. ~ \E k \in 1 .. Len(batch) : Pending[k] = w
      BY <1>2, <1>8, EmptySeq
    <3>2. QED BY <3>1, <1>6
  <2>3. applied' = applied
    BY <1>7, <2>2 DEF IInv, VarTypes
  <2>4. Calling' = Calling
    BY <1>1 DEF Calling
  <2>5. QED BY <1>1, <2>1, <2>3, <2>4 DEF WritesStep, Writes!vars
<1>9. CASE batch # <<>>
  <2>1. isRunning = Running
    BY <1>9, BatchRuns
  <2>2. Len(batch) \in DOMAIN Pending
    BY <1>2, <1>5, <1>9, EmptySeq
  <2>3. Calling' = Calling
    BY <1>1 DEF Calling
  <2>4. Writes!Perform(Len(batch))
    BY <1>1, <1>4, <1>7, <2>1, <2>3 DEF Writes!Perform
  <2>5. QED BY <2>2, <2>4 DEF WritesStep, Writes!Next
<1>10. QED BY <1>8, <1>9

\* The batch leaves the list when its effect has been counted.
LEMMA MarkMaps ==
  ASSUME IInv, DrainMark
  PROVE  WritesStep
<1>1. /\ gpc = "mark" /\ gpc' = "notify" /\ batch' = <<>>
      /\ UNCHANGED <<isRunning, g_writeQueue, wpc, answer, applied>>
  BY DEF DrainMark, Go, lockVars, callVars
<1>2. Pending' = Pending /\ Calling' = Calling
  BY <1>1 DEF Pending, Calling
<1>3. QED BY <1>1, <1>2 DEF WritesStep, Writes!vars

\* Waits, wake-ups and slices are invisible.
LEMMA SilentMaps ==
  ASSUME IInv,
         \/ \E w \in Writer : WaitOn(w) \/ TimeoutTaken(w) \/ SetTimeFence(w)
         \/ DrainEmpty \/ DrainNotify \/ Loop \/ FenceTimeout
  PROVE  WritesStep
<1>1. UNCHANGED <<isRunning, g_writeQueue, batch, applied, answer>>
  BY DEF WaitOn, TimeoutTaken, SetTimeFence, DrainEmpty, DrainNotify, Loop, RunSlice,
         ReachFence, RealignFence, FencePosted, FenceTimeout, lockVars, queueVars, callVars
<1>2. gpc' = "mark" <=> gpc = "mark"
  BY DEF IInv, VarTypes, WaitOn, TimeoutTaken, SetTimeFence, DrainEmpty, DrainNotify,
         Drained, Loop, RunSlice, ReachFence, RealignFence, FencePosted, FenceTimeout, Go,
         gameVars
<1>3. Calling' = Calling
  <2>1. \/ wpc' = wpc
        \/ \E w \in Writer : wpc[w] = "waiting" /\ wpc' = [wpc EXCEPT ![w] = "taken"]
    BY DEF WaitOn, TimeoutTaken, SetTimeFence, DrainEmpty, DrainNotify, Loop, RunSlice,
           ReachFence, RealignFence, FencePosted, FenceTimeout, callVars
  <2>2. QED BY <2>1 DEF IInv, VarTypes, Calling
<1>4. QED BY <1>1, <1>2, <1>3, InvisibleMaps

\* The exclusive lock keeps a change of the machine's state out of every call.
LEMMA StateChangeMaps ==
  ASSUME IInv, LeaveRunning \/ EnterRunning
  PROVE  WritesStep
<1>1. Calling = {} /\ Calling' = Calling
  BY DEF IInv, Locks, Calling, LeaveRunning, EnterRunning, callVars
<1>2. Pending' = Pending /\ UNCHANGED <<applied, answer>>
  BY DEF Pending, LeaveRunning, EnterRunning, Go, queueVars, callVars
<1>3. isRunning' \in {Running, Stopping} /\ isRunning \in {Running, Stopping}
  BY DEF IInv, VarTypes, LeaveRunning, EnterRunning
<1>4. CASE isRunning' = isRunning
  BY <1>1, <1>2, <1>4 DEF WritesStep, Writes!vars
<1>5. CASE isRunning' # isRunning
  <2>1. (isRunning' = Running) = ~(isRunning = Running)
    BY <1>3, <1>5 DEF Running, Stopping
  <2>2. Writes!StopOrStart
    BY <1>1, <1>2, <2>1 DEF Writes!StopOrStart
  <2>3. QED BY <2>2 DEF WritesStep, Writes!Next
<1>6. QED BY <1>4, <1>5

LEMMA InitWritesMaps == Init => Writes!Init
<1> SUFFICES ASSUME Init PROVE Writes!Init
  OBVIOUS
<1>1. Pending = <<>> /\ Calling = {}
  <2>1. <<>> \o <<>> = <<>>
    BY EmptySeq, ConcatEmptySeq
  <2>2. QED BY <2>1 DEF Init, Pending, Calling
<1>2. QED BY <1>1 DEF Init, Writes!Init

\* Timeout and drain, however they meet, keep the promise of the interface:
\* requests take effect in order, at once and while the machine runs, and
\* every answer is true.
THEOREM ImplementsOrderedWrites == Spec => KeepsOrderedWrites
<1>1. ASSUME IInv, [Next]_vars PROVE [Writes!Next]_(Writes!vars)
  <2>1. ASSUME NEW w \in Writer, Call(w) PROVE WritesStep
    BY <1>1, <2>1, BeginMaps, SubmitMaps, ReturnMaps, WithdrawMaps, SilentMaps
       DEF Call, Timeout
  <2>2. CASE Drain
    BY <1>1, <2>2, TakeMaps, ApplyMaps, MarkMaps, SilentMaps DEF Drain, WritesStep
  <2>3. CASE (\E w \in Writer : SetTimeFence(w)) \/ Loop \/ FenceTimeout
    BY <1>1, <2>3, SilentMaps DEF WritesStep
  <2>4. CASE LeaveRunning \/ EnterRunning
    BY <1>1, <2>4, StateChangeMaps DEF WritesStep
  <2>5. CASE UNCHANGED vars
    <3>1. UNCHANGED <<isRunning, g_writeQueue, batch, applied, answer, wpc, gpc>>
      BY <2>5 DEF vars, lockVars, queueVars, gameVars, callVars
    <3>2. Calling' = Calling
      BY <3>1 DEF Calling
    <3>3. QED BY <3>1, <3>2, InvisibleMaps DEF WritesStep
  <2>6. QED BY <1>1, <2>1, <2>2, <2>3, <2>4, <2>5 DEF Next, WritesStep
<1>2. IInv /\ [Next]_vars => [Writes!Next]_(Writes!vars)
  BY <1>1
<1>3. KeepsOrderedWrites <=> Writes!Init /\ [][Writes!Next]_(Writes!vars)
  BY DEF KeepsOrderedWrites, Writes!Spec
<1>4. QED BY <1>2, <1>3, InitWritesMaps, WriteInvariance, PTL DEF Spec

=============================================================================
