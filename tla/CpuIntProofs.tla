---------------------------- MODULE CpuIntProofs ----------------------------
(***************************************************************************)
(* Proofs about CpuInt, for any set of lines, any size of the queue and    *)
(* any number of pending requests.                                         *)
(*                                                                         *)
(* Two facts carry the four properties.  The loop of the drain has handled *)
(* i requests and posted and index count the same ones (Counts); and a     *)
(* line the core sees asserted has a state that says so, or is the one     *)
(* being pulsed (Lines).                                                   *)
(***************************************************************************)
EXTENDS CpuInt, SequenceFacts, TLAPS

-----------------------------------------------------------------------------
Callback == {"empty_queue", "clear_lines"}

\* What the drain has done, and what it has still to do.
Counts ==
  /\ posted = index
  /\ phase \in {"loop", "line"} => served = i /\ i <= index
  /\ phase = "line" => i < index

\* What the core sees, against the states kept in cpuint.c.
Lines ==
  /\ phase # "line" => pulsing = {}
  /\ \A l \in asserted \cap KeptLine :
       irq_line_state[l] \in {"HOLD", "ASSERT"} \/ l \in pulsing

IInv == TypeOK /\ QueueIsServed /\ HoldTakenOnce /\ Counts /\ Lines

-----------------------------------------------------------------------------
(***************************************************************************)
(* The timers of this module.                                              *)
(***************************************************************************)

\* No timer is lost, and the new one is among those set if a slot was free.
LEMMA SetTimerFacts ==
  ASSUME timers \in Seq(Callback), NEW c \in Callback, SetTimer(c)
  PROVE  /\ timers' \in Seq(Callback)
         /\ timers' = timers \/ \E u \in DOMAIN timers' : timers'[u] = c
         /\ \A t \in DOMAIN timers : \E u \in DOMAIN timers' : timers'[u] = timers[t]
<1> SUFFICES ASSUME timers' # timers
             PROVE  /\ timers' \in Seq(Callback)
                    /\ \E u \in DOMAIN timers' : timers'[u] = c
                    /\ \A t \in DOMAIN timers :
                         \E u \in DOMAIN timers' : timers'[u] = timers[t]
  OBVIOUS
<1>1. PICK at \in 1 .. Len(timers) + 1 : timers' = InsertAt(timers, at, c)
  BY DEF SetTimer
<1>2. /\ timers' \in Seq(Callback)
      /\ Len(timers') = Len(timers) + 1
      /\ timers'[at] = c
      /\ \A j \in 1 .. Len(timers) + 1 :
           /\ j < at => timers'[j] = timers[j]
           /\ j > at => timers'[j] = timers[j - 1]
  BY <1>1, InsertAtFacts
<1>3. /\ DOMAIN timers = 1 .. Len(timers)
      /\ DOMAIN timers' = 1 .. Len(timers) + 1
      /\ Len(timers) \in Nat
  BY <1>2, LenProperties
<1>4. ASSUME NEW t \in DOMAIN timers
      PROVE  \E u \in DOMAIN timers' : timers'[u] = timers[t]
  <2>1. CASE t < at
    BY <2>1, <1>2, <1>3
  <2>2. CASE t >= at
    <3>1. t + 1 \in DOMAIN timers' /\ t + 1 > at /\ (t + 1) - 1 = t
      BY <2>2, <1>3
    <3>2. timers'[t + 1] = timers[t]
      BY <3>1, <1>2, <1>3
    <3>3. QED BY <3>1, <3>2
  <2>3. QED BY <2>1, <2>2, <1>3
<1>5. QED BY <1>2, <1>3, <1>4

\* When the first timer fires, the others stay.
LEMMA FireFacts ==
  ASSUME timers \in Seq(Callback), timers # <<>>, timers' = Tail(timers)
  PROVE  /\ timers' \in Seq(Callback)
         /\ \A t \in DOMAIN timers :
              timers[t] # Head(timers) =>
                \E u \in DOMAIN timers' : timers'[u] = timers[t]
<1>1. /\ timers' \in Seq(Callback)
      /\ Len(timers') = Len(timers) - 1
      /\ \A j \in 1 .. Len(timers') : timers'[j] = timers[j + 1]
      /\ Len(timers) \in Nat \ {0}
      /\ Head(timers) = timers[1]
  BY HeadTailProperties, LenProperties, EmptySeq
<1>2. ASSUME NEW t \in DOMAIN timers, timers[t] # Head(timers)
      PROVE  \E u \in DOMAIN timers' : timers'[u] = timers[t]
  <2>1. /\ t \in 1 .. Len(timers) /\ t # 1
        /\ DOMAIN timers' = 1 .. Len(timers')
    BY <1>1, <1>2, LenProperties
  <2>2. t - 1 \in DOMAIN timers' /\ (t - 1) + 1 = t
    BY <2>1, <1>1
  <2>3. timers'[t - 1] = timers[t]
    BY <2>2, <2>1, <1>1
  <2>4. QED BY <2>2, <2>3
<1>3. QED BY <1>1, <1>2

-----------------------------------------------------------------------------
(***************************************************************************)
(* The invariant holds at first, and every step keeps it.                  *)
(***************************************************************************)
LEMMA InitIInv == Init => IInv
<1> SUFFICES ASSUME Init PROVE IInv
  OBVIOUS
<1>1. queue \in [0 .. MaxEvents - 1 -> Event]
  BY IntAssumption DEF Init, Event
<1>2. 0 \in 0 .. MaxPending
  BY IntAssumption
<1>3. timers \in Seq({"empty_queue", "clear_lines"}) /\ stranded \in BOOLEAN
  BY EmptySeq DEF Init
<1>4. TypeOK
  BY <1>1, <1>2, <1>3 DEF Init, TypeOK, Phase
<1>5. QueueIsServed /\ HoldTakenOnce /\ Counts /\ Lines
  BY DEF Init, QueueIsServed, HoldTakenOnce, Counts, Lines
<1>6. QED BY <1>4, <1>5 DEF IInv

\* Requests: the first of a batch leaves a timer behind, or is stranded.
LEMMA RequestIInv ==
  ASSUME IInv, NEW e \in Event, Request(e)
  PROVE  IInv'
<1>1. /\ timers \in Seq(Callback)
      /\ index \in 0 .. MaxPending
      /\ queue \in [0 .. MaxEvents - 1 -> Event]
  BY DEF IInv, TypeOK, Callback
<1>2. /\ timers' \in Seq(Callback)
      /\ stranded' \in BOOLEAN
      /\ phase = "run" /\ ~stranded' =>
           \E t \in DOMAIN timers' : timers'[t] = "empty_queue"
  <2>1. CASE index = 0
    BY <2>1, <1>1, SetTimerFacts DEF Request, Callback
  <2>2. CASE index # 0
    <3>1. timers' = timers /\ stranded' = stranded /\ index > 0
      BY <2>2, <1>1 DEF Request
    <3>2. QED BY <3>1, <1>1 DEF IInv, TypeOK, QueueIsServed
  <2>3. QED BY <2>1, <2>2
<1>3. queue' \in [0 .. MaxEvents - 1 -> Event]
  BY <1>1 DEF Request
<1>4. index' \in 0 .. MaxPending /\ posted' \in 0 .. MaxPending
  BY <1>1, IntAssumption DEF IInv, Counts, Request
<1>5. TypeOK'
  BY <1>2, <1>3, <1>4 DEF IInv, TypeOK, Request, lineVars, Callback
<1>6. QueueIsServed'
  BY <1>2 DEF QueueIsServed, Request
<1>7. Counts'
  BY <1>1 DEF IInv, TypeOK, Counts, Request
<1>8. HoldTakenOnce' /\ Lines'
  BY DEF IInv, HoldTakenOnce, Lines, Request, lineVars
<1>9. QED BY <1>5, <1>6, <1>7, <1>8 DEF IInv

\* Disabling interrupts and changing a vector only set the other timer.
LEMMA ClearTimerIInv ==
  ASSUME IInv,
         (\E on \in BOOLEAN : InterruptEnable(on)) \/ ChangeVector
  PROVE  IInv'
<1>1. timers \in Seq(Callback)
  BY DEF IInv, TypeOK, Callback
<1>2. /\ timers' \in Seq(Callback)
      /\ \A t \in DOMAIN timers : \E u \in DOMAIN timers' : timers'[u] = timers[t]
  <2>1. CASE SetTimer("clear_lines")
    BY <2>1, <1>1, SetTimerFacts DEF Callback
  <2>2. CASE timers' = timers
    BY <2>2, <1>1
  <2>3. QED BY <2>1, <2>2 DEF InterruptEnable, ChangeVector
<1>3. /\ interrupt_enable' \in BOOLEAN
      /\ UNCHANGED <<irq_line_state, asserted, pulsing, queue, index, i, phase,
                     posted, served, taken, stranded>>
  BY DEF IInv, TypeOK, InterruptEnable, ChangeVector, lineVars, history
<1>4. TypeOK'
  BY <1>2, <1>3 DEF IInv, TypeOK, Callback
<1>5. QueueIsServed'
  BY <1>2, <1>3 DEF IInv, QueueIsServed
<1>6. HoldTakenOnce' /\ Counts' /\ Lines'
  BY <1>3 DEF IInv, HoldTakenOnce, Counts, Lines
<1>7. QED BY <1>4, <1>5, <1>6 DEF IInv

LEMMA ClearLinesIInv ==
  ASSUME IInv, ClearLines
  PROVE  IInv'
<1>1. /\ timers' \in Seq(Callback)
      /\ \A t \in DOMAIN timers :
           timers[t] # "clear_lines" =>
             \E u \in DOMAIN timers' : timers'[u] = timers[t]
  BY FireFacts DEF IInv, TypeOK, Callback, ClearLines
<1>2. TypeOK'
  BY <1>1 DEF IInv, TypeOK, Callback, ClearLines, history
<1>3. QueueIsServed'
  BY <1>1 DEF IInv, QueueIsServed, ClearLines, history
<1>4. HoldTakenOnce' /\ Counts' /\ Lines'
  BY DEF IInv, HoldTakenOnce, Counts, Lines, ClearLines, history
<1>5. QED BY <1>2, <1>3, <1>4 DEF IInv

LEMMA BeginDrainIInv ==
  ASSUME IInv, BeginDrain
  PROVE  IInv'
<1>1. timers' \in Seq(Callback)
  BY FireFacts DEF IInv, TypeOK, Callback, BeginDrain
<1>2. 0 \in 0 .. MaxPending /\ index >= 0
  BY IntAssumption DEF IInv, TypeOK
<1>3. TypeOK'
  BY <1>1, <1>2 DEF IInv, TypeOK, Callback, Phase, BeginDrain, lineVars
<1>4. QueueIsServed' /\ HoldTakenOnce' /\ Counts' /\ Lines'
  BY <1>2 DEF IInv, QueueIsServed, HoldTakenOnce, Counts, Lines, BeginDrain, lineVars
<1>5. QED BY <1>3, <1>4 DEF IInv

\* The state is stored before the line is set, so whatever the core sees has
\* its state.
LEMMA DrainEventIInv ==
  ASSUME IInv, DrainEvent
  PROVE  IInv'
<1>1. PICK e \in Read(i) : Deliver(e)
  BY DEF DrainEvent
<1>2. e \in Event
  <2>1. i \in Nat
    BY IntAssumption DEF IInv, TypeOK
  <2>2. CASE i < MaxEvents
    <3>1. i \in 0 .. MaxEvents - 1 /\ e = queue[i]
      BY <2>1, <2>2, <1>1, IntAssumption DEF Read
    <3>2. QED BY <3>1 DEF IInv, TypeOK
  <2>3. CASE ~(i < MaxEvents)
    BY <2>3, <1>1 DEF Read
  <2>4. QED BY <2>2, <2>3
<1>3. e.line \in Line /\ e.state \in {"PULSE", "HOLD", "ASSERT", "CLEAR"}
  BY <1>2 DEF Event
<1>4. /\ irq_line_state' \in [KeptLine -> {"PULSE", "HOLD", "ASSERT", "CLEAR"}]
      /\ taken' \in [KeptLine -> 0 .. 2]
      /\ asserted' \subseteq Line /\ pulsing' \subseteq Line
  BY <1>1, <1>3 DEF IInv, TypeOK, Deliver
<1>5. TypeOK'
  BY <1>4 DEF IInv, TypeOK, Phase, DrainEvent, queueVars
<1>6. QueueIsServed' /\ Counts'
  BY DEF IInv, QueueIsServed, Counts, DrainEvent, queueVars
<1>7. HoldTakenOnce'
  BY <1>1, <1>3 DEF IInv, TypeOK, HoldTakenOnce, Deliver
<1>8. Lines'
  BY <1>1, <1>3 DEF IInv, Lines, Deliver, DrainEvent
<1>9. QED BY <1>5, <1>6, <1>7, <1>8 DEF IInv

LEMMA DrainNextIInv ==
  ASSUME IInv, DrainNext
  PROVE  IInv'
<1>1. /\ i \in 0 .. MaxPending /\ index \in 0 .. MaxPending
      /\ i < index /\ served = i
  BY DEF IInv, TypeOK, Counts, DrainNext
<1>2. i + 1 \in 0 .. MaxPending /\ i + 1 <= index
  BY <1>1, IntAssumption
<1>3. TypeOK'
  BY <1>1, <1>2 DEF IInv, TypeOK, Phase, DrainNext, queueVars
<1>4. QueueIsServed' /\ HoldTakenOnce' /\ Counts' /\ Lines'
  BY <1>1, <1>2 DEF IInv, QueueIsServed, HoldTakenOnce, Counts, Lines, DrainNext, queueVars
<1>5. QED BY <1>3, <1>4 DEF IInv

\* The end of the drain and the reset of the CPU empty the queue.
LEMMA EndDrainIInv ==
  ASSUME IInv, EndDrain
  PROVE  IInv'
<1>1. 0 \in 0 .. MaxPending
  BY IntAssumption
<1>2. TypeOK'
  BY <1>1 DEF IInv, TypeOK, Phase, EndDrain, lineVars
<1>3. QueueIsServed' /\ HoldTakenOnce' /\ Counts' /\ Lines'
  BY DEF IInv, QueueIsServed, HoldTakenOnce, Counts, Lines, EndDrain, lineVars
<1>4. QED BY <1>2, <1>3 DEF IInv

LEMMA ResetCpuIInv ==
  ASSUME IInv, ResetCpu
  PROVE  IInv'
<1>1. 0 \in 0 .. MaxPending
  BY IntAssumption
<1>2. TypeOK'
  BY <1>1 DEF IInv, TypeOK, Phase, ResetCpu
<1>3. QueueIsServed' /\ HoldTakenOnce' /\ Counts' /\ Lines'
  BY DEF IInv, QueueIsServed, HoldTakenOnce, Counts, Lines, ResetCpu
<1>4. QED BY <1>2, <1>3 DEF IInv

LEMMA FreeTimersIInv ==
  ASSUME IInv, FreeTimers
  PROVE  IInv'
<1>1. TypeOK'
  BY EmptySeq DEF IInv, TypeOK, Phase, FreeTimers, lineVars, history
<1>2. QueueIsServed' /\ HoldTakenOnce' /\ Counts' /\ Lines'
  BY DEF IInv, QueueIsServed, HoldTakenOnce, Counts, Lines, FreeTimers, lineVars, history
<1>3. QED BY <1>1, <1>2 DEF IInv

\* An acknowledge drops a HOLD line and its state together.
LEMMA AcknowledgeIInv ==
  ASSUME IInv, NEW l \in KeptLine, Acknowledge(l)
  PROVE  IInv'
<1>1. taken' \in [KeptLine -> 0 .. 2]
  BY DEF IInv, TypeOK, Acknowledge
<1>2. /\ irq_line_state' \in [KeptLine -> {"PULSE", "HOLD", "ASSERT", "CLEAR"}]
      /\ asserted' \subseteq asserted
  BY DEF IInv, TypeOK, Acknowledge
<1>3. TypeOK'
  BY <1>1, <1>2 DEF IInv, TypeOK, Acknowledge, queueVars
<1>4. QueueIsServed' /\ Counts'
  BY DEF IInv, QueueIsServed, Counts, Acknowledge, queueVars
<1>5. ASSUME NEW k \in KeptLine
      PROVE  /\ irq_line_state'[k] = "HOLD" => taken'[k] = 0
             /\ k \in asserted' =>
                  irq_line_state'[k] \in {"HOLD", "ASSERT"} \/ k \in pulsing'
  <2>1. CASE irq_line_state[l] = "HOLD"
    BY <2>1 DEF IInv, TypeOK, HoldTakenOnce, Lines, Acknowledge
  <2>2. CASE irq_line_state[l] # "HOLD"
    BY <2>2 DEF IInv, TypeOK, HoldTakenOnce, Lines, Acknowledge
  <2>3. QED BY <2>1, <2>2
<1>6. HoldTakenOnce' /\ Lines'
  BY <1>5 DEF IInv, HoldTakenOnce, Lines, Acknowledge
<1>7. QED BY <1>3, <1>4, <1>6 DEF IInv

LEMMA NextIInv == IInv /\ [Next]_vars => IInv'
<1> SUFFICES ASSUME IInv, [Next]_vars PROVE IInv'
  OBVIOUS
<1>1. CASE UNCHANGED vars
  <2>1. /\ UNCHANGED <<interrupt_enable, irq_line_state, asserted, pulsing, queue>>
        /\ UNCHANGED <<index, timers, i, phase, posted, served, taken, stranded>>
    BY <1>1 DEF vars, lineVars, queueVars, history
  <2>2. QED BY <2>1 DEF IInv, TypeOK, QueueIsServed, HoldTakenOnce, Counts, Lines
<1>2. CASE \E e \in Event : Request(e) \/ Generate(e)
  BY <1>2, RequestIInv DEF Generate
<1>3. CASE (\E on \in BOOLEAN : InterruptEnable(on)) \/ ChangeVector \/ ClearLines
  BY <1>3, ClearTimerIInv, ClearLinesIInv
<1>4. CASE BeginDrain \/ DrainEvent \/ DrainNext \/ EndDrain
  BY <1>4, BeginDrainIInv, DrainEventIInv, DrainNextIInv, EndDrainIInv
<1>5. CASE (\E l \in KeptLine : Acknowledge(l)) \/ FreeTimers \/ ResetCpu
  BY <1>5, AcknowledgeIInv, FreeTimersIInv, ResetCpuIInv
<1>6. QED BY <1>1, <1>2, <1>3, <1>4, <1>5 DEF Next

-----------------------------------------------------------------------------
(***************************************************************************)
(* The theorems.                                                           *)
(***************************************************************************)

\* The counts of the drain and the states of the lines, in every reachable
\* state.
THEOREM IntInvariance == Spec => []IInv
<1>1. IInv /\ [Next]_vars => IInv'
  BY NextIInv
<1>2. QED BY <1>1, InitIInv, PTL DEF Spec

\* The types; among others, the counts of a drain stay within what was asked.
THEOREM IntTypeCorrect == Spec => []TypeOK
<1>1. IInv => TypeOK
  BY DEF IInv
<1>2. QED BY <1>1, IntInvariance, PTL

\* Requests in the queue of a running machine have a timer that drains them,
\* unless the first of them found every slot used.
THEOREM QueueAlwaysServed == Spec => []QueueIsServed
<1>1. IInv => QueueIsServed
  BY DEF IInv
<1>2. QED BY <1>1, IntInvariance, PTL

\* A HOLD interrupt is taken at most once.
THEOREM HoldIsTakenOnce == Spec => []HoldTakenOnce
<1>1. IInv => HoldTakenOnce
  BY DEF IInv
<1>2. QED BY <1>1, IntInvariance, PTL

\* No line stays asserted that cpuint.c takes for clear.
THEOREM NoLineStaysStuck == Spec => []NoLineStuck
<1>1. IInv => NoLineStuck
  BY DEF IInv, Lines, NoLineStuck
<1>2. QED BY <1>1, IntInvariance, PTL

\* A drain ends when it has handled as many requests as were made.
THEOREM DrainLosesNothing == Spec => NothingLostInDrain
<1>1. IInv /\ IInv' /\ [Next]_vars =>
        [phase = "loop" /\ phase' = "run" => served = posted]_vars
  <2> SUFFICES ASSUME IInv, Next, phase = "loop", phase' = "run"
               PROVE  served = posted
    OBVIOUS
  <2>1. EndDrain
    BY DEF Next, Request, Generate, CanRequest, InterruptEnable, ChangeVector,
           ClearLines, BeginDrain, DrainEvent, DrainNext, Acknowledge, FreeTimers,
           ResetCpu
  <2>2. QED BY <2>1 DEF IInv, TypeOK, Counts, EndDrain
<1>2. QED BY <1>1, IntInvariance, PTL DEF Spec, NothingLostInDrain

-----------------------------------------------------------------------------
(***************************************************************************)
(* The queue implements IrqOrder.  Its state there is what the loop has    *)
(* still to read, so that the index, the loop variable and the array are   *)
(* one sequence: a request lengthens it, an event read shortens it, and    *)
(* nothing else touches it but a reset.                                    *)
(***************************************************************************)
OrderStep == [Requests!Next]_(Requests!vars)
Serving == phase \in {"loop", "line"}

\* What is pending, cell by cell.
PendingCells ==
  /\ Reached \in Nat /\ index \in Nat /\ Reached <= index
  /\ Pending \in Seq(SUBSET Event)
  /\ Len(Pending) = index - Reached
  /\ \A k \in 1 .. index - Reached : Pending[k] = Read(Reached + k - 1)

LEMMA PendingFacts == IInv => PendingCells
<1> SUFFICES ASSUME IInv PROVE PendingCells
  OBVIOUS
<1>1. Reached \in Nat /\ index \in Nat /\ Reached <= index
  BY IntAssumption DEF IInv, TypeOK, Counts, Reached, Phase
<1>2. ASSUME NEW c \in Nat PROVE Read(c) \in SUBSET Event
  BY IntAssumption DEF IInv, TypeOK, Read
<1>3. index - Reached \in Nat
  BY <1>1
<1>4. ASSUME NEW k \in 1 .. index - Reached PROVE Reached + k - 1 \in Nat
  BY <1>1
<1>5. Pending \in [1 .. index - Reached -> SUBSET Event]
  BY <1>2, <1>4 DEF Pending
<1>6. Pending \in Seq(SUBSET Event) /\ Len(Pending) = index - Reached
  BY <1>3, <1>5, FunctionIsSeq
<1>7. QED BY <1>1, <1>6 DEF Pending, PendingCells

LEMMA PendingFactsNext == IInv' => PendingCells'
BY PendingFacts, PTL

\* A step that leaves the queue and the lines alone.
LEMMA InvisibleMaps ==
  ASSUME UNCHANGED <<queue, index, i, phase, irq_line_state, asserted, pulsing>>
  PROVE  OrderStep
<1>1. Reached' = Reached
  BY DEF Reached
<1>2. Pending' = Pending /\ Held' = Held
  BY <1>1 DEF Pending, Read, Held
<1>3. QED BY <1>2 DEF OrderStep, Requests!vars

LEMMA RequestMaps ==
  ASSUME IInv, IInv', NEW e \in Event, Request(e)
  PROVE  OrderStep
<1> DEFINE n == IF index < MaxEvents THEN {e} ELSE Event
           NextRead(c) == IF c < MaxEvents THEN {queue'[c]} ELSE Event
<1>1. Reached' = Reached /\ index' = index + 1
  BY DEF Reached, Request
<1>2. /\ Reached \in Nat /\ index \in Nat /\ Reached <= index
      /\ Pending \in Seq(SUBSET Event)
      /\ Len(Pending) = index - Reached
      /\ \A k \in 1 .. index - Reached : Pending[k] = Read(Reached + k - 1)
  BY PendingFacts DEF PendingCells
<1>3. /\ Pending' \in Seq(SUBSET Event)
      /\ Len(Pending') = (index + 1) - Reached
      /\ \A k \in 1 .. (index + 1) - Reached :
           Pending'[k] = NextRead(Reached + k - 1)
  <2>1. PendingCells'
    BY PendingFactsNext
  <2>2. QED BY <2>1, <1>1 DEF PendingCells, Read, NextRead
<1>4. n \in SUBSET Event /\ n \in Requests!Note
  BY DEF Requests!Note
<1>5. ASSUME NEW c \in 0 .. index
      PROVE  NextRead(c) = IF c < index THEN Read(c) ELSE n
  <2>1. /\ queue \in [0 .. MaxEvents - 1 -> Event]
        /\ queue' = IF index < MaxEvents THEN [queue EXCEPT ![index] = e] ELSE queue
    BY DEF Request, IInv, TypeOK
  <2>2. c < MaxEvents => queue'[c] = IF c < index THEN queue[c] ELSE e
    BY <2>1, <1>2, IntAssumption
  <2>3. CASE c < MaxEvents
    <3>1. NextRead(c) = {queue'[c]} /\ Read(c) = {queue[c]}
      BY <2>3 DEF Read, NextRead
    <3>2. CASE c < index
      BY <3>1, <3>2, <2>2, <2>3
    <3>3. CASE c = index
      <4>1. n = {e} /\ ~(c < index)
        BY <2>3, <3>3, <1>2
      <4>2. QED BY <4>1, <3>1, <2>2, <2>3
    <3>4. QED BY <3>2, <3>3, <1>2
  <2>4. CASE ~(c < MaxEvents)
    <3>1. NextRead(c) = Event /\ Read(c) = Event
      BY <2>4 DEF Read, NextRead
    <3>2. CASE c < index
      BY <3>1, <3>2
    <3>3. CASE c = index
      <4>1. n = Event /\ ~(c < index)
        BY <2>4, <3>3, <1>2
      <4>2. QED BY <4>1, <3>1
    <3>4. QED BY <3>2, <3>3, <1>2
  <2>5. QED BY <2>3, <2>4
<1> HIDE DEF n, NextRead
<1>6. /\ Append(Pending, n) \in Seq(SUBSET Event)
      /\ Len(Append(Pending, n)) = Len(Pending) + 1
      /\ \A k \in 1 .. Len(Pending) : Append(Pending, n)[k] = Pending[k]
      /\ Append(Pending, n)[Len(Pending) + 1] = n
  BY <1>2, <1>4, AppendProperties
<1>7. ASSUME NEW k \in 1 .. (index + 1) - Reached
      PROVE  Pending'[k] = Append(Pending, n)[k]
  <2>1. Reached + k - 1 \in 0 .. index /\ k \in Nat
    BY <1>2
  <2>2. Pending'[k] = IF Reached + k - 1 < index THEN Read(Reached + k - 1) ELSE n
    BY <2>1, <1>3, <1>5
  <2>3. CASE Reached + k - 1 < index
    <3>1. k \in 1 .. index - Reached
      BY <2>1, <2>3, <1>2
    <3>2. QED BY <3>1, <2>2, <2>3, <1>2, <1>6
  <2>4. CASE ~(Reached + k - 1 < index)
    <3>1. k = Len(Pending) + 1
      BY <2>1, <2>4, <1>2
    <3>2. QED BY <3>1, <2>2, <2>4, <1>6
  <2>5. QED BY <2>3, <2>4
<1>8. Pending' = Append(Pending, n)
  <2>1. Len(Append(Pending, n)) = (index + 1) - Reached
    BY <1>2, <1>6
  <2>2. QED BY <2>1, <1>3, <1>6, <1>7, SeqEqual
<1>9. /\ Held' = Held
      /\ UNCHANGED <<asserted, pulsing, phase>>
  BY DEF Held, Request, lineVars
<1>10. Requests!Ask
  BY <1>1, <1>4, <1>8, <1>9 DEF Requests!Ask
<1>11. QED BY <1>10 DEF OrderStep, Requests!Next

\* Entering the loop, it has everything before it.
LEMMA BeginMaps ==
  ASSUME IInv, BeginDrain
  PROVE  OrderStep
<1>1. Reached' = Reached
  BY DEF Reached, BeginDrain
<1>2. Pending' = Pending /\ Held' = Held
  BY <1>1 DEF Pending, Read, Held, BeginDrain, lineVars
<1>3. ~Serving /\ Serving' /\ UNCHANGED <<asserted, pulsing, index>>
  BY DEF Serving, BeginDrain, lineVars
<1>4. Requests!Begin
  BY <1>2, <1>3 DEF Requests!Begin, Serving
<1>5. QED BY <1>4 DEF OrderStep, Requests!Next

\* The event the loop reads is the oldest pending request.
LEMMA ServeMaps ==
  ASSUME IInv, IInv', DrainEvent
  PROVE  OrderStep
<1>1. /\ phase = "loop" /\ phase' = "line" /\ i < index /\ i \in Nat
      /\ UNCHANGED <<queue, index, i>>
  BY IntAssumption DEF DrainEvent, queueVars, IInv, TypeOK
<1>2. Reached = i /\ Reached' = i + 1
  BY <1>1 DEF Reached
<1>3. /\ index \in Nat
      /\ Pending \in Seq(SUBSET Event)
      /\ Len(Pending) = index - i
      /\ \A k \in 1 .. index - i : Pending[k] = Read(i + k - 1)
  BY <1>2, PendingFacts DEF PendingCells
<1>4. /\ Pending' \in Seq(SUBSET Event)
      /\ Len(Pending') = index - (i + 1)
      /\ \A k \in 1 .. index - (i + 1) : Pending'[k] = Read((i + 1) + k - 1)
  <2>1. PendingCells'
    BY PendingFactsNext
  <2>2. QED BY <2>1, <1>1, <1>2 DEF PendingCells, Read
<1>5. Pending # <<>>
  BY <1>1, <1>3, EmptySeq
<1>6. Head(Pending) = Read(i)
  <2>1. 1 \in 1 .. index - i /\ i + 1 - 1 = i
    BY <1>1, <1>3
  <2>2. QED BY <2>1, <1>3
<1>7. Pending' = Tail(Pending)
  <2>1. /\ Tail(Pending) \in Seq(SUBSET Event)
        /\ Len(Tail(Pending)) = Len(Pending) - 1
        /\ \A k \in 1 .. Len(Tail(Pending)) : Tail(Pending)[k] = Pending[k + 1]
    BY <1>3, <1>5, HeadTailProperties
  <2>2. Len(Tail(Pending)) = index - (i + 1)
    BY <2>1, <1>1, <1>3
  <2>3. ASSUME NEW k \in 1 .. index - (i + 1) PROVE Pending'[k] = Tail(Pending)[k]
    <3>1. k + 1 \in 1 .. index - i /\ i + (k + 1) - 1 = (i + 1) + k - 1
      BY <1>1, <1>3
    <3>2. QED BY <3>1, <2>1, <2>2, <1>3, <1>4
  <2>4. QED BY <2>1, <2>2, <2>3, <1>4, SeqEqual
<1>8. PICK e \in Read(i) : Deliver(e)
  BY DEF DrainEvent
<1>9. Held' = IF e.state = "HOLD" THEN Held \cup ({e.line} \cap KeptLine)
              ELSE Held \ {e.line}
  BY <1>8 DEF Held, Deliver
<1>10. /\ asserted' = (IF e.state = "CLEAR" THEN asserted \ {e.line}
                       ELSE asserted \cup {e.line})
       /\ pulsing' = (IF e.state = "PULSE" THEN {e.line} ELSE {})
       /\ pulsing = {}
  BY <1>1, <1>8 DEF Deliver, IInv, Lines
<1>11. \E f \in Head(Pending) :
         /\ asserted' = IF f.state = "CLEAR" THEN asserted \ {f.line}
                        ELSE asserted \cup {f.line}
         /\ pulsing' = IF f.state = "PULSE" THEN {f.line} ELSE {}
         /\ Held' = IF f.state = "HOLD" THEN Held \cup ({f.line} \cap KeptLine)
                    ELSE Held \ {f.line}
  BY <1>6, <1>9, <1>10
<1>12. UNCHANGED <<index, phase \in {"loop", "line"}>>
  BY <1>1
<1>13. Requests!Serve
  <2>1. phase \in {"loop", "line"}
    BY <1>1
  <2>2. QED BY <2>1, <1>5, <1>7, <1>10, <1>11, <1>12, Zenon DEF Requests!Serve
<1>14. QED BY <1>13 DEF OrderStep, Requests!Next

LEMMA EndPulseMaps ==
  ASSUME IInv, DrainNext
  PROVE  OrderStep
<1>1. Reached' = Reached
  BY DEF Reached, DrainNext
<1>2. Pending' = Pending /\ Held' = Held
  BY <1>1 DEF Pending, Read, Held, DrainNext, queueVars
<1>3. /\ asserted' = asserted \ pulsing /\ pulsing' = {}
      /\ UNCHANGED index
      /\ phase = "line" /\ phase' = "loop"
  BY DEF DrainNext, queueVars
<1>4. Requests!EndPulse
  BY <1>2, <1>3 DEF Requests!EndPulse
<1>5. QED BY <1>4 DEF OrderStep, Requests!Next

\* The loop ends when it has read all there is.
LEMMA EndMaps ==
  ASSUME IInv, IInv', EndDrain
  PROVE  OrderStep
<1>1. /\ phase = "loop" /\ phase' = "run" /\ index' = 0 /\ i >= index
      /\ UNCHANGED <<asserted, pulsing, irq_line_state>>
  BY DEF EndDrain, lineVars
<1>2. Reached = index /\ Reached' = 0 /\ index \in Nat
  BY <1>1, IntAssumption DEF Reached, IInv, TypeOK, Counts
<1>3. Pending = <<>> /\ Pending' = <<>>
  <2>1. Pending \in Seq(SUBSET Event) /\ Len(Pending) = 0
    BY <1>2, PendingFacts DEF PendingCells
  <2>2. Pending' \in Seq(SUBSET Event) /\ Len(Pending') = 0
    BY <1>1, <1>2, PendingFactsNext DEF PendingCells
  <2>3. QED BY <2>1, <2>2, EmptySeq
<1>4. Held' = Held /\ pulsing = {}
  BY <1>1 DEF Held, IInv, Lines
<1>5. Requests!End
  BY <1>1, <1>3, <1>4 DEF Requests!End
<1>6. QED BY <1>5 DEF OrderStep, Requests!Next

\* An acknowledge touches a held line only.
LEMMA TakeMaps ==
  ASSUME IInv, NEW l \in KeptLine, Acknowledge(l)
  PROVE  OrderStep
<1>1. UNCHANGED <<queue, index, i, phase, pulsing>> /\ l \in asserted
  BY DEF Acknowledge, queueVars
<1>2. Pending' = Pending
  <2>1. Reached' = Reached
    BY <1>1 DEF Reached
  <2>2. QED BY <2>1, <1>1 DEF Pending, Read
<1>3. CASE irq_line_state[l] = "HOLD"
  <2>1. l \in Held /\ Held' = Held \ {l} /\ asserted' = asserted \ {l}
    BY <1>3 DEF Held, Acknowledge, IInv, TypeOK
  <2>2. Requests!Take(l)
    BY <1>1, <1>2, <2>1 DEF Requests!Take
  <2>3. QED BY <1>1, <2>2 DEF OrderStep, Requests!Next
<1>4. CASE irq_line_state[l] # "HOLD"
  BY <1>1, <1>4, InvisibleMaps DEF Acknowledge
<1>5. QED BY <1>3, <1>4

LEMMA ClearMaps ==
  ASSUME IInv, ClearLines
  PROVE  OrderStep
<1>1. /\ UNCHANGED <<queue, index, i, phase, pulsing, irq_line_state>>
      /\ phase = "run" /\ asserted' = {}
  BY DEF ClearLines
<1>2. Pending' = Pending /\ Held' = Held
  <2>1. Reached' = Reached
    BY <1>1 DEF Reached
  <2>2. QED BY <2>1, <1>1 DEF Pending, Read, Held
<1>3. Requests!ClearAll
  BY <1>1, <1>2 DEF Requests!ClearAll
<1>4. QED BY <1>3 DEF OrderStep, Requests!Next

\* A reset drops the requests that are pending.
LEMMA ResetMaps ==
  ASSUME IInv, IInv', ResetCpu
  PROVE  OrderStep
<1>1. /\ phase = "reset" /\ phase' = "run" /\ index' = 0
      /\ asserted' \in {asserted, {}}
      /\ UNCHANGED <<pulsing, irq_line_state>>
  BY DEF ResetCpu
<1>2. Reached' = 0
  BY <1>1 DEF Reached
<1>3. Pending' = <<>>
  <2>1. Pending' \in Seq(SUBSET Event) /\ Len(Pending') = 0
    BY <1>1, <1>2, PendingFactsNext DEF PendingCells
  <2>2. QED BY <2>1, EmptySeq
<1>4. Held' = Held
  BY <1>1 DEF Held
<1>5. Requests!Reset
  BY <1>1, <1>3, <1>4 DEF Requests!Reset
<1>6. QED BY <1>5 DEF OrderStep, Requests!Next

\* Timers and the first half of a reset are invisible.
LEMMA SilentMaps ==
  ASSUME IInv,
         (\E on \in BOOLEAN : InterruptEnable(on)) \/ ChangeVector \/ FreeTimers
  PROVE  OrderStep
<1>1. /\ UNCHANGED <<queue, index, i, irq_line_state, asserted, pulsing>>
      /\ phase = "run" /\ phase' \in {"run", "reset"}
  BY DEF InterruptEnable, ChangeVector, FreeTimers, lineVars
<1>2. Reached' = Reached /\ ~Serving /\ ~Serving'
  BY <1>1 DEF Reached, Serving
<1>3. Pending' = Pending /\ Held' = Held
  BY <1>1, <1>2 DEF Pending, Read, Held
<1>4. QED BY <1>1, <1>2, <1>3 DEF OrderStep, Requests!vars, Serving

LEMMA InitOrderMaps == Init => Requests!Init
<1> SUFFICES ASSUME Init PROVE Requests!Init
  OBVIOUS
<1>1. Pending = <<>>
  <2>1. IInv /\ Reached = 0 /\ index = 0
    BY InitIInv DEF Init, Reached
  <2>2. Pending \in Seq(SUBSET Event) /\ Len(Pending) = 0
    BY <2>1, PendingFacts DEF PendingCells
  <2>3. QED BY <2>2, EmptySeq
<1>2. Held = {}
  BY DEF Init, Held
<1>3. QED BY <1>1, <1>2 DEF Init, Requests!Init

\* Requests are served in the order made and as made, in one drain, until the
\* queue overflows; and lines change for no other reason than the five that
\* IrqOrder lists.
THEOREM ImplementsIrqOrder == Spec => KeepsIrqOrder
<1>1. ASSUME IInv, IInv', [Next]_vars PROVE [Requests!Next]_(Requests!vars)
  <2>1. CASE UNCHANGED vars
    BY <2>1, InvisibleMaps DEF vars, lineVars, queueVars, OrderStep
  <2>2. CASE \E e \in Event : Request(e) \/ Generate(e)
    BY <1>1, <2>2, RequestMaps DEF Generate, OrderStep
  <2>3. CASE (\E on \in BOOLEAN : InterruptEnable(on)) \/ ChangeVector \/ ClearLines
    BY <1>1, <2>3, SilentMaps, ClearMaps DEF OrderStep
  <2>4. CASE BeginDrain \/ DrainEvent \/ DrainNext \/ EndDrain
    BY <1>1, <2>4, BeginMaps, ServeMaps, EndPulseMaps, EndMaps DEF OrderStep
  <2>5. CASE (\E l \in KeptLine : Acknowledge(l)) \/ FreeTimers \/ ResetCpu
    BY <1>1, <2>5, TakeMaps, SilentMaps, ResetMaps DEF OrderStep
  <2>6. QED BY <1>1, <2>1, <2>2, <2>3, <2>4, <2>5 DEF Next
<1>2. IInv /\ IInv' /\ [Next]_vars => [Requests!Next]_(Requests!vars)
  BY <1>1
<1>3. KeepsIrqOrder <=> Requests!Init /\ [][Requests!Next]_(Requests!vars)
  BY DEF KeepsIrqOrder, Requests!Spec
<1>4. QED BY <1>2, <1>3, InitOrderMaps, IntInvariance, PTL DEF Spec

=============================================================================
