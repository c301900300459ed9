------------------------------- MODULE CpuInt -------------------------------
(***************************************************************************)
(* Interrupt requests of one CPU (src/src/cpuint.c).                       *)
(*                                                                         *)
(* cpu_set_irq_line does not touch the CPU: it appends an event to         *)
(* irq_event_queue, and the first event of a batch sets a timer for now    *)
(* whose callback, cpu_empty_event_queue, changes the lines.  Asserting a  *)
(* line may make the CPU core acknowledge at once, inside the loop over    *)
(* the queue, and the driver's hook may then request more interrupts.      *)
(*                                                                         *)
(* The CPUs of a machine do not share any of this state; one is modelled.  *)
(* Left out: vectors, and the trigger given to a CPU spinning for an       *)
(* interrupt (module CpuExec).                                             *)
(***************************************************************************)
EXTENDS Integers, SequencesExt

CONSTANTS
  Line,       \* the lines of the CPU
  NmiLine,    \* the one beyond MAX_IRQ_LINES, whose state is not kept
  MaxEvents,  \* MAX_IRQ_EVENTS
  MaxPending, \* bound: requests between two drains
  MaxTimers   \* bound: timers of this module that are set

ASSUME IntAssumption ==
  /\ NmiLine \in Line
  /\ MaxEvents \in Nat \ {0}
  /\ MaxPending \in Nat

VARIABLES
  interrupt_enable,
  irq_line_state,  \* of the lines other than NmiLine
  queue,           \* irq_event_queue: an array of MaxEvents cells
  index,           \* irq_event_index
  i,               \* the loop variable of cpu_empty_event_queue
  timers,          \* the callbacks set with TIME_NOW, in firing order
  asserted,        \* the lines that the CPU core sees asserted
  pulsing,         \* the line that event i pulses, if it does
  phase,           \* where the single thread is, see Phase
  posted,          \* history: requests since the last drain began or ended
  served,          \* history: requests handled in this drain
  taken,           \* history: acknowledges of a line since its last event
  stranded         \* history: timer_set failed for the requests in the queue

queueVars == <<queue, index, timers>>
history   == <<posted, served, taken, stranded>>
lineVars  == <<irq_line_state, asserted, pulsing>>
vars == <<interrupt_enable, lineVars, queueVars, i, phase, history>>

KeptLine == Line \ {NmiLine}
Event == [line : Line, state : {"PULSE", "HOLD", "ASSERT", "CLEAR"}]

(***************************************************************************)
(* "run": CPUs and other callbacks; "loop": at the head of the loop;       *)
(* "line": inside activecpu_set_irq_line, called for event i; "reset":     *)
(* between end_resource_tracking and cpuint_reset_cpu.                     *)
(***************************************************************************)
Phase == {"run", "loop", "line", "reset"}

\* cpuint_init, then cpuint_reset_cpu.
Init ==
  /\ interrupt_enable = TRUE
  /\ irq_line_state = [l \in KeptLine |-> "CLEAR"]
  /\ queue = [c \in 0 .. MaxEvents - 1 |-> [line |-> NmiLine, state |-> "CLEAR"]]
  /\ index = 0
  /\ i = 0
  /\ timers = <<>>
  /\ asserted = {}
  /\ pulsing = {}
  /\ phase = "run"
  /\ posted = 0
  /\ served = 0
  /\ taken = [l \in KeptLine |-> 0]
  /\ stranded = FALSE

-----------------------------------------------------------------------------
(***************************************************************************)
(* timer_set with TIME_NOW.  Callers on different CPUs are at different    *)
(* local times, so the new timer may go anywhere among those set.  The     *)
(* slots are shared with the rest of the program (module Timer): when they *)
(* are used up timer_set returns and its callers are none the wiser.       *)
(***************************************************************************)
SetTimer(callback) ==
  \/ /\ Len(timers) < MaxTimers
     /\ \E at \in 1 .. Len(timers) + 1 : timers' = InsertAt(timers, at, callback)
  \/ UNCHANGED timers

(***************************************************************************)
(* cpu_set_irq_line: from handlers and callbacks, from a driver's hook     *)
(* while a line is being asserted, and from sound chips that are reset.    *)
(***************************************************************************)
CanRequest == phase \in {"run", "line", "reset"}

\* Faulty variant: a request that does not fit replaces the last one.
Request_Overwrite(e) ==
  /\ CanRequest
  /\ index < MaxPending
  /\ queue' = [queue EXCEPT ![IF index < MaxEvents THEN index ELSE MaxEvents - 1] = e]
  /\ index' = index + 1
  /\ posted' = posted + 1
  /\ IF index = 0
     THEN SetTimer("empty_queue") /\ stranded' = (timers' = timers)
     ELSE UNCHANGED <<timers, stranded>>
  /\ UNCHANGED <<interrupt_enable, lineVars, i, phase, served, taken>>

Request(e) ==
  /\ CanRequest
  /\ index < MaxPending
  /\ queue' = IF index < MaxEvents THEN [queue EXCEPT ![index] = e] ELSE queue
  /\ index' = index + 1
  /\ posted' = posted + 1
  /\ IF index = 0
     THEN SetTimer("empty_queue") /\ stranded' = (timers' = timers)
     ELSE UNCHANGED <<timers, stranded>>
  /\ UNCHANGED <<interrupt_enable, lineVars, i, phase, served, taken>>

\* The interrupt generators of a driver ask only while enabled.
Generate(e) == interrupt_enable /\ Request(e)

\* cpu_interrupt_enable
InterruptEnable(on) ==
  /\ phase = "run"
  /\ interrupt_enable' = on
  /\ IF on THEN UNCHANGED timers ELSE SetTimer("clear_lines")
  /\ UNCHANGED <<lineVars, queue, index, i, phase, history>>

\* interrupt_vector_w with a new vector
ChangeVector ==
  /\ phase = "run"
  /\ SetTimer("clear_lines")
  /\ UNCHANGED <<interrupt_enable, lineVars, queue, index, i, phase, history>>

\* cpu_clearintcallback
ClearLines ==
  /\ phase = "run"
  /\ timers # <<>> /\ Head(timers) = "clear_lines"
  /\ timers' = Tail(timers)
  /\ asserted' = {}
  /\ UNCHANGED <<interrupt_enable, irq_line_state, pulsing, queue, index, i,
                 phase, history>>

-----------------------------------------------------------------------------
(***************************************************************************)
(* cpu_empty_event_queue.                                                  *)
(***************************************************************************)
BeginDrain ==
  /\ phase = "run"
  /\ timers # <<>> /\ Head(timers) = "empty_queue"
  /\ timers' = Tail(timers)
  /\ i' = 0
  /\ served' = 0
  /\ phase' = "loop"
  /\ UNCHANGED <<interrupt_enable, lineVars, queue, index, posted, taken,
                 stranded>>

(***************************************************************************)
(* The event in a cell.  The loop runs to irq_event_index, which counts    *)
(* the requests that did not fit as well: past the array it reads the row  *)
(* of the next CPU, or what lies behind the last one.                      *)
(***************************************************************************)
Read(c) == IF c < MaxEvents THEN {queue[c]} ELSE Event

\* The state is noted, then the line is cleared or asserted.
Deliver(e) ==
  /\ irq_line_state' = [l \in KeptLine |->
                          IF l = e.line THEN e.state ELSE irq_line_state[l]]
  /\ asserted' = IF e.state = "CLEAR" THEN asserted \ {e.line}
                 ELSE asserted \cup {e.line}
  /\ pulsing' = IF e.state = "PULSE" THEN {e.line} ELSE {}
  /\ taken' = [l \in KeptLine |-> IF l = e.line THEN 0 ELSE taken[l]]

DrainEvent ==
  /\ phase = "loop"
  /\ i < index
  /\ \E e \in Read(i) : Deliver(e)
  /\ phase' = "line"
  /\ UNCHANGED <<interrupt_enable, queueVars, i, posted, served,
                 stranded>>

\* A PULSE_LINE is cleared again before the next event.
DrainNext ==
  /\ phase = "line"
  /\ asserted' = asserted \ pulsing
  /\ pulsing' = {}
  /\ i' = i + 1
  /\ served' = served + 1
  /\ phase' = "loop"
  /\ UNCHANGED <<interrupt_enable, irq_line_state, queueVars, posted, taken,
                 stranded>>

\* Faulty variant: one request is handled per timer.
EndDrain_OneOnly ==
  /\ phase = "loop"
  /\ i >= index \/ i = 1
  /\ index' = 0
  /\ posted' = 0
  /\ phase' = "run"
  /\ UNCHANGED <<interrupt_enable, lineVars, queue, timers, i, served, taken,
                 stranded>>

\* Faulty variant: the count of requests that did not fit is kept.
EndDrain_KeepRest ==
  /\ phase = "loop"
  /\ i >= index
  /\ index' = index - MaxEvents
  /\ posted' = 0
  /\ phase' = "run"
  /\ UNCHANGED <<interrupt_enable, lineVars, queue, timers, i, served, taken,
                 stranded>>

EndDrain ==
  /\ phase = "loop"
  /\ i >= index
  /\ index' = 0
  /\ posted' = 0
  /\ phase' = "run"
  /\ UNCHANGED <<interrupt_enable, lineVars, queue, timers, i, served, taken,
                 stranded>>

\* Faulty variant: the line is cleared and its state kept.
Acknowledge_LineOnly(l) ==
  /\ phase \in {"run", "line"}
  /\ l \in asserted
  /\ taken[l] < 2
  /\ taken' = [taken EXCEPT ![l] = @ + 1]
  /\ asserted' = IF irq_line_state[l] = "HOLD" THEN asserted \ {l} ELSE asserted
  /\ UNCHANGED <<interrupt_enable, irq_line_state, pulsing, queueVars, i, phase,
                 posted, served, stranded>>

(***************************************************************************)
(* cpu_irq_callback: the core takes an interrupt on a line it sees         *)
(* asserted, while it runs or as soon as the line is set.  The driver's    *)
(* hook is a Request that follows.                                         *)
(***************************************************************************)
Acknowledge(l) ==
  /\ phase \in {"run", "line"}
  /\ l \in asserted
  /\ taken[l] < 2
  /\ taken' = [taken EXCEPT ![l] = @ + 1]
  /\ IF irq_line_state[l] = "HOLD"
     THEN /\ asserted' = asserted \ {l}
          /\ irq_line_state' = [irq_line_state EXCEPT ![l] = "CLEAR"]
     ELSE UNCHANGED <<asserted, irq_line_state>>
  /\ UNCHANGED <<interrupt_enable, pulsing, queueVars, i, phase, posted,
                 served, stranded>>

-----------------------------------------------------------------------------
(***************************************************************************)
(* A machine reset: end_resource_tracking frees the timers, sound chips    *)
(* are reset, then cpuint_reset_cpu, then the core, which may or may not   *)
(* drop its lines.                                                         *)
(***************************************************************************)
FreeTimers ==
  /\ phase = "run"
  /\ timers' = <<>>
  /\ phase' = "reset"
  /\ UNCHANGED <<interrupt_enable, lineVars, queue, index, i, history>>

\* Faulty variant: the requests of the previous run are kept.
ResetCpu_KeepQueue ==
  /\ phase = "reset"
  /\ interrupt_enable' = TRUE
  /\ asserted' \in {asserted, {}}
  /\ phase' = "run"
  /\ UNCHANGED <<irq_line_state, pulsing, queueVars, i, history>>

\* Faulty variant: the states of the lines are reset with the rest.
ResetCpu_ClearStates ==
  /\ phase = "reset"
  /\ interrupt_enable' = TRUE
  /\ index' = 0
  /\ posted' = 0
  /\ irq_line_state' = [l \in KeptLine |-> "CLEAR"]
  /\ asserted' \in {asserted, {}}
  /\ phase' = "run"
  /\ UNCHANGED <<pulsing, queue, timers, i, served, taken,
                 stranded>>

ResetCpu ==
  /\ phase = "reset"
  /\ interrupt_enable' = TRUE
  /\ index' = 0
  /\ posted' = 0
  /\ asserted' \in {asserted, {}}
  /\ phase' = "run"
  /\ UNCHANGED <<irq_line_state, pulsing, queue, timers, i, served, taken,
                 stranded>>

-----------------------------------------------------------------------------
Next ==
  \/ \E e \in Event : Request(e) \/ Generate(e)
  \/ \E on \in BOOLEAN : InterruptEnable(on)
  \/ ChangeVector \/ ClearLines
  \/ BeginDrain \/ DrainEvent \/ DrainNext \/ EndDrain
  \/ \E l \in KeptLine : Acknowledge(l)
  \/ FreeTimers \/ ResetCpu

Spec == Init /\ [][Next]_vars

-----------------------------------------------------------------------------
(***************************************************************************)
(* Properties.                                                             *)
(***************************************************************************)

TypeOK ==
  /\ interrupt_enable \in BOOLEAN
  /\ irq_line_state \in [KeptLine -> {"PULSE", "HOLD", "ASSERT", "CLEAR"}]
  /\ queue \in [0 .. MaxEvents - 1 -> Event]
  /\ index \in 0 .. MaxPending
  /\ i \in 0 .. MaxPending
  /\ timers \in Seq({"empty_queue", "clear_lines"})
  /\ asserted \subseteq Line /\ pulsing \subseteq Line
  /\ phase \in Phase
  /\ posted \in 0 .. MaxPending /\ served \in 0 .. MaxPending
  /\ taken \in [KeptLine -> 0 .. 2]
  /\ stranded \in BOOLEAN

\* While the machine runs, requests in the queue have a timer that will drain
\* them: only the first request of a batch sets it, and neither a reset that
\* freed it nor requests made meanwhile leave the queue stranded.  Only a full
\* pool of timers does, at the first request of the batch.
QueueIsServed ==
  phase = "run" /\ index > 0 /\ ~stranded =>
    \E t \in DOMAIN timers : timers[t] = "empty_queue"

\* A drain ends only when it has handled every request, those included that a
\* driver's hook made while the queue was being emptied.
NothingLostInDrain ==
  [][phase = "loop" /\ phase' = "run" => served = posted]_vars

\* A HOLD_LINE interrupt is taken once: the acknowledge finds the state that
\* goes with the line even when it comes from inside the drain.
HoldTakenOnce ==
  \A l \in KeptLine :
    irq_line_state[l] = "HOLD" => taken[l] = 0

\* The core never sees a line asserted that cpuint.c takes for clear, not even
\* after a reset; such a line would interrupt the CPU without end.
NoLineStuck ==
  phase = "run" =>
    \A l \in asserted \cap KeptLine : irq_line_state[l] \in {"HOLD", "ASSERT"}

(***************************************************************************)
(* What those who request see of all this: the requests that the drain has *)
(* not reached, wherever the loop stands.                                  *)
(***************************************************************************)
Reached == CASE phase = "loop" -> i [] phase = "line" -> i + 1 [] OTHER -> 0
Pending == [k \in 1 .. index - Reached |-> Read(Reached + k - 1)]
Held    == {l \in KeptLine : irq_line_state[l] = "HOLD"}

Requests == INSTANCE IrqOrder WITH
  Kept <- KeptLine, Capacity <- MaxEvents, pending <- Pending, made <- index,
  serving <- phase \in {"loop", "line"}, pulse <- pulsing, held <- Held

\* Requests take effect one after the other, in the order they were made and as
\* they were made, those too that a driver's hook makes while the queue is
\* being emptied; only an overflowing queue forgets what was asked, and then
\* what fitted before it is still served first and unchanged.
KeepsIrqOrder == Requests!Spec

\* cpuint.c:336-345: a request that finds the queue full is reported
\* ("Exceeded pending IRQ event queue") and not enqueued, so the drain handles
\* nothing that was not enqueued.
DrainStaysInQueue == phase = "loop" /\ i < index => i < MaxEvents

=============================================================================
