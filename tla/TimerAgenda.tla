---------------------------- MODULE TimerAgenda ----------------------------
(***************************************************************************)
(* What the timer system of src/src/timer.c promises its clients, without  *)
(* lists, slots or relinking: timers are armed with the time left to them  *)
(* and disarmed; when time has passed every timer that is due fires before *)
(* time passes again; none fires before it is due or, but for Slop, behind *)
(* one that is due earlier; a timer that has fired is off, or armed for    *)
(* later; and between two handlers nothing else changes.                   *)
(***************************************************************************)
EXTENDS Integers

CONSTANTS
  Timer,  \* the timers
  None,   \* no timer
  Time,   \* the times that may be left to a timer, Never included
  Never,  \* a time that does not come closer
  Slop,   \* times this close count as equal
  Delta   \* how much time may pass at once

VARIABLES
  armed,  \* the timers that are armed
  left,   \* the time left to each of them, 0 for the others
  busy,   \* the timers that are due are being fired
  current \* the timer whose handler runs, or None

vars == <<armed, left, busy, current>>

Init ==
  /\ armed = {}
  /\ left = [x \in Timer |-> 0]
  /\ busy = FALSE
  /\ current = None

\* The program runs, and may arm and disarm any timer, except between the
\* handlers of the timers that are being fired.
ProgramRuns == busy => current # None

Arm(x) ==
  /\ ProgramRuns
  /\ armed' = armed \cup {x}
  /\ left'[x] \in Time
  /\ left' = [left EXCEPT ![x] = left'[x]]
  /\ UNCHANGED <<busy, current>>

Disarm(x) ==
  /\ ProgramRuns
  /\ armed' = armed \ {x}
  /\ left' = [left EXCEPT ![x] = 0]
  /\ UNCHANGED <<busy, current>>

Pass(delta) ==
  /\ ~busy
  /\ left' = [x \in Timer |-> IF x \notin armed THEN 0
                              ELSE IF left[x] = Never THEN Never
                              ELSE left[x] - delta]
  /\ busy' = TRUE
  /\ UNCHANGED <<armed, current>>

Due(x) == x \in armed /\ left[x] < Slop
First(x) == \A y \in armed : left[x] <= left[y] + Slop

TurnOff(x) == armed' = armed \ {x} /\ left' = [left EXCEPT ![x] = 0]
Rearm(x) == /\ UNCHANGED armed
            /\ left'[x] \in Time /\ left'[x] > left[x]
            /\ left' = [left EXCEPT ![x] = left'[x]]

\* A timer without a handler fires too.
Fire(x) ==
  /\ busy
  /\ current = None
  /\ Due(x) /\ First(x)
  /\ TurnOff(x) \/ Rearm(x)
  /\ current' \in {x, None}
  /\ UNCHANGED busy

Return ==
  /\ current # None
  /\ current' = None
  /\ UNCHANGED <<armed, left, busy>>

Finish ==
  /\ busy
  /\ current = None
  /\ \A x \in armed : left[x] >= 0
  /\ busy' = FALSE
  /\ UNCHANGED <<armed, left, current>>

Next == \/ \E x \in Timer : Arm(x) \/ Disarm(x) \/ Fire(x)
        \/ \E delta \in Delta : Pass(delta)
        \/ Return \/ Finish

Spec == Init /\ [][Next]_vars

=============================================================================
