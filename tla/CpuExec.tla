------------------------------ MODULE CpuExec ------------------------------
(***************************************************************************)
(* The CPU scheduler of src/src/cpuexec.c: cpu_timeslice runs the CPUs of  *)
(* the machine one after the other up to the next timer, lets time pass,   *)
(* and fires the timers.  An instruction may cut its slice short, suspend  *)
(* or resume CPUs, wait for a trigger, or set timers; suspensions are      *)
(* noted in nextsuspend and take effect at the ends of the slice.          *)
(*                                                                         *)
(* Times are integers relative to the start of the slice, as in the code,  *)
(* and a cycle of CPU c takes Cycle[c].  The timers (module Timer) are cut *)
(* down to the sequence of what fires when.  Left out: the time fence      *)
(* (module HostWrite), the vblank countdowns and interleave boosts, which  *)
(* only add timers, and the order of CPU contexts.                         *)
(***************************************************************************)
EXTENDS Integers, SequencesExt

CONSTANTS
  CpuCount,    \* cpu_gettotalcpu()
  Cycle,       \* the length of a cycle of each CPU
  MaxCycles,   \* the cycles of the longest instruction
  SlicePeriod, \* timeslice_period
  Guard,       \* RFRANCO_SOUND_GUARD_US
  MaxAgenda,   \* bound: timers set at a time
  MaxLag       \* bound: how far a CPU that yields falls behind

CPU == 1 .. CpuCount

ASSUME CpuAssumption ==
  /\ CpuCount \in Nat \ {0}
  /\ Cycle \in [CPU -> Nat \ {0}]
  /\ MaxCycles \in Nat \ {0}
  /\ SlicePeriod \in Nat \ {0}
  /\ Guard \in Nat
  /\ MaxAgenda \in Nat \ {0}
  /\ MaxLag \in Nat

(***************************************************************************)
(* HALT, RESET, SPIN and TRIGGER of SUSPEND_REASON_*; DISABLE behaves like *)
(* a HALT that is never lifted.  Each CPU waits for a trigger of its own,  *)
(* TRIGGER_INT + cpunum for one.                                           *)
(***************************************************************************)
Reason == {"HALT", "RESET", "SPIN", "TRIGGER"}

VARIABLES
  localtime, suspend, nextsuspend, eatcycles, nexteatcycles, trigger,
  agenda,      \* the active timers in the order of timer_list_insert
  target,      \* of cpu_timeslice
  cur,         \* its loop variable; 0: between slices, timers are fired
  left,        \* the cycles the executing CPU has left
  ran,         \* and those it has used
  yielded,     \* history: the CPUs that were ever suspended without eating
  guarded,     \* history: the CPUs whose last wait has a guard
  called,      \* history: the CPUs whose trigger came while they waited
  unreset      \* history: the CPUs whose reset line was asserted since they
               \* were last reset

suspendVars == <<suspend, nextsuspend, eatcycles, nexteatcycles, trigger>>
sliceVars   == <<localtime, target, cur, left, ran>>
history     == <<yielded, guarded, called, unreset>>
vars == <<suspendVars, sliceVars, agenda, history>>

-----------------------------------------------------------------------------
(***************************************************************************)
(* Timers, after src/src/timer.c: equal expiries fire in the order they    *)
(* were set.                                                               *)
(***************************************************************************)
Later(at) == {k \in DOMAIN agenda : agenda[k].at > at}
PlaceOf(at) == Len(agenda) + 1 - Cardinality(Later(at))

Timer(at, act, c) == [at |-> at, act |-> act, cpu |-> c]
Put(agd, place, t) == InsertAt(agd, place, t)

(***************************************************************************)
(* cpu_pre_run: the timeslice timer runs, every CPU is enabled and its     *)
(* cycles start at 0.  (The `suspend` of cpu_init is replaced at the start *)
(* of the first slice, before it is read.)                                 *)
(***************************************************************************)
Init ==
  /\ localtime = [c \in CPU |-> 0]
  /\ suspend = [c \in CPU |-> {"RESET"}]
  /\ nextsuspend = [c \in CPU |-> {}]
  /\ eatcycles = [c \in CPU |-> FALSE]
  /\ nexteatcycles = [c \in CPU |-> FALSE]
  /\ trigger = [c \in CPU |-> 0]
  /\ agenda = <<Timer(SlicePeriod, "timeslice", 0)>>
  /\ target = 0
  /\ cur = 0
  /\ left = 0
  /\ ran = 0
  /\ yielded = {}
  /\ guarded = {}
  /\ called = {}
  /\ unreset = {}

-----------------------------------------------------------------------------
(***************************************************************************)
(* The suspension of CPUs.                                                 *)
(***************************************************************************)

\* cpunum_suspend
CpunumSuspend(c, reason, eat) ==
  /\ nextsuspend' = [nextsuspend EXCEPT ![c] = @ \cup {reason}]
  /\ nexteatcycles' = [nexteatcycles EXCEPT ![c] = eat]
  /\ yielded' = IF eat THEN yielded ELSE yielded \cup {c}

\* cpunum_resume
CpunumResume(c, reason) ==
  nextsuspend' = [nextsuspend EXCEPT ![c] = @ \ {reason}]

Waits(c, t) == "TRIGGER" \in nextsuspend[c] /\ trigger[c] = t

\* cpu_trigger: it looks at `suspend`, and changes nextsuspend.
CpuTrigger(t) ==
  LET woken == {c \in CPU : suspend[c] # {} /\ trigger[c] = t}
  IN /\ nextsuspend' = [c \in CPU |-> IF c \in woken
                                      THEN nextsuspend[c] \ {"TRIGGER"}
                                      ELSE nextsuspend[c]]
     /\ trigger' = [c \in CPU |-> IF c \in woken THEN 0 ELSE trigger[c]]
     /\ called' = (called \ woken) \cup {c \in CPU \ woken : Waits(c, t)}
     /\ UNCHANGED <<suspend, eatcycles, nexteatcycles>>

\* cpu_spinuntil_trigger and cpu_yielduntil_trigger
SpinUntilTrigger(c, eat) ==
  /\ CpunumSuspend(c, "TRIGGER", eat)
  /\ trigger' = [trigger EXCEPT ![c] = c]
  /\ called' = called \ {c}
  /\ UNCHANGED <<suspend, eatcycles>>

-----------------------------------------------------------------------------
(***************************************************************************)
(* Between slices: the timers that are due are fired.                      *)
(***************************************************************************)
Due == cur = 0 /\ Head(agenda).at < 1
Fires(act) == Due /\ Head(agenda).act = act /\ agenda' = Tail(agenda)

\* Faulty variant: the timer is not rescheduled.
FireTimeslice_OneShot ==
  /\ Fires("timeslice")
  /\ UNCHANGED <<suspendVars, sliceVars, history>>

\* cpu_timeslicecallback; the timer is periodic.
FireTimeslice ==
  LET at == Head(agenda).at + SlicePeriod
  IN /\ Due
     /\ Head(agenda).act = "timeslice"
     /\ agenda' = Tail(Put(agenda, PlaceOf(at), Timer(at, "timeslice", 0)))
     /\ UNCHANGED <<suspendVars, sliceVars, history>>

\* cpu_trigger after cpu_triggertime, or from cpu_empty_event_queue
FireTrigger ==
  /\ Fires("trigger")
  /\ CpuTrigger(Head(agenda).cpu)
  /\ UNCHANGED <<sliceVars, yielded, guarded, unreset>>

\* halt_callback
FireHalt ==
  /\ Fires("halt")
  /\ CpunumSuspend(Head(agenda).cpu, "HALT", TRUE)
  /\ UNCHANGED <<suspend, eatcycles, trigger, sliceVars, guarded, called,
                 unreset>>

FireUnhalt ==
  /\ Fires("unhalt")
  /\ CpunumResume(Head(agenda).cpu, "HALT")
  /\ UNCHANGED <<suspend, eatcycles, nexteatcycles, trigger, sliceVars,
                 history>>

\* reset_callback with ASSERT_LINE
FireResetAssert ==
  LET c == Head(agenda).cpu
  IN /\ Fires("assert_reset")
     /\ CpunumSuspend(c, "RESET", TRUE)
     /\ unreset' = unreset \cup {c}
     /\ UNCHANGED <<suspend, eatcycles, trigger, sliceVars, guarded, called>>

\* reset_callback with CLEAR_LINE: reset if the CPU is suspended for it.
FireResetClear ==
  LET c == Head(agenda).cpu
  IN /\ Fires("clear_reset")
     /\ unreset' = IF "RESET" \in suspend[c] THEN unreset \ {c} ELSE unreset
     /\ CpunumResume(c, "RESET")
     /\ UNCHANGED <<suspend, eatcycles, nexteatcycles, trigger, sliceVars,
                    yielded, guarded, called>>

-----------------------------------------------------------------------------
(***************************************************************************)
(* cpu_timeslice.                                                          *)
(***************************************************************************)
BeginSlice ==
  /\ cur = 0
  /\ ~Due
  /\ target' = Head(agenda).at
  /\ suspend' = nextsuspend
  /\ eatcycles' = nexteatcycles
  /\ cur' = 1
  /\ UNCHANGED <<localtime, nextsuspend, nexteatcycles, trigger, agenda, left,
                 ran, history>>

\* TIME_TO_CYCLES rounds to the nearest.
TimeToCycles(c, t) == (2 * t + Cycle[c]) \div (2 * Cycle[c])
CyclesToRun(c) == TimeToCycles(c, target - localtime[c])

AtCpu == cur \in CPU /\ left = 0 /\ ran = 0
MayRun(c) == suspend[c] = {} /\ CyclesToRun(c) > 0

Execute ==
  /\ AtCpu
  /\ MayRun(cur)
  /\ left' = CyclesToRun(cur)
  /\ UNCHANGED <<localtime, target, cur, ran, suspendVars, agenda, history>>

Pass ==
  /\ AtCpu
  /\ ~MayRun(cur)
  /\ cur' = cur + 1
  /\ UNCHANGED <<localtime, target, left, ran, suspendVars, agenda, history>>

Executes(c) == cur = c /\ left > 0

(***************************************************************************)
(* One instruction of the executing CPU, n cycles long.  If it calls       *)
(* activecpu_abort_timeslice it is the last one of the slice.              *)
(***************************************************************************)
Instruction(n, aborts) ==
  /\ left > 0
  /\ left' = IF aborts \/ left <= n THEN 0 ELSE left - n
  /\ ran' = ran + n
  /\ UNCHANGED <<localtime, target, cur>>

Compute ==
  /\ \E n \in 1 .. MaxCycles : Instruction(n, FALSE)
  /\ UNCHANGED <<suspendVars, agenda, history>>

\* cpu_spinuntil_int, cpu_yielduntil_int
Wait ==
  /\ \E n \in 1 .. MaxCycles : Instruction(n, TRUE)
  /\ \E eat \in BOOLEAN : SpinUntilTrigger(cur, eat)
  /\ guarded' = guarded \ {cur}
  /\ UNCHANGED <<agenda, unreset>>

\* cpu_trigger, cpu_triggerint
Trigger ==
  /\ \E n \in 1 .. MaxCycles : Instruction(n, TRUE)
  /\ \E t \in CPU : CpuTrigger(t)
  /\ UNCHANGED <<agenda, yielded, guarded, unreset>>

(***************************************************************************)
(* Setting a timer for TIME_NOW: it expires at the local time of the CPU,  *)
(* which has or has not charged the instruction yet, and cuts the slice    *)
(* short if it is the first in the list.                                   *)
(***************************************************************************)
LocalNow(n) == {localtime[cur] + used * Cycle[cur] : used \in {ran, ran + n}}

\* Faulty variant: the slice goes on.
SetTimer_NoResync(n, now, act, c) ==
  /\ Len(agenda) < MaxAgenda
  /\ agenda' = Put(agenda, PlaceOf(now), Timer(now, act, c))
  /\ Instruction(n, FALSE)

SetTimer(n, now, act, c) ==
  /\ Len(agenda) < MaxAgenda
  /\ agenda' = Put(agenda, PlaceOf(now), Timer(now, act, c))
  /\ Instruction(n, PlaceOf(now) = 1)

\* The wait of rfranco.c: cpu_spinuntil_trigger, then cpu_triggertime.
GuardedWait ==
  /\ left > 0
  /\ \E n \in 1 .. MaxCycles : \E now \in LocalNow(n) :
       /\ Len(agenda) < MaxAgenda
       /\ agenda' = Put(agenda, PlaceOf(now + Guard),
                        Timer(now + Guard, "trigger", cur))
       /\ Instruction(n, TRUE)
  /\ SpinUntilTrigger(cur, TRUE)
  /\ guarded' = guarded \cup {cur}
  /\ UNCHANGED unreset

\* cpu_set_irq_line of any CPU, whose timer ends in cpu_triggerint
Interrupt ==
  /\ left > 0
  /\ \E n \in 1 .. MaxCycles, c \in CPU : \E now \in LocalNow(n) :
       SetTimer(n, now, "trigger", c)
  /\ UNCHANGED <<suspendVars, history>>

\* The first CPU drives the reset and halt lines of the others.
LineAct == {"halt", "unhalt", "assert_reset", "clear_reset"}

Line ==
  /\ Executes(1)
  /\ \E n \in 1 .. MaxCycles, c \in CPU \ {1}, act \in LineAct :
       \E now \in LocalNow(n) : SetTimer(n, now, act, c)
  /\ UNCHANGED <<suspendVars, history>>

\* cpunum_suspend and cpunum_resume from a handler (jeutel.c)
SuspendOther ==
  /\ Executes(1)
  /\ \E n \in 1 .. MaxCycles : Instruction(n, TRUE)
  /\ \E c \in CPU \ {1} :
       \/ CpunumSuspend(c, "SPIN", TRUE)
       \/ CpunumResume(c, "SPIN") /\ UNCHANGED <<nexteatcycles, yielded>>
  /\ UNCHANGED <<suspend, eatcycles, trigger, agenda, guarded, called, unreset>>

\* Faulty variant: the target is not moved.
ExecuteDone_KeepTarget ==
  LET now == localtime[cur] + ran * Cycle[cur]
  IN /\ cur \in CPU /\ left = 0 /\ ran > 0
     /\ localtime' = [localtime EXCEPT ![cur] = now]
     /\ ran' = 0
     /\ cur' = cur + 1
     /\ UNCHANGED <<target, left, suspendVars, agenda, history>>

\* The cycles are accounted for, and the target moved if the CPU stopped short.
ExecuteDone ==
  LET now == localtime[cur] + ran * Cycle[cur]
  IN /\ cur \in CPU /\ left = 0 /\ ran > 0
     /\ localtime' = [localtime EXCEPT ![cur] = now]
     /\ target' = IF now < target /\ now > 0 THEN now ELSE target
     /\ ran' = 0
     /\ cur' = cur + 1
     /\ UNCHANGED <<left, suspendVars, agenda, history>>

Eats(c) == suspend[c] # {} /\ eatcycles[c] /\ localtime[c] < target

\* Faulty variant: a suspended CPU does not eat its cycles.
EndSlice_NoEating ==
  /\ cur = CpuCount + 1
  /\ localtime' = [c \in CPU |-> localtime[c] - target]
  /\ suspend' = nextsuspend
  /\ eatcycles' = nexteatcycles
  /\ agenda' = [k \in DOMAIN agenda |-> [agenda[k] EXCEPT !.at = @ - target]]
  /\ target' = 0
  /\ cur' = 0
  /\ UNCHANGED <<left, ran, nextsuspend, nexteatcycles, trigger, history>>

\* Faulty variant: the suspensions of the slice are not taken over.
EndSlice_LateSuspend ==
  /\ cur = CpuCount + 1
  /\ localtime' = [c \in CPU |->
       localtime[c] - target
         + (IF Eats(c) THEN CyclesToRun(c) * Cycle[c] ELSE 0)]
  /\ agenda' = [k \in DOMAIN agenda |-> [agenda[k] EXCEPT !.at = @ - target]]
  /\ target' = 0
  /\ cur' = 0
  /\ UNCHANGED <<left, ran, suspend, nextsuspend, eatcycles, nexteatcycles,
                 trigger, history>>

(***************************************************************************)
(* Suspended CPUs eat their cycles, the suspensions asked for take effect, *)
(* and timer_adjust_global_time moves the time.                            *)
(***************************************************************************)
EndSlice ==
  /\ cur = CpuCount + 1
  /\ localtime' = [c \in CPU |->
       localtime[c] - target
         + (IF Eats(c) THEN CyclesToRun(c) * Cycle[c] ELSE 0)]
  /\ suspend' = nextsuspend
  /\ eatcycles' = nexteatcycles
  /\ agenda' = [k \in DOMAIN agenda |-> [agenda[k] EXCEPT !.at = @ - target]]
  /\ target' = 0
  /\ cur' = 0
  /\ UNCHANGED <<left, ran, nextsuspend, nexteatcycles, trigger, history>>

-----------------------------------------------------------------------------
Fire == \/ FireTimeslice \/ FireTrigger \/ FireHalt \/ FireUnhalt
        \/ FireResetAssert \/ FireResetClear
Instructions == \/ Compute \/ Wait \/ Trigger \/ GuardedWait \/ Interrupt
                \/ Line \/ SuspendOther
Timeslice == BeginSlice \/ Execute \/ Pass \/ ExecuteDone \/ EndSlice

Next == Fire \/ Instructions \/ Timeslice

Spec == Init /\ [][Next]_vars

\* A bound on the states explored: no CPU yields for longer than MaxLag.
LagBound == \A c \in CPU : localtime[c] >= -MaxLag

-----------------------------------------------------------------------------
(***************************************************************************)
(* Properties.                                                             *)
(***************************************************************************)

TypeOK ==
  /\ localtime \in [CPU -> Int]
  /\ suspend \in [CPU -> SUBSET Reason] /\ nextsuspend \in [CPU -> SUBSET Reason]
  /\ eatcycles \in [CPU -> BOOLEAN] /\ nexteatcycles \in [CPU -> BOOLEAN]
  /\ \A c \in CPU : trigger[c] \in {0, c}
  /\ Len(agenda) \in 1 .. MaxAgenda
  /\ target \in 0 .. SlicePeriod
  /\ cur \in 0 .. CpuCount + 1
  /\ left \in Nat /\ ran \in Nat
  /\ yielded \subseteq CPU /\ called \subseteq CPU /\ unreset \subseteq CPU

\* No CPU falls behind: after a slice each has reached the time to which the
\* slice was cut down, to half a cycle of its own, whoever cut it and whether
\* the CPU ran or was suspended meanwhile; only one that yielded may be late.
NoCpuFallsBehind ==
  cur = 0 => \A c \in CPU \ yielded : 2 * localtime[c] > -Cycle[c]

\* A timer fires on time while no CPU has yielded: when time has been moved, no
\* timer is overdue by more than an instruction of some CPU, the one that set
\* it, though CPUs that ran earlier in the slice had passed its expiry before it
\* was set.
TimersFireOnTime ==
  cur = 0 /\ yielded = {} =>
    \A k \in DOMAIN agenda : \E c \in CPU : agenda[k].at >= -(MaxCycles * Cycle[c])

\* The CPU that drives a reset line can rely on it: the other CPU never runs
\* between the release of the line and a reset ("if we're clearing the line
\* that was previously asserted ... reset the CPU", cpuexec.c:808-809).
ReleasedCpuWasReset ==
  \A c \in unreset : "RESET" \in nextsuspend[c] \/ ~Executes(c)

\* A guarded wait ends (rfranco.c: "a safety net ... we must not deadlock"):
\* as long as the CPU waits a timer for its trigger is set, so the guard never
\* comes and goes while cpu_trigger still takes the CPU for running.
WaitIsGuarded ==
  \A c \in guarded :
    "TRIGGER" \in nextsuspend[c] =>
      \E k \in DOMAIN agenda : agenda[k].act = "trigger" /\ agenda[k].cpu = c

\* cpuexec.c:1602: cpu_trigger will "look for suspended CPUs waiting for this
\* trigger and unsuspend them".
NoTriggerMissed == \A c \in called : "TRIGGER" \notin nextsuspend[c]

=============================================================================
