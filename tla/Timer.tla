------------------------------- MODULE Timer -------------------------------
(***************************************************************************)
(* The timer system of src/src/timer.c in operation: clients allocate,     *)
(* arm, rearm, disable and remove timers, from CPU handlers and from       *)
(* inside timer callbacks; the scheduler moves time forward and fires what *)
(* is due; and resource tracking (src/src/common.c) frees the timers of a  *)
(* scope when the scope ends.                                              *)
(*                                                                         *)
(* The code is single threaded.  What interleaves is who calls whom: a     *)
(* callback runs in the middle of timer_adjust_global_time's loop and may  *)
(* call the timer functions on any timer, its own included.                *)
(***************************************************************************)
EXTENDS TimerList

CONSTANTS
  Duration,   \* the durations clients ask for (one may be negative)
  Period,     \* the periods clients ask for
  Delta,      \* the lengths of timeslices
  LocalTime,  \* how far into a slice the executing CPU may be
  ClientCallback, \* the callbacks clients allocate with, "NULL" for none
  SlicePeriod,\* the period of the scheduler's own timeslice timer
  MaxOffset   \* bound: total time the scheduler lets pass

ASSUME ClientAssumption ==
  /\ Duration \subseteq Int
  /\ Period \subseteq Nat
  /\ Delta \subseteq Nat
  /\ LocalTime \subseteq {t \in Nat : t + Slop < Never}
  /\ ClientCallback \subseteq {"client", "NULL"}
  /\ SlicePeriod \in Nat \ {0}
  /\ MaxOffset \in Nat

NoTimer == 0

VARIABLES
  ts,             \* timers[], timer_head, timer_free_head/tail
  phase,          \* where the single thread is, see Phase
  callback_timer, \* the timer whose callback runs, or NoTimer
  modified,       \* callback_timer_modified
  expire_time,    \* callback_timer_expire_time
  global_offset,
  resource_tag    \* resource_tracking_tag of common.c, see Scope

vars == <<ts, phase, callback_timer, modified, expire_time, global_offset,
          resource_tag>>
fireVars == <<callback_timer, modified, expire_time>>

(***************************************************************************)
(* "run": the CPUs, or code between slices; "fire": at the head of the     *)
(* while loop; "callback": inside a timer's callback; "free": inside the   *)
(* loop of timer_free.                                                     *)
(***************************************************************************)
Phase == {"run", "fire", "callback", "free"}

(***************************************************************************)
(* The two scopes that are open while timers are in use: 0 is the one      *)
(* run_game opens before init_machine calls timer_init, and 1 the one      *)
(* cpu_pre_run opens at every start of the machine.                        *)
(***************************************************************************)
Scope == {0, 1}

(***************************************************************************)
(* The pool timer_init leaves to the rest of init_machine.                 *)
(***************************************************************************)
Init ==
  /\ ts = EmptyPool
  /\ phase = "run"
  /\ callback_timer = NoTimer
  /\ modified = FALSE
  /\ expire_time = 0
  /\ global_offset = 0
  /\ resource_tag = 0

(***************************************************************************)
(* get_relative_time: the local time of the CPU whose context is active,   *)
(* else the expiry of the timer being fired, else 0.  A callback may push  *)
(* a CPU's context, and then reads that CPU's local time.                  *)
(***************************************************************************)
RelativeTime ==
  LocalTime \cup (IF phase = "callback" THEN {expire_time} ELSE {0})

ClientRuns == phase \in {"run", "callback"}

\* Timers a client holds a handle to: timer_set returns none.
Handles == {x \in Active(ts) : ~ts.temporary[x] /\ ts.callback[x] # "system"}

-----------------------------------------------------------------------------
(***************************************************************************)
(* Clients.                                                                *)
(***************************************************************************)

ClientAlloc ==
  /\ ClientRuns
  /\ \E cb \in ClientCallback : ts' = TimerAlloc(ts, cb, resource_tag)
  /\ UNCHANGED <<phase, fireVars, global_offset, resource_tag>>

ClientSetOneShot ==
  /\ ClientRuns
  /\ \E now \in RelativeTime, d \in Duration :
       ts' = TimerSet(ts, "client", resource_tag, now, d)
  /\ UNCHANGED <<phase, fireVars, global_offset, resource_tag>>

ClientPulse ==
  /\ ClientRuns
  /\ \E now \in RelativeTime, p \in Period :
       ts' = TimerPulse(ts, "client", resource_tag, now, p)
  /\ UNCHANGED <<phase, fireVars, global_offset, resource_tag>>

\* Adjusting the timer whose callback runs is noted in `modified`.
Modify(w) == modified' = (modified \/ w = callback_timer)

ClientAdjust ==
  /\ ClientRuns
  /\ \E w \in Handles, now \in RelativeTime, d \in Duration, p \in Period :
       /\ ts' = TimerAdjust(ts, w, now, d, p)
       /\ Modify(w)
  /\ UNCHANGED <<phase, callback_timer, expire_time, global_offset,
                 resource_tag>>

ClientReset ==
  /\ ClientRuns
  /\ \E w \in Handles, now \in RelativeTime, d \in Duration :
       /\ ts' = TimerReset(ts, w, now, d)
       /\ Modify(w)
  /\ UNCHANGED <<phase, callback_timer, expire_time, global_offset,
                 resource_tag>>

ClientEnable ==
  /\ ClientRuns
  /\ \E w \in Handles, e \in BOOLEAN : ts' = TimerEnable(ts, w, e)
  /\ UNCHANGED <<phase, fireVars, global_offset, resource_tag>>

(***************************************************************************)
(* timer_remove.  No caller in the tree removes a timer from inside that   *)
(* timer's own callback: the loop below would relink the freed slot.       *)
(***************************************************************************)
ClientRemove ==
  /\ ClientRuns
  /\ \E w \in Handles \ {callback_timer} : ts' = TimerRemove(ts, w)
  /\ UNCHANGED <<phase, fireVars, global_offset, resource_tag>>

-----------------------------------------------------------------------------
(***************************************************************************)
(* timer_adjust_global_time, called by cpu_timeslice with the length of    *)
(* the slice.                                                             *)
(***************************************************************************)
Advance ==
  /\ phase = "run"
  /\ resource_tag > 0
  /\ \E delta \in Delta :
       /\ global_offset + delta <= MaxOffset
       /\ ts' = ShiftTimes(ts, delta)
       /\ global_offset' = global_offset + delta
  /\ phase' = "fire"
  /\ UNCHANGED <<fireVars, resource_tag>>

\* The head is due and its callback is called.
Fire ==
  LET w == Head(ts.list)
  IN /\ phase = "fire"
     /\ HeadDue(ts)
     /\ ts.enabled[w]
     /\ ts.callback[w] # "NULL"
     /\ ts' = Disarm(ts, w)
     /\ callback_timer' = w
     /\ modified' = FALSE
     /\ expire_time' = ts.expire[w]
     /\ phase' = "callback"
     /\ UNCHANGED <<global_offset, resource_tag>>

\* Faulty variant: the timer is rescheduled over its callback's adjustment.
CallbackReturn_Overwrite ==
  /\ phase = "callback"
  /\ ts' = AfterFire(ts, callback_timer)
  /\ callback_timer' = NoTimer
  /\ phase' = "fire"
  /\ UNCHANGED <<modified, expire_time, global_offset, resource_tag>>

\* The callback returns.
CallbackReturn ==
  /\ phase = "callback"
  /\ ts' = IF modified THEN ts ELSE AfterFire(ts, callback_timer)
  /\ callback_timer' = NoTimer
  /\ phase' = "fire"
  /\ UNCHANGED <<modified, expire_time, global_offset, resource_tag>>

\* The head is due but is disabled or has no callback: the same body
\* without the call.
FireSilently ==
  LET w == Head(ts.list)
  IN /\ phase = "fire"
     /\ HeadDue(ts)
     /\ ~ts.enabled[w] \/ ts.callback[w] = "NULL"
     /\ ts' = AfterFire(Disarm(ts, w), w)
     /\ modified' = FALSE
     /\ expire_time' = ts.expire[w]
     /\ UNCHANGED <<phase, callback_timer, global_offset, resource_tag>>

FireDone ==
  /\ phase = "fire"
  /\ ~HeadDue(ts)
  /\ phase' = "run"
  /\ UNCHANGED <<ts, fireVars, global_offset, resource_tag>>

-----------------------------------------------------------------------------
(***************************************************************************)
(* Resource tracking.  cpu_pre_run opens a scope and cpu_inittimers sets   *)
(* up the timeslice timer in it, which no client has a handle to (without  *)
(* a free slot the code dereferences NULL; no driver comes near that).     *)
(* At a reset end_resource_tracking runs timer_free, whose loop removes    *)
(* the timers of the current tag in list order, then leaves the scope.     *)
(* It is not called from a timer's callback.                               *)
(***************************************************************************)
BeginTracking ==
  /\ phase = "run"
  /\ resource_tag = 0
  /\ ts.free # <<>>
  /\ resource_tag' = 1
  /\ ts' = TimerPulse(ts, "system", 1, 0, SlicePeriod)
  /\ UNCHANGED <<phase, fireVars, global_offset>>

\* Faulty variant: the scope is left without ever having been entered.
EndTracking_Unpaired ==
  /\ phase = "run"
  /\ phase' = "free"
  /\ UNCHANGED <<ts, fireVars, global_offset, resource_tag>>

EndTracking ==
  /\ phase = "run"
  /\ resource_tag > 0
  /\ phase' = "free"
  /\ UNCHANGED <<ts, fireVars, global_offset, resource_tag>>

Tagged == {i \in DOMAIN ts.list : ts.tag[ts.list[i]] = resource_tag}

FreeNext ==
  /\ phase = "free"
  /\ \E i \in Tagged : /\ \A j \in Tagged : i <= j
                       /\ ts' = TimerRemove(ts, ts.list[i])
  /\ UNCHANGED <<phase, fireVars, global_offset, resource_tag>>

\* Faulty variant: the scan stops before it has seen the whole list.
FreeDone_Early ==
  /\ phase = "free"
  /\ resource_tag' = resource_tag - 1
  /\ phase' = "run"
  /\ UNCHANGED <<ts, fireVars, global_offset>>

FreeDone ==
  /\ phase = "free"
  /\ Tagged = {}
  /\ resource_tag' = resource_tag - 1
  /\ phase' = "run"
  /\ UNCHANGED <<ts, fireVars, global_offset>>

-----------------------------------------------------------------------------
Client  == \/ ClientAlloc \/ ClientSetOneShot \/ ClientPulse \/ ClientAdjust
           \/ ClientReset \/ ClientEnable \/ ClientRemove
Elapse  == Advance \/ Fire \/ CallbackReturn \/ FireSilently \/ FireDone
Tracking == BeginTracking \/ EndTracking \/ FreeNext \/ FreeDone

Next == Client \/ Elapse \/ Tracking

Spec == Init /\ [][Next]_vars

-----------------------------------------------------------------------------
(***************************************************************************)
(* Properties.                                                             *)
(***************************************************************************)

Pool == PoolType({"client", "system", "NULL"})

TypeOK ==
  /\ ts \in Pool
  /\ phase \in Phase
  /\ callback_timer \in Slot \cup {NoTimer}
  /\ modified \in BOOLEAN
  /\ expire_time \in Time
  /\ global_offset \in Nat
  /\ resource_tag \in Scope

\* No slot is ever lost, and none is on the active and the free list at
\* once: every sequence of alloc, remove, relink and timer_free keeps the two
\* lists a partition of timers[].
SlotsPartitioned == Partitioned(ts)

\* The order of the active list, which is the order of firing: an enabled
\* timer is preceded only by timers that expire before it, or that expire
\* within Slop of it and were put in the list before it.  So nothing fires
\* late behind a later timer, and "two timers allocated to go off at the same
\* time will go off in the order they were allocated" (timer.c:10-14).
ExpiryOrder == InExpiryOrder(ts)

\* When timer_adjust_global_time leaves its loop, which looks only at the
\* head of the list, no armed timer anywhere in the list is overdue: a timer
\* is not missed because a callback armed, moved or disabled another one.
NothingOverdueMissed ==
  [][phase = "fire" /\ phase' = "run" =>
       \A x \in Active(ts) : ts.enabled[x] => ts.expire[x] >= 0]_vars

\* A timer never outlives the resource scope it was allocated in: what is
\* active belongs to a scope that is still open.
NoTimerOutlivesScope ==
  \A x \in Active(ts) : ts.tag[x] \in 0 .. resource_tag

\* A one-shot allocated by timer_set stays armed until its callback runs, and
\* is gone when the callback has returned: it can neither be left behind in
\* the pool nor fire twice.
OneShotArmedOrGone ==
  \A x \in Active(ts) :
    ts.temporary[x] => (ts.enabled[x] <=> x # callback_timer)

(***************************************************************************)
(* What clients see of the timers.  The timer whose callback runs counts   *)
(* as rescheduled already, unless the callback adjusts it.                 *)
(***************************************************************************)
Armed == {x \in Active(ts) : ts.enabled[x]}
Firing(x) == phase = "callback" /\ x = callback_timer /\ ~modified
Left == [x \in Slot |->
           IF x \notin Armed THEN 0
           ELSE IF Firing(x) THEN Plus(ts.expire[x], ts.period[x])
           ELSE ts.expire[x]]

Agenda == INSTANCE TimerAgenda
            WITH Timer <- Slot, None <- NoTimer, armed <- Armed, left <- Left,
                 busy <- phase \in {"fire", "callback"},
                 current <- callback_timer

\* The lists, the slop and the relinking after each callback implement a plain
\* agenda: whatever callbacks do to the list that is being fired, every armed
\* timer that is due fires before time passes again, none before it is due or
\* out of order, each is off or armed for later once it has fired, and a call
\* on one timer never moves another.
KeepsAgenda == Agenda!Spec

=============================================================================
