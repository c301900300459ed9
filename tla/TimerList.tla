----------------------------- MODULE TimerList -----------------------------
(***************************************************************************)
(* The timer pool of src/src/timer.c as a value: a fixed array of          *)
(* MaxTimers slots, the active list kept in expiry order, and the FIFO     *)
(* free list.  Every C function that edits the lists is a pure operator    *)
(* from one pool to the next, so that a handler that makes several calls   *)
(* is the composition of their operators.                                  *)
(*                                                                         *)
(* Times are integers relative to the start of the current timeslice, as   *)
(* they are in the code.  Slop is TIME_IN_NSEC(1) in the unit of the       *)
(* model; Never is TIME_NEVER (1e30 seconds), which as a double absorbs    *)
(* whatever is added to it or subtracted from it.                          *)
(*                                                                         *)
(* Left out: the `start` field and the elapsed/left/expire getters, which  *)
(* no decision of the timer system reads, and the parameter of a callback, *)
(* which is part of the value in `callback`.                               *)
(***************************************************************************)
EXTENDS Integers, SequencesExt

CONSTANTS
  MaxTimers,  \* MAX_TIMERS, the number of slots
  Slop,       \* TIME_IN_NSEC(1): expiries this close are "equal"
  Never,      \* TIME_NEVER
  NoTag       \* -1, the tag of a slot that is not in use

ASSUME TimerAssumption ==
  /\ MaxTimers \in Nat \ {0}
  /\ Slop \in Nat \ {0}
  /\ Never \in Nat
  /\ Never > 2 * Slop
  /\ NoTag = -1

Slot == 1 .. MaxTimers

(***************************************************************************)
(* Arithmetic on times.  A finite time never comes within Slop of Never:   *)
(* the gap is thirty orders of magnitude in the code.                      *)
(***************************************************************************)
Time == {t \in Int : t + Slop < Never} \cup {Never}

Plus(t, d)  == IF t = Never \/ d = Never \/ t + d + Slop >= Never
               THEN Never ELSE t + d
Minus(t, d) == IF t = Never THEN Never ELSE t - d

(***************************************************************************)
(* timer_init: every slot is free, in array order.  (The loop there stops  *)
(* one short, so the last slot keeps tag 0; timer_alloc overwrites the tag *)
(* before anything reads it.)                                              *)
(*                                                                         *)
(* `older` is a history variable: <<x, y>> \in older says that both are    *)
(* active and that x was put at its place in the list before y was.  No    *)
(* operator reads it.                                                      *)
(***************************************************************************)
PoolType(Callback) ==
  [list : Seq(Slot), free : Seq(Slot), expire : [Slot -> Time],
   period : [Slot -> Nat], enabled : [Slot -> BOOLEAN],
   temporary : [Slot -> BOOLEAN], tag : [Slot -> Nat \cup {NoTag}],
   callback : [Slot -> Callback], older : SUBSET (Slot \X Slot)]

EmptyPool ==
  [list      |-> <<>>,
   free      |-> [i \in 1 .. MaxTimers |-> i],
   expire    |-> [x \in Slot |-> 0],
   period    |-> [x \in Slot |-> 0],
   enabled   |-> [x \in Slot |-> FALSE],
   temporary |-> [x \in Slot |-> FALSE],
   tag       |-> [x \in Slot |-> IF x = MaxTimers THEN 0 ELSE NoTag],
   callback  |-> [x \in Slot |-> "NULL"],
   older     |-> {}]

Active(ts) == Range(ts.list)
PosOf(s, x) == CHOOSE i \in DOMAIN s : s[i] = x

Forget(older, x) == {p \in older : p[1] # x /\ p[2] # x}

(***************************************************************************)
(* timer_list_insert: before the first entry that expires more than Slop   *)
(* after the new one, or else at the end.  A disabled timer is sorted as   *)
(* if it never expired, but the entries it is compared with are compared   *)
(* by their `expire` field, enabled or not.                                *)
(***************************************************************************)
SortKey(ts, w) == IF ts.enabled[w] THEN ts.expire[w] ELSE Never

\* Faulty variant: equal expiries are sorted last in, first out.
ExpiresAfter_Lifo(ts, key) ==
  {i \in DOMAIN ts.list : ts.expire[ts.list[i]] - key >= 0}

ExpiresAfter(ts, key) ==
  {i \in DOMAIN ts.list : ts.expire[ts.list[i]] - key > Slop}
InsertPos(ts, key) ==
  IF ExpiresAfter(ts, key) = {} THEN Len(ts.list) + 1
  ELSE CHOOSE i \in ExpiresAfter(ts, key) :
         \A j \in ExpiresAfter(ts, key) : i <= j

ListInsert(ts, w) ==
  [ts EXCEPT !.list  = InsertAt(@, InsertPos(ts, SortKey(ts, w)), w),
             !.older = @ \cup (Active(ts) \X {w})]

\* timer_list_remove
ListRemove(ts, w) ==
  [ts EXCEPT !.list  = RemoveAt(@, PosOf(@, w)),
             !.older = Forget(@, w)]

Relist(ts, w) == ListInsert(ListRemove(ts, w), w)

(***************************************************************************)
(* The calls clients make.  `now` is what get_relative_time returns to the *)
(* caller, `tg` what get_resource_tag returns.                             *)
(***************************************************************************)

\* timer_alloc with timer_new: the head of the free list, unprimed.
TimerAlloc(ts, cb, tg) ==
  IF ts.free = <<>> THEN ts
  ELSE LET w == Head(ts.free)
       IN ListInsert([ts EXCEPT !.free         = Tail(@),
                                !.callback[w]  = cb,
                                !.enabled[w]   = FALSE,
                                !.temporary[w] = FALSE,
                                !.tag[w]       = tg,
                                !.period[w]    = 0,
                                !.expire[w]    = Never], w)

\* Faulty variant: the timer keeps its old place in the list.
TimerAdjust_NotRelisted(ts, w, now, duration, period) ==
  LET wait == IF duration < 0 THEN 0 ELSE duration
  IN [ts EXCEPT !.enabled[w] = TRUE,
                !.expire[w]  = Plus(now, wait),
                !.period[w]  = period]

\* timer_adjust: a negative duration counts as 0.
TimerAdjust(ts, w, now, duration, period) ==
  LET wait == IF duration < 0 THEN 0 ELSE duration
  IN Relist([ts EXCEPT !.enabled[w] = TRUE,
                       !.expire[w]  = Plus(now, wait),
                       !.period[w]  = period], w)

\* timer_reset
TimerReset(ts, w, now, duration) ==
  TimerAdjust(ts, w, now, duration, ts.period[w])

\* timer_pulse: without a free slot the call has no effect.
TimerPulse(ts, cb, tg, now, period) ==
  IF ts.free = <<>> THEN ts
  ELSE TimerAdjust(TimerAlloc(ts, cb, tg), Head(ts.free), now, period, period)

\* timer_set: without a free slot the call has no effect.
TimerSet(ts, cb, tg, now, duration) ==
  IF ts.free = <<>> THEN ts
  ELSE LET w == Head(ts.free)
       IN TimerAdjust([TimerAlloc(ts, cb, tg) EXCEPT !.temporary[w] = TRUE],
                      w, now, duration, 0)

\* timer_enable
TimerEnable(ts, w, enable) == Relist([ts EXCEPT !.enabled[w] = enable], w)

\* Faulty variant: the slot is not given back to the free list.
TimerRemove_Leak(ts, w) ==
  IF ts.tag[w] = NoTag THEN ts
  ELSE [ListRemove(ts, w) EXCEPT !.tag[w] = NoTag]

\* timer_remove: an inactive timer is reported and left alone.
TimerRemove(ts, w) ==
  IF ts.tag[w] = NoTag THEN ts
  ELSE [ListRemove(ts, w) EXCEPT !.tag[w] = NoTag, !.free = Append(@, w)]

(***************************************************************************)
(* The pieces of timer_adjust_global_time.                                 *)
(***************************************************************************)

\* The scan that makes every active expiry relative to the new offset.
ShiftTimes(ts, delta) ==
  [ts EXCEPT !.expire = [x \in Slot |->
     IF x \in Active(ts) THEN Minus(ts.expire[x], delta) ELSE ts.expire[x]]]

\* The loop condition: the head of the list is overdue.
HeadDue(ts) == ts.expire[Head(ts.list)] < Slop

\* A one-shot is disabled before its callback runs.
Disarm(ts, w) ==
  IF ts.period[w] = 0 THEN [ts EXCEPT !.enabled[w] = FALSE] ELSE ts

\* Faulty variant: a one-shot is rescheduled like any other timer.
AfterFire_KeepOneShot(ts, w) ==
  Relist([ts EXCEPT !.expire[w] = Plus(@, ts.period[w])], w)

\* What follows a callback that did not adjust its own timer.
AfterFire(ts, w) ==
  IF ts.temporary[w] THEN TimerRemove(ts, w)
  ELSE Relist([ts EXCEPT !.expire[w] = Plus(@, ts.period[w])], w)

(***************************************************************************)
(* What the lists must look like.                                          *)
(***************************************************************************)
Precedes(ts, x, y) ==
  \/ ts.expire[x] < ts.expire[y]
  \/ ts.expire[x] <= ts.expire[y] + Slop /\ <<x, y>> \in ts.older

InExpiryOrder(ts) ==
  \A i, j \in DOMAIN ts.list :
    i < j /\ ts.enabled[ts.list[j]] => Precedes(ts, ts.list[i], ts.list[j])

Partitioned(ts) ==
  /\ Range(ts.list) \cup Range(ts.free) = Slot
  /\ Range(ts.list) \cap Range(ts.free) = {}
  /\ IsInjective(ts.list)
  /\ IsInjective(ts.free)

=============================================================================
