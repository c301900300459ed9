----------------------------- MODULE MCCpuExec -----------------------------
(***************************************************************************)
(* Two CPUs whose cycles differ by a factor of two, so that local times    *)
(* are rounded, and slices that are a few instructions long.               *)
(***************************************************************************)
EXTENDS CpuExec

MCCycle == [c \in CPU |-> IF c = 1 THEN 1 ELSE 2]

(***************************************************************************)
(* Two states are the same when they differ only in what is not read any   *)
(* more: the trigger and the eating of CPUs that are not suspended, and    *)
(* the histories of waits that are over.                                   *)
(***************************************************************************)
Waiting == {c \in CPU : "TRIGGER" \in suspend[c] \cup nextsuspend[c]}
Eating(eats, susp) == {c \in CPU : susp[c] # {} /\ eats[c]}
LiveView ==
  <<suspend, nextsuspend, Eating(eatcycles, suspend),
    Eating(nexteatcycles, nextsuspend), sliceVars, agenda, yielded, unreset,
    {c \in Waiting : trigger[c] = c}, guarded \cap Waiting,
    called \cap Waiting>>

=============================================================================
