------------------------------- MODULE IrqOrder -------------------------------
(***************************************************************************)
(* What src/src/cpuint.c promises those who request interrupts, without    *)
(* the array, its index and the loop over it: the lines of the CPU change  *)
(* by the requests, one after the other, in the order they were made and   *)
(* each with what was asked; a drain once begun serves them all, the       *)
(* requests made during it too; and otherwise lines only go down, when the *)
(* CPU takes a HOLD interrupt, all at once, or in a reset, which drops the *)
(* requests.  One weakness is part of it: when Capacity requests were made *)
(* since the queue was last empty, what a further one asked for is lost,   *)
(* though it is still served, as some event.                               *)
(***************************************************************************)
EXTENDS Integers, SequencesExt

CONSTANTS
  Event,    \* what can be asked: a line and its new state
  Kept,     \* the lines that can be held; the NMI cannot
  Capacity  \* how many requests are remembered

VARIABLES
  pending,   \* the requests to be served: the event of each, or all of them
  made,      \* how many requests since the queue was last empty
  serving,   \* a drain is going on
  asserted,  \* the lines the CPU sees asserted
  pulse,     \* the line that a PULSE request has up
  held       \* the lines that stay up until the CPU takes the interrupt

vars == <<pending, made, serving, asserted, pulse, held>>

Init ==
  /\ pending = <<>>
  /\ made = 0
  /\ serving = FALSE
  /\ asserted = {}
  /\ pulse = {}
  /\ held = {}

\* What is remembered of a request.
Note == IF made < Capacity THEN {{e} : e \in Event} ELSE {Event}

Ask ==
  /\ made' = made + 1
  /\ pending' \in {Append(pending, n) : n \in Note}
  /\ UNCHANGED <<serving, asserted, pulse, held>>

Begin ==
  /\ ~serving
  /\ serving' = TRUE
  /\ UNCHANGED <<pending, made, asserted, pulse, held>>

\* One pulse is over before the next request is served.
Serve ==
  /\ serving
  /\ pending # <<>>
  /\ pulse = {}
  /\ \E e \in Head(pending) :
       /\ asserted' = IF e.state = "CLEAR" THEN asserted \ {e.line}
                      ELSE asserted \cup {e.line}
       /\ pulse' = IF e.state = "PULSE" THEN {e.line} ELSE {}
       /\ held' = IF e.state = "HOLD" THEN held \cup ({e.line} \cap Kept)
                  ELSE held \ {e.line}
  /\ pending' = Tail(pending)
  /\ UNCHANGED <<made, serving>>

EndPulse ==
  /\ asserted' = asserted \ pulse
  /\ pulse' = {}
  /\ UNCHANGED <<pending, made, serving, held>>

End ==
  /\ serving
  /\ pending = <<>> /\ pulse = {}
  /\ serving' = FALSE
  /\ made' = 0
  /\ UNCHANGED <<pending, asserted, pulse, held>>

\* The CPU takes an interrupt on a line that is held for it.
Take(l) ==
  /\ l \in asserted \cap held
  /\ asserted' = asserted \ {l}
  /\ held' = held \ {l}
  /\ UNCHANGED <<pending, made, serving, pulse>>

ClearAll ==
  /\ ~serving
  /\ asserted' = {}
  /\ UNCHANGED <<pending, made, serving, pulse, held>>

Reset ==
  /\ ~serving
  /\ pending' = <<>>
  /\ made' = 0
  /\ asserted' \in {asserted, {}}
  /\ UNCHANGED <<serving, pulse, held>>

Next ==
  \/ Ask
  \/ Begin \/ Serve \/ EndPulse \/ End
  \/ \E l \in asserted : Take(l)
  \/ ClearAll \/ Reset

Spec == Init /\ [][Next]_vars

=============================================================================
