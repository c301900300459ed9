---------------------------- MODULE OrderedWrites ----------------------------
(***************************************************************************)
(* What a host is promised of its memory writes (SubmitWrite and           *)
(* WriteMemory in libpinmame.cpp, PinMAMEWriteMemoryMsg in                 *)
(* PinMAMEPlugin.h), without locks, flags, waits or batches: requests form *)
(* one queue; while the machine runs, the oldest of them take effect, in   *)
(* the order they were made; a call returns true when its request has      *)
(* taken effect and false when it was withdrawn before that, never in      *)
(* doubt; and the machine stops and starts between calls only.             *)
(***************************************************************************)
EXTENDS Integers, SequencesExt

CONSTANT Writer  \* the host's threads

VARIABLES
  running,  \* the machine runs
  calling,  \* the threads inside a call
  pending,  \* the requests that have not taken effect, the oldest first
  effect,   \* how often the request of a thread's latest call took effect
  answer    \* what a thread's latest finished call returned

vars == <<running, calling, pending, effect, answer>>

Init ==
  /\ running = TRUE
  /\ calling = {}
  /\ pending = <<>>
  /\ effect = [w \in Writer |-> 0]
  /\ answer = [w \in Writer |-> TRUE]

Begin(w) ==
  /\ running
  /\ w \notin calling
  /\ calling' = calling \cup {w}
  /\ effect' = [effect EXCEPT ![w] = 0]
  /\ answer' = [answer EXCEPT ![w] = FALSE]
  /\ UNCHANGED <<running, pending>>

Refuse(w) ==
  /\ w \notin calling
  /\ effect' = [effect EXCEPT ![w] = 0]
  /\ answer' = [answer EXCEPT ![w] = FALSE]
  /\ UNCHANGED <<running, calling, pending>>

Ask(w) ==
  /\ w \in calling \ Range(pending)
  /\ effect[w] = 0
  /\ pending' = Append(pending, w)
  /\ UNCHANGED <<running, calling, effect, answer>>

\* The n oldest requests take effect, and nothing comes between them.
Perform(n) ==
  /\ running
  /\ effect' = [w \in Writer |->
                  IF \E i \in 1 .. n : pending[i] = w THEN effect[w] + 1
                  ELSE effect[w]]
  /\ pending' = SubSeq(pending, n + 1, Len(pending))
  /\ UNCHANGED <<running, calling, answer>>

Return(w) ==
  /\ w \in calling
  /\ effect[w] = 1
  /\ calling' = calling \ {w}
  /\ answer' = [answer EXCEPT ![w] = TRUE]
  /\ UNCHANGED <<running, pending, effect>>

\* A request that has not taken effect leaves the queue with its call.
Withdraw(w) ==
  /\ w \in calling
  /\ effect[w] = 0
  /\ \E i \in DOMAIN pending :
       pending[i] = w /\ pending' = RemoveAt(pending, i)
  /\ calling' = calling \ {w}
  /\ answer' = [answer EXCEPT ![w] = FALSE]
  /\ UNCHANGED <<running, effect>>

StopOrStart ==
  /\ calling = {}
  /\ running' = ~running
  /\ UNCHANGED <<calling, pending, effect, answer>>

Next ==
  \/ \E w \in Writer : Begin(w) \/ Refuse(w) \/ Ask(w) \/ Return(w) \/ Withdraw(w)
  \/ \E n \in DOMAIN pending : Perform(n)
  \/ StopOrStart

Spec == Init /\ [][Next]_vars

=============================================================================
