------------------------------ MODULE GameLife ------------------------------
(***************************************************************************)
(* What a host sees of a game's life (libpinmame.cpp): the run state,      *)
(* whether there is a thread for PinmameStop to join, whether a stop is    *)
(* under way, and whether the game thread waits for the main thread to run *)
(* OnGameEnd.  No flags, queues, thread ids or stages of the emulation.    *)
(*                                                                         *)
(* A game is started from the stopped state only; its machine may stop and *)
(* start again (a reset) without the host; it reports that it has stopped  *)
(* once, and never while it waits; and a stop returns only then.           *)
(***************************************************************************)

CONSTANTS Stopped, Running, Starting, Stopping  \* the values of _isRunning

VARIABLES
  state,     \* the run state
  handle,    \* the host holds a thread that a stop joins
  stopping,  \* a stop is under way
  waiting    \* the game thread waits for the main thread

vars == <<state, handle, stopping, waiting>>

Init ==
  /\ state = Stopped
  /\ handle = FALSE
  /\ stopping = FALSE
  /\ waiting = FALSE

Run ==
  /\ ~stopping
  /\ state = Stopped
  /\ state' = Starting
  /\ handle' = TRUE
  /\ UNCHANGED <<stopping, waiting>>

\* The machine is up, after PinmameRun or after a reset.
MachineUp ==
  /\ state \in {Starting, Stopping}
  /\ ~waiting
  /\ state' = Running
  /\ UNCHANGED <<handle, stopping, waiting>>

MachineDown ==
  /\ state = Running
  /\ state' = Stopping
  /\ UNCHANGED <<handle, stopping, waiting>>

Wait ==
  /\ state = Stopping
  /\ ~waiting
  /\ waiting' = TRUE
  /\ UNCHANGED <<state, handle, stopping>>

\* Only a main thread that is not in the join of a stop can answer.
Answer ==
  /\ waiting
  /\ ~stopping
  /\ waiting' = FALSE
  /\ UNCHANGED <<state, handle, stopping>>

\* The game is over, or its machine never came up.
Over ==
  /\ state \in {Starting, Stopping}
  /\ ~waiting
  /\ state' = Stopped
  /\ UNCHANGED <<handle, stopping, waiting>>

BeginStop ==
  /\ ~stopping
  /\ handle
  /\ stopping' = TRUE
  /\ UNCHANGED <<state, handle, waiting>>

ReturnFromStop ==
  /\ stopping
  /\ state = Stopped
  /\ stopping' = FALSE
  /\ handle' = FALSE
  /\ UNCHANGED <<state, waiting>>

Next ==
  \/ Run \/ BeginStop \/ ReturnFromStop \/ Answer
  \/ MachineUp \/ MachineDown \/ Wait \/ Over

Spec == Init /\ [][Next]_vars

=============================================================================
