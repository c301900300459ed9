---------------------------- MODULE MCLibPinmame ----------------------------
(***************************************************************************)
(* Small instances of LibPinmame: two runs of a game and two resets, so    *)
(* that a second run and a reset meet what the first ones left behind.     *)
(***************************************************************************)
EXTENDS LibPinmame

\* The system may stop: the bounds are used up, or a stop hangs.
=============================================================================
