---------------------------- MODULE MCHostWrite ----------------------------
(***************************************************************************)
(* Two host threads, two calls each: a request can be withdrawn, taken or  *)
(* done when its timeout strikes while the other one is in another stage,  *)
(* and a second call meets what the first one left.                        *)
(***************************************************************************)
EXTENDS HostWrite

CONSTANTS w1, w2
MCWriter == {w1, w2}

=============================================================================
