------------------------------ MODULE MCCpuInt ------------------------------
(***************************************************************************)
(* One ordinary line and the NMI, a queue of two cells and three requests, *)
(* so that the queue overflows by one.                                     *)
(***************************************************************************)
EXTENDS CpuInt

CONSTANTS irq, nmi
MCLine == {irq, nmi}

=============================================================================
