--------------------------- MODULE MCRemoteDebug ---------------------------
(***************************************************************************)
(* Small instances of RemoteDebug.                                         *)
(***************************************************************************)
EXTENDS RemoteDebug

MCHooked == {0, 1}

=============================================================================
