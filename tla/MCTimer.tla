------------------------------ MODULE MCTimer ------------------------------
(***************************************************************************)
(* Small instances of Timer.                                               *)
(***************************************************************************)
EXTENDS Timer

MCNever    == 1000
MCNoTag    == -1
MCDuration == {-1, 2}
MCPeriod   == {0, 3}
MCDelta    == {2}
MCLocal    == {1}
MCCallback == {"client", "NULL"}

\* One start of the machine, with nothing allocated before it.
OneStart == resource_tag = 1 \/ ts = EmptyPool

(***************************************************************************)
(* Two states are the same when they differ only in what is never read     *)
(* again: the fields of free slots, which timer_alloc sets anew, and the   *)
(* callback statics when no callback runs.                                 *)
(***************************************************************************)
Live(f, free) == [x \in Slot |-> IF x \in Active(ts) THEN f[x] ELSE free]
LivePool == [ts EXCEPT !.expire    = Live(@, 0),
                       !.period    = Live(@, 0),
                       !.enabled   = Live(@, FALSE),
                       !.temporary = Live(@, FALSE),
                       !.callback  = Live(@, "NULL")]
LiveStatics == IF phase = "callback" THEN fireVars ELSE <<>>
LiveView  == <<LivePool, LiveStatics, phase, global_offset, resource_tag>>

=============================================================================
