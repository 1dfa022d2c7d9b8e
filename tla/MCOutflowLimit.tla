--------------------------- MODULE MCOutflowLimit ---------------------------
(***************************************************************************)
(* Small instances of OutflowLimit: windows of one and three slots and a   *)
(* disabled limiter, limits of one and two tokens, a clock that crosses    *)
(* three window boundaries.                                                *)
(***************************************************************************)
EXTENDS OutflowLimit

MCConfigs == {[window_duration |-> 3, max_outflow |-> 2],
              [window_duration |-> 1, max_outflow |-> 1],
              [window_duration |-> 0, max_outflow |-> 0]}

MCQuantities == {0, 5, 10, 20}
=============================================================================
