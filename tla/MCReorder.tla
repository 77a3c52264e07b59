----------------------------- MODULE MCReorder -----------------------------
(* An instance of Reorder for TLC.  A finished stream is where the model    *)
(* stops, so the runs switch deadlock checking off.  The largest depth is   *)
(* one the arrays, of three entries, are too small for.                     *)
EXTENDS Reorder

MCPocs     == {0, 1, 2}
MCDepths   == {0, 1, 2, 3}
=============================================================================
