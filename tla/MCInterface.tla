---------------------------- MODULE MCInterface -----------------------------
(* Model-checking instance of InterfaceSystem: two neighbours that exchange *)
(* two hardware addresses; time in units of half a retry.                   *)
EXTENDS InterfaceSystem

CONSTANTS n1, n2, m1, m2

MCNeighbours == {n1, n2}
MCMacs == {m1, m2}
MCTicks == {1, 2}
=============================================================================
