----------------------------- MODULE MCStateFile -----------------------------
(* Small instance of StateFile for TLC: the handler threads are model      *)
(* values, without symmetry as the run checks liveness too.                *)
EXTENDS StateFile

CONSTANTS w1, w2, w3

ThreeWorkers == {w1, w2, w3}
=============================================================================
