---------------------------- MODULE MCHostObjects ----------------------------
(* Small instances of HostObjects for TLC.                                 *)
EXTENDS HostObjects, TLC

CONSTANTS w1, w2, v1, n1

TwoWorkers == {w1, w2}
OnePool == {v1}
OneNetwork == {n1}
AllKinds == {"create", "unknown_type", "start", "stop", "autostart",
             "manualstart", "delete"}

SymmetryHost == Permutations(TwoWorkers)
=============================================================================
