---------------------------- MODULE MCFloatingIP ----------------------------
(* Small instances of FloatingIP for TLC.                                  *)
EXTENDS FloatingIP, TLC

CONSTANTS w1, w2, a1, a2, f1, f2

TwoWorkers == {w1, w2}
TwoAddresses == {a1, a2}
TwoFixed == {f1, f2}

Jobs2 == {[kind |-> "firewall"]}
  \cup [kind : {"attach", "detach"}, a : TwoAddresses, f : TwoFixed]

SymmetryFip == Permutations(TwoWorkers) \cup Permutations(TwoAddresses)
  \cup Permutations(TwoFixed)
=============================================================================
