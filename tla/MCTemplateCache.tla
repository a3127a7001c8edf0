--------------------------- MODULE MCTemplateCache ---------------------------
(* Small instances of TemplateCache for TLC.                               *)
EXTENDS TemplateCache, TLC

CONSTANTS w1, w2, w3, t1, t2

ThreeWorkers == {w1, w2, w3}
TwoTemplates == {t1, t2}

SymmetryCache == Permutations(ThreeWorkers) \cup Permutations(TwoTemplates)
=============================================================================
