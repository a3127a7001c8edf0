------------------------------- MODULE MCVolumes -------------------------------
(* Small instance of Volumes for TLC.                                      *)
EXTENDS Volumes, TLC

CONSTANTS w1, w2, a, b

TwoWorkers == {w1, w2}
TwoBases == {a, b}

Named(base, imgs) == [base |-> base, imgs |-> imgs]
Ask1(kind, name, to, size) ==
  [kind |-> kind, name |-> name, to |-> to, size |-> size, format |-> TRUE]
NoFormat(j) == [j EXCEPT !.format = FALSE]

AllJobs ==
  UNION {{Ask1("create", Named(x, 0), Named(x, 0), 1),
          Ask1("copy", Named(x, 0), Named(x, 0), 2),
          Ask1("delete", Named(x, 1), Named(x, 0), 1),
          Ask1("resize", Named(x, 1), Named(x, 0), 2)} : x \in TwoBases}
  \cup {Ask1("clone", Named(x, 1), Named(y, 0), 1) : x, y \in TwoBases}
  \cup {Ask1(k, Named(a, 1), Named(a, 0), 1) : k \in {"list", "storages", "stop", "start"}}
  \cup {Ask1("create", Named(a, 1), Named(a, 0), 1), Ask1("copy", Named(a, 1), Named(a, 0), 2),
        NoFormat(Ask1("create", Named(a, 0), Named(a, 0), 1))}

SymmetryVolumes == Permutations(TwoWorkers)
=============================================================================
