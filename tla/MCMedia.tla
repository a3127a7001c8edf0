-------------------------------- MODULE MCMedia --------------------------------
(* Small instance of Media for TLC.                                        *)
EXTENDS Media, TLC

CONSTANTS w1, w2, i1, i2, nowhere

TwoWorkers == {w1, w2}
TwoIsos == {i1, i2}

Request1(kind, image, dev, res) ==
  [kind |-> kind, image |-> image, dev |-> dev, res |-> res]

AllJobs ==
  {Request1(k, i, TRUE, 0) : k \in {"mount", "umount"}, i \in TwoIsos}
  \cup {Request1("mount", nowhere, TRUE, 0), Request1("mount", nowhere, FALSE, 0),
        Request1("umount", nowhere, FALSE, 0)}
  \cup {Request1("resize", nowhere, FALSE, n) : n \in {1, 2}}
  \cup {Request1(k, nowhere, FALSE, 0) :
          k \in {"delete", "power_on", "power_off", "suspend", "resume"}}

SymmetryMedia == Permutations(TwoWorkers) \cup Permutations(TwoIsos)
=============================================================================
