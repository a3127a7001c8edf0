------------------------------ MODULE MCVirtance ------------------------------
(* Small instances of Virtance for TLC.                                    *)
EXTENDS Virtance

CONSTANTS w1, w2, v1, v2, s1

OneWorker == {w1}
TwoWorkers == {w1, w2}
OneVirtance == {v1}
TwoVirtances == {v1, v2}
OneSnapshot == {s1}

Job(kind, v, s, size, second) ==
  [kind |-> kind, v |-> v, s |-> s, size |-> size, second |-> second]
Simple(kind, v) == Job(kind, v, NoFile, NoSize, FALSE)

PowerKinds == {"power_on", "power_off", "power_cycle", "shutdown", "suspend",
               "resume"}

(* Every handler on one virtance.                                          *)
AllJobs ==
  {Simple(k, v1) : k \in PowerKinds \cup {"reset_password", "delete"}}
  \cup {Job("create", v1, NoFile, 1, TRUE), Job("create", v1, s1, 2, FALSE),
        Job("rebuild", v1, NoFile, 2, FALSE), Job("rebuild", v1, NoFile, 1, TRUE),
        Job("resize", v1, NoFile, 2, FALSE), Job("resize", v1, NoFile, NoSize, FALSE),
        Job("snapshot", v1, s1, NoSize, FALSE),
        Job("restore", v1, s1, 1, FALSE), Job("restore", v1, s1, NoSize, FALSE)}

=============================================================================
