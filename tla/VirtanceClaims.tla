----------------------------- MODULE VirtanceClaims -----------------------------
(***************************************************************************)
(* What comments of main.py say of its handlers, and what the handlers do  *)
(* not always do.                                                          *)
(***************************************************************************)
EXTENDS MCVirtance

PauseJobs == {Job("create", v1, NoFile, 1, FALSE), Simple("suspend", v1),
              Job("rebuild", v1, NoFile, 1, FALSE)}

SnapshotJobs == {Job("create", v1, NoFile, 1, FALSE),
                 Job("snapshot", v1, s1, NoSize, FALSE),
                 Job("create", v2, s1, 1, FALSE)}

(* main.py:61, "Check XML already exists and delete", and main.py:169,     *)
(* "Stop VM": when a create or a rebuild goes on to the images, nothing    *)
(* runs on them any more.  A suspended domain does: get_state() tells      *)
(* "shutoff" of it, so neither handler stops it, and the create takes its  *)
(* definition away as well.                                                *)
StopsVM ==
  \A w \in Workers : Doing(w, "download") /\ job[w].kind \in {"create", "rebuild"}
                     /\ alone[w] => ~Active(job[w].v)

(* main.py:73, "Copy and deploy backup or snapshot image": a virtance made *)
(* from a snapshot has the copy configured for it.  The handler configures *)
(* the snapshot and starts the copy as it was taken.                       *)
CreateDeploysTheCopy ==
  \A w \in Workers : Doing(w, "respond") /\ job[w].kind = "create" /\ alone[w] =>
    file[job[w].v].owner = job[w].v

=============================================================================
