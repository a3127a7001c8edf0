-------------------------------- MODULE Volumes --------------------------------
(***************************************************************************)
(* The volumes of a storage pool: the handlers of /storages/{pool}/volumes *)
(* and the snapshots that create_copy() of vrtmgr/images.py writes into    *)
(* the same directory behind the back of libvirt.                          *)
(*                                                                         *)
(* A name is [base, imgs]: how many times ".img" ends it.  The pool is of  *)
(* the type "dir", as all the pools the daemon uses.                       *)
(* External, libvirt: it keeps a list of the volumes of an active pool and *)
(* reads the directory in refresh() and at the start of the pool only; it  *)
(* builds a volume asynchronously, in its own process; while it builds one *)
(* refresh() and the stop of the pool are refused, and so are delete(),    *)
(* resize() and another clone of the volume it builds, delete() and        *)
(* resize() of the volume it clones; it builds no volume whose file        *)
(* exists, and a volume does not shrink.                                   *)
(***************************************************************************)
EXTENDS Naturals, FiniteSets

CONSTANTS
  Workers,
  Bases,        \* names without suffix
  Jobs,         \* the requests: [kind, name, to, size, format]
  OtherVolumes, \* volumes of the pool listed before this one
  MaxRequests   \* bound: requests in a behaviour

VARIABLES
  active,    \* the pool is active
  files,     \* files[f]: the file f in the directory: [size, data]
  known,     \* the list of volumes libvirt keeps
  builds,    \* the volumes libvirt builds: [to, from, size, torn]
  job, step, \* the request a worker serves, the call it makes next
  shown,     \* shown[w]: the volumes its handler is going to tell
  count,     \* count[w]: stg_volumes of get_storages_info()
  requests,  \* bound: requests so far
  seen,      \* history: seen[w]: files in the pool since its request came in
  stale,     \* history: stale[w]: its refresh was refused
  alone,     \* history: nothing else was done in the pool meanwhile
  cut,       \* history: the sorts of handlers that failed or died
  together   \* history: a snapshot was taken while a volume was being built

volumeVars == <<active, files, known, builds, job, step, shown, count,
                requests, seen, stale, alone, cut, together>>

Names == [base : Bases, imgs : 0..2]
NoFile == [size |-> 0, data |-> "none"]
NoName == [base |-> "none", imgs |-> 0]
NoJob == [kind |-> "none"]

WithImg(n) == [n EXCEPT !.imgs = @ + 1]
Image(n) == IF n.imgs > 0 THEN n ELSE WithImg(n)

Present == {f \in Names : files[f] # NoFile}
Building(f) == \E b \in builds : b.to = f
InUse(f) == \E b \in builds : b.from = f
Busy == {w \in Workers : step[w] # "idle"}

(* The file a handler makes, and the one it works on.                      *)
Target(j) == IF j.kind = "copy" THEN Image(j.name)
             ELSE IF j.kind = "create" THEN WithImg(j.name) ELSE WithImg(j.to)

Kinds == {"create", "clone", "resize", "delete", "list", "storages", "copy",
          "stop", "start"}
ASSUME JobsAssumption ==
  \A j \in Jobs : /\ j.kind \in Kinds /\ j.size \in Nat
                  /\ j.name \in Names /\ Target(j) \in Names
ASSUME NamesApart ==
  /\ NoName \notin Names
  /\ Workers \cap {"none", "building", "blank", "image", "torn"} = {}

-----------------------------------------------------------------------------
Init ==
  /\ active = TRUE
  /\ files = [f \in Names |-> NoFile]
  /\ known = {} /\ builds = {}
  /\ job = [w \in Workers |-> NoJob]
  /\ step = [w \in Workers |-> "idle"]
  /\ shown = [w \in Workers |-> {}]
  /\ count = [w \in Workers |-> 0]
  /\ requests = 0
  /\ seen = [w \in Workers |-> {}]
  /\ stale = [w \in Workers |-> FALSE]
  /\ alone = [w \in Workers |-> TRUE]
  /\ cut = {} /\ together = FALSE

First(j) == CASE j.kind = "list"              -> "refresh_list"
              [] j.kind = "storages"          -> "refresh_list"
              [] j.kind = "copy"              -> "refresh_copy"
              [] j.kind \in {"stop", "start"} -> j.kind
              [] OTHER                        -> "get_volume"

Request(w, j) ==
  /\ w \notin Busy
  /\ requests < MaxRequests
  /\ requests' = requests + 1
  /\ job' = [job EXCEPT ![w] = j]
  /\ step' = [step EXCEPT ![w] = IF j.kind = "create" THEN "create" ELSE First(j)]
  /\ seen' = [seen EXCEPT ![w] = Present]
  /\ alone' = [u \in Workers |-> IF u \in Busy \cup {w}
                                 THEN Busy = {} /\ builds = {} ELSE TRUE]
  /\ together' = (\/ together
                  \/ j.kind = "copy" /\ builds # {}
                  \/ \E u \in Busy : \E k \in {"create", "clone"} :
                       {j.kind, job[u].kind} = {"copy", k})
  /\ UNCHANGED <<active, files, known, builds, shown, count, stale, cut>>

At(w, s) == step[w] = s
Goes(w, s) ==
  /\ step' = [step EXCEPT ![w] = s]
  /\ UNCHANGED <<job, requests, alone, cut, together>>

(* The directory after a change of the file f.                             *)
Put(f, content) ==
  /\ files' = [files EXCEPT ![f] = content]
  /\ seen' = [w \in Workers |-> IF content = NoFile THEN seen[w] \ {f} ELSE seen[w]]

Same == UNCHANGED <<active, files, known, builds, shown, count, seen, stale>>

-----------------------------------------------------------------------------
(* storage_volume_create(), storage_volume_action(),                       *)
(* storage_volume_delete().                                                *)

(* libvirt takes the new volume into its list and starts to build it.  A   *)
(* request without a format asks for the format "None", which is refused.  *)
BeginBuild(w, f, from, size) ==
  /\ active
  /\ f \notin known \cup Present
  /\ known' = known \cup {f}
  /\ builds' = builds \cup
       {[to |-> f, from |-> from, size |-> size,
         torn |-> from # NoName /\ files[from].data \in Workers \cup {"torn"}]}
  /\ Put(f, [size |-> size, data |-> "building"])
  /\ Goes(w, "build")
  /\ UNCHANGED <<active, shown, count, stale>>

Create(w) ==
  /\ At(w, "create")
  /\ job[w].format
  /\ BeginBuild(w, Target(job[w]), NoName, job[w].size)

GetVolume(w) ==
  /\ At(w, "get_volume")
  /\ job[w].name \in known
  /\ Goes(w, job[w].kind)
  /\ Same

(* Mutant: the clone is made as large as it is asked to be, 0.             *)
CloneEmpty(w) ==
  /\ At(w, "clone")
  /\ job[w].name \in known /\ ~Building(job[w].name)
  /\ BeginBuild(w, Target(job[w]), job[w].name, 0)

Clone(w) ==
  /\ At(w, "clone")
  /\ job[w].name \in known /\ ~Building(job[w].name)
  /\ BeginBuild(w, Target(job[w]), job[w].name, files[job[w].name].size)

(* The build ends in libvirt, whoever waits for it.                        *)
EndBuild(b) ==
  /\ b \in builds
  /\ builds' = builds \ {b}
  /\ \/ /\ Put(b.to, [size |-> b.size,
                      data |-> IF b.torn \/ files[b.to].data # "building" THEN "torn"
                               ELSE IF b.from = NoName THEN "blank"
                                              ELSE files[b.from].data])
        /\ UNCHANGED known
     \/ Put(b.to, NoFile) /\ known' = known \ {b.to}
  /\ step' = [w \in Workers |->
                IF At(w, "build") /\ Target(job[w]) = b.to
                THEN IF files'[b.to] = NoFile THEN "raise" ELSE "respond"
                ELSE step[w]]
  /\ UNCHANGED <<active, job, shown, count, requests, stale, alone, cut, together>>

Untouched(f) == f \in known /\ ~Building(f) /\ ~InUse(f)

Resize(w) ==
  /\ At(w, "resize")
  /\ Untouched(job[w].name) /\ files[job[w].name].data \notin Workers
  /\ job[w].size >= files[job[w].name].size
  /\ Put(job[w].name, [files[job[w].name] EXCEPT !.size = job[w].size])
  /\ Goes(w, "respond")
  /\ UNCHANGED <<active, known, builds, shown, count, stale>>

Delete(w) ==
  /\ At(w, "delete")
  /\ Untouched(job[w].name)
  /\ Put(job[w].name, NoFile)
  /\ known' = known \ {job[w].name}
  /\ Goes(w, "respond")
  /\ UNCHANGED <<active, builds, shown, count, stale>>

-----------------------------------------------------------------------------
(* storage_volume_list() and storages_list().                              *)
Refreshed == IF active /\ builds = {} THEN Present ELSE known

(* Mutant: the list is told as libvirt keeps it.                           *)
RefreshNever(w) ==
  /\ At(w, "refresh_list")
  /\ Goes(w, "list")
  /\ Same

(* The refresh may be refused, which is passed over.                       *)
RefreshList(w) ==
  /\ At(w, "refresh_list")
  /\ known' = Refreshed
  /\ stale' = [stale EXCEPT ![w] = builds # {}]
  /\ Goes(w, "list")
  /\ UNCHANGED <<active, files, builds, shown, count, seen>>

(* get_storages_info() comes to this pool with the number of volumes of    *)
(* the pool before it.                                                     *)
List(w) ==
  /\ At(w, "list")
  /\ shown' = [shown EXCEPT ![w] = IF active THEN known ELSE {}]
  /\ count' = [count EXCEPT ![w] = IF active THEN Cardinality(known) ELSE OtherVolumes]
  /\ Goes(w, IF job[w].kind = "list" THEN "ask" ELSE "respond")
  /\ UNCHANGED <<active, files, known, builds, seen, stale>>

(* Each volume of the list is looked up again.                             *)
Ask(w) ==
  /\ At(w, "ask")
  /\ shown[w] \subseteq known \cap Present
  /\ Goes(w, "respond")
  /\ Same

-----------------------------------------------------------------------------
(* create_copy(): qemu-img writes the snapshot into the directory of the   *)
(* pool, over a file that is there; the volume is unknown until the next   *)
(* refresh, which raises while libvirt builds a volume.                    *)
RefreshCopy(w) ==
  /\ At(w, "refresh_copy") \/ At(w, "refresh_copied")
  /\ active /\ builds = {}
  /\ known' = Present
  /\ Goes(w, IF At(w, "refresh_copy") THEN "convert" ELSE "get_copied")
  /\ UNCHANGED <<active, files, builds, shown, count, seen, stale>>

(* Mutant: the handler does not wait for qemu-img.                         *)
ConvertNotAwaited(w) ==
  LET f == Target(job[w]) IN
  /\ At(w, "convert")
  /\ files[f].data \notin Workers
  /\ Put(f, [size |-> job[w].size, data |-> w])
  /\ Goes(w, "refresh_copied")
  /\ UNCHANGED <<active, known, builds, shown, count, stale>>

(* qemu-img locks the file it writes; libvirt's copy of a raw volume takes *)
(* no lock.                                                                *)
Convert(w) ==
  LET f == Target(job[w]) IN
  /\ At(w, "convert")
  /\ files[f].data \notin Workers
  /\ Put(f, [size |-> job[w].size, data |-> w])
  /\ builds' = {IF b.from = f THEN [b EXCEPT !.torn = TRUE] ELSE b : b \in builds}
  /\ Goes(w, "converting")
  /\ UNCHANGED <<active, known, shown, count, stale>>

(* A file that was deleted meanwhile is gone when it is complete.          *)
Converted(w) ==
  LET f == Target(job[w]) IN
  /\ At(w, "converting")
  /\ Put(f, IF files[f].data = w THEN [files[f] EXCEPT !.data = "image"] ELSE files[f])
  /\ Goes(w, "refresh_copied")
  /\ UNCHANGED <<active, known, builds, shown, count, stale>>

GetCopied(w) ==
  /\ At(w, "get_copied")
  /\ Target(job[w]) \in known \cap Present
  /\ Goes(w, "respond")
  /\ Same

-----------------------------------------------------------------------------
Stop(w) ==
  /\ At(w, "stop")
  /\ active /\ builds = {}
  /\ active' = FALSE /\ known' = {}
  /\ Goes(w, "respond")
  /\ UNCHANGED <<files, builds, shown, count, seen, stale>>

Start(w) ==
  /\ At(w, "start")
  /\ ~active
  /\ active' = TRUE /\ known' = Present
  /\ Goes(w, "respond")
  /\ UNCHANGED <<files, builds, shown, count, seen, stale>>

(* A qemu-img of a worker that dies leaves what it has written.            *)
Torn(W) ==
  files' = [f \in Names |->
              IF files[f].data \in W THEN [files[f] EXCEPT !.data = "torn"] ELSE files[f]]

Forget(W) ==
  /\ step' = [w \in Workers |-> IF w \in W THEN "idle" ELSE step[w]]
  /\ job' = [w \in Workers |-> IF w \in W THEN NoJob ELSE job[w]]
  /\ shown' = [w \in Workers |-> IF w \in W THEN {} ELSE shown[w]]
  /\ count' = [w \in Workers |-> IF w \in W THEN 0 ELSE count[w]]
  /\ seen' = [w \in Workers |-> IF w \in W THEN {} ELSE seen[w]]
  /\ stale' = [w \in Workers |-> IF w \in W THEN FALSE ELSE stale[w]]
  /\ UNCHANGED <<requests, alone, together>>

Respond(w) ==
  /\ At(w, "respond")
  /\ Forget({w})
  /\ UNCHANGED <<active, files, known, builds, cut>>

(* A call raises; qemu-img may fail at the very end too.                   *)
Raises(w) ==
  /\ w \in Busy /\ step[w] \notin {"respond", "build"}
  /\ Forget({w}) /\ Torn({w})
  /\ cut' = cut \cup {job[w].kind}
  /\ UNCHANGED <<active, known, builds>>

Crash ==
  /\ Busy # {}
  /\ Forget(Busy) /\ Torn(Busy)
  /\ cut' = cut \cup {job[w].kind : w \in Busy}
  /\ UNCHANGED <<active, known, builds>>

(* The host reboots: libvirt starts the pool, and with it reads it.        *)
HostReboot ==
  /\ Forget(Busy)
  /\ files' = [f \in Names |-> IF files[f].data \in Busy \cup {"building"}
                               THEN [files[f] EXCEPT !.data = "torn"] ELSE files[f]]
  /\ active' = TRUE /\ known' = Present /\ builds' = {}
  /\ cut' = cut \cup {job[w].kind : w \in Busy}
                \cup (IF builds # {} THEN {"clone"} ELSE {})

HandlerStep(w) ==
  \/ Create(w) \/ GetVolume(w) \/ Clone(w) \/ Resize(w) \/ Delete(w)
  \/ RefreshList(w) \/ List(w) \/ Ask(w)
  \/ RefreshCopy(w) \/ Convert(w) \/ Converted(w) \/ GetCopied(w)
  \/ Stop(w) \/ Start(w) \/ Respond(w) \/ Raises(w)

Next ==
  \/ \E w \in Workers, j \in Jobs : Request(w, j)
  \/ \E w \in Workers : HandlerStep(w)
  \/ \E b \in builds : EndBuild(b)
  \/ Crash \/ HostReboot

Spec == Init /\ [][Next]_volumeVars

-----------------------------------------------------------------------------
(* A handler that had the pool to itself and answers with success has done *)
(* what was asked: the volume has the name with one more ".img", the size  *)
(* and the contents; a snapshot is complete and libvirt knows it.          *)
VolumeDone ==
  \A w \in Workers : At(w, "respond") /\ alone[w] =>
    LET j == job[w] IN
    CASE j.kind = "create" -> files[WithImg(j.name)] = [size |-> j.size, data |-> "blank"]
      [] j.kind = "clone"  -> files[WithImg(j.to)] = files[j.name]
      [] j.kind = "resize" -> files[j.name].size = j.size
      [] j.kind = "delete" -> j.name \notin Present
      [] j.kind = "copy"   -> /\ files[Image(j.name)] = [size |-> j.size, data |-> "image"]
                              /\ Image(j.name) \in known
      [] OTHER             -> TRUE

(* A list of the volumes of an active pool that is told shows every file   *)
(* that was in the pool all the time, unless the refresh was refused       *)
(* because libvirt built a volume.  An inactive pool is said to have as    *)
(* many volumes as the pool before it.                                     *)
ShownIsCurrent ==
  \A w \in Workers : At(w, "respond") /\ job[w].kind \in {"list", "storages"} =>
    \/ seen[w] \subseteq shown[w] /\ count[w] = Cardinality(shown[w])
    \/ stale[w]
    \/ shown[w] = {} /\ count[w] = OtherVolumes

(* A file of an active pool libvirt does not know is a snapshot that is    *)
(* being written, or one whose handler failed or died: the refresh behind  *)
(* qemu-img raises while libvirt builds a volume, and leaves the snapshot. *)
(* A volume with incomplete contents that nobody works on is left by a     *)
(* handler that failed or died, or by a snapshot written over a volume     *)
(* that was being built or cloned.                                         *)
LeftoversOnlyByFailure ==
  \A f \in Present :
    /\ active /\ f \notin known =>
         "copy" \in cut \/ \E w \in Busy : job[w].kind = "copy" /\ Target(job[w]) = f
    /\ files[f].data = "torn" =>
         together \/ cut \cap {"copy", "create", "clone"} # {}

=============================================================================
