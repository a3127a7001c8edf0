------------------------------- MODULE Virtance -------------------------------
(***************************************************************************)
(* The life of virtual machines: the handlers of main.py that create,      *)
(* rebuild, switch, resize, snapshot, restore, re-password and delete a    *)
(* virtance, with what they do to its libvirt domain, its image files and  *)
(* the snapshot files.                                                     *)
(*                                                                         *)
(* A handler is a plan of steps, each a call to libvirt, qemu-img or       *)
(* libguestfs.  Handlers run in threads and nothing keeps two of them off  *)
(* the same virtance; the daemon may die between two steps and the host    *)
(* may reboot.  External: qemu and its tools lock the image files they     *)
(* write (qemu-img convert -U reads without a lock, even what a guest is   *)
(* writing), libvirt refuses to shrink a volume and to start an active     *)
(* domain, and undefining an active domain leaves it running without a     *)
(* definition.                                                             *)
(***************************************************************************)
EXTENDS Naturals, Sequences

CONSTANTS
  Workers,      \* handler threads
  Virtances,    \* names of virtual machines; also of their primary images
  Snapshots,    \* names of files in the backup pool
  Jobs,         \* the requests: [kind, v, s, size, second]
  MaxRequests,  \* bound: requests in a behaviour
  Faults        \* whether libvirt, qemu-img and libguestfs may fail

Template == "template"  \* a downloaded template as the source of a copy
NoFile == "none"
TemplateSize == 1
NoSize == 0             \* a request without disk_size

ASSUME NamesAssumption ==
  /\ Virtances \cap Snapshots = {}
  /\ {Template, NoFile} \cap (Virtances \cup Snapshots) = {}
  /\ Faults \in BOOLEAN

(* model.py: the name of a snapshot is required where there is one.        *)
JobKinds == {"create", "rebuild", "power_on", "power_off", "power_cycle",
             "shutdown", "suspend", "resume", "resize", "snapshot", "restore",
             "reset_password", "delete"}

ASSUME JobsAssumption ==
  \A j \in Jobs :
    /\ j.kind \in JobKinds /\ j.v \in Virtances /\ j.s \in Snapshots \cup {NoFile}
    /\ j.size \in Nat /\ j.second \in BOOLEAN
    /\ j.kind \in {"snapshot", "restore"} => j.s # NoFile

VARIABLES
  dom,       \* dom[v]: libvirt's domain
  file,      \* file[x]: content and size of an image or snapshot file
  vdb,       \* vdb[v]: the secondary volume exists
  job,       \* job[w]: the request worker w serves
  todo,      \* todo[w]: the steps left
  held,      \* held[w]: content a copy or a libguestfs session works on
  requests,  \* bound: requests so far
  alone,     \* history: no other handler shared a file with this one
  sound,     \* history: no snapshot this handler copied was unfinished
  live,      \* history: handlers whose copy a guest disturbed by writing
  clean      \* history: since v was last made or deleted by a handler on its
             \* own, none failed, died or overlapped with another

realVars == <<dom, file, vdb, job, todo, held, requests>>
virtanceVars == <<realVars, alone, sound, live, clean>>

-----------------------------------------------------------------------------
(* Files.  A "half" image is being configured or was left so; "template"   *)
(* is a copied template that was not configured yet.                       *)
File(kind, owner, size) == [kind |-> kind, owner |-> owner, size |-> size]
Absent == File("absent", NoFile, NoSize)
Present(x) == file[x].kind # "absent"
Finished(content) == content.kind = "ready"

(* Domains.  A domain that is active without a definition is transient.    *)
NoDomain == [defined |-> FALSE, power |-> "shutoff", second |-> FALSE,
             holds |-> FALSE]
Active(v) == dom[v].power # "shutoff"
Exists(v) == dom[v].defined \/ Active(v)
Transient(v) == Active(v) /\ ~dom[v].defined

Busy == {w \in Workers : todo[w] # <<>>}
Uses(w) == {job[w].v, job[w].s} \ {NoFile}
WorkingOn(x) == {w \in Busy : x \in Uses(w)}

-----------------------------------------------------------------------------
(* Plans.                                                                  *)
S(do, x) == [do |-> do, x |-> x, from |-> NoFile]
Copy(from, x) == << [do |-> "copy_open", x |-> x, from |-> from],
                    [do |-> "copy_close", x |-> x, from |-> from] >>
Configure(x) == << S("guest_open", x), S("guest_close", x) >>

(* Stop the domain if get_state() does not say "shutoff".                  *)
Stop(v) == << S("get_state", v), S("destroy", v) >>

(* Template.download() and Image.deploy_template() with its _run().        *)
DeployTemplate(v) ==
  << S("download", v) >> \o Copy(Template, v) \o << S("resize", v) >>
    \o Configure(v)

(* Image.restore_copy() of a snapshot, then Image.deploy_image(): the      *)
(* second works on the same Image object, which is the snapshot's file.    *)
DeploySnapshot(s, v) ==
  << S("find_snapshot", s) >> \o Copy(s, v) \o << S("fit", v), S("resize", s) >>
    \o Configure(s)

SecondVolume(j) == IF j.second THEN << S("create_volume", j.v) >> ELSE <<>>

(* Errors of libvirt up to "pass" are ignored.                             *)
create(j) ==
  Stop(j.v) \o << S("undefine", j.v), S("pass", j.v) >>
    \o (IF j.s = NoFile THEN DeployTemplate(j.v) ELSE DeploySnapshot(j.s, j.v))
    \o SecondVolume(j)
    \o << S("define", j.v), S("start", j.v) >>

(* Mutants: the volume is not resized; the domain is started before the    *)
(* image is configured.                                                    *)
rebuild_unsized(j) ==
  Stop(j.v) \o << S("download", j.v) >> \o Copy(Template, j.v)
    \o Configure(j.v) \o SecondVolume(j) \o << S("start", j.v) >>

rebuild_started_early(j) ==
  Stop(j.v) \o << S("download", j.v) >> \o Copy(Template, j.v)
    \o << S("resize", j.v), S("start", j.v) >> \o Configure(j.v)

rebuild(j) ==
  Stop(j.v) \o DeployTemplate(j.v) \o SecondVolume(j) \o << S("start", j.v) >>

power_cycle(j) == << S("destroy", j.v), S("start", j.v) >>

resize(j) ==
  << S("require_shutoff", j.v), S("resize_resources", j.v) >>
    \o (IF j.size = NoSize THEN <<>>
        ELSE << S("get_disks", j.v), S("resize", j.v) >>)
    \o << S("start", j.v) >>

snapshot(j) == << S("get_disks", j.v) >> \o Copy(j.v, j.s)

restore(j) ==
  Stop(j.v) \o << S("get_disks", j.v), S("find_snapshot", j.s) >>
    \o Copy(j.s, j.v) \o << S("fit", j.v), S("start", j.v) >>

reset_password(j) ==
  << S("get_disks", j.v) >> \o Stop(j.v) \o Configure(j.v)
    \o << S("start", j.v) >>

(* Mutant: delete() looks for the disk under another name than "vda".      *)
delete_no_volume(j) ==
  Stop(j.v) \o << S("get_disks", j.v), S("undefine", j.v) >>

delete(j) ==
  Stop(j.v) \o << S("get_disks", j.v), S("delete_volume", j.v),
                  S("undefine", j.v) >>

Plan(j) ==
  (CASE j.kind = "create"         -> create(j)
     [] j.kind = "rebuild"        -> rebuild(j)
     [] j.kind = "power_on"       -> << S("start", j.v) >>
     [] j.kind = "power_off"      -> << S("destroy", j.v) >>
     [] j.kind = "power_cycle"    -> power_cycle(j)
     [] j.kind = "shutdown"       -> << S("shutdown", j.v) >>
     [] j.kind = "suspend"        -> << S("suspend", j.v) >>
     [] j.kind = "resume"         -> << S("resume", j.v) >>
     [] j.kind = "resize"         -> resize(j)
     [] j.kind = "snapshot"       -> snapshot(j)
     [] j.kind = "restore"        -> restore(j)
     [] j.kind = "reset_password" -> reset_password(j)
     [] j.kind = "delete"         -> delete(j))
  \o << S("respond", j.v) >>

-----------------------------------------------------------------------------
(* What a step finds.                                                      *)
Current(w) == Head(todo[w])
Doing(w, do) == w \in Busy /\ Current(w).do = do

(* get_state(): anything but running counts as "shutoff".                  *)
get_state(v) == IF dom[v].power = "running" THEN "running" ELSE "shutoff"

(* Locks of qemu on the file that has the name x now.                      *)
WrittenBy(x) == {w \in Busy : /\ Current(w).do \in {"copy_close", "guest_close"}
                              /\ Current(w).x = x
                              /\ held[w].kind # "absent"}
ReadBy(x) == {w \in Busy : Current(w).do = "copy_close" /\ Current(w).from = x}
InUse(x) ==
  \/ WrittenBy(x) # {}
  \/ x \in Virtances /\ Active(x) /\ dom[x].holds
  \/ x \in Snapshots /\ ReadBy(x) # {}

DisksPresent(v) == Present(v) /\ (dom[v].second => vdb[v])

(* Whether the volume of x may get the size asked for: never smaller.      *)
Fits(w, x) == Present(x) /\ file[x].size <= job[w].size

(* The conditions under which the current step of w does not raise.        *)
Possible(w) ==
  LET c == Current(w)
      x == c.x
  IN CASE c.do = "get_state"        -> Exists(x)
       [] c.do = "require_shutoff"  -> Exists(x) /\ get_state(x) = "shutoff"
       [] c.do = "resize_resources" -> Exists(x) /\ ~Active(x)
       [] c.do \in {"destroy", "shutdown", "suspend", "resume"} -> Active(x)
       [] c.do = "undefine"         -> dom[x].defined
       [] c.do = "get_disks"        -> Exists(x) /\ DisksPresent(x)
       [] c.do = "find_snapshot"    -> Present(x)
       [] c.do = "copy_open" ->
            /\ ~InUse(x)
            /\ c.from # Template => Present(c.from)
            /\ c.from \in Snapshots => WrittenBy(c.from) = {}
       [] c.do = "fit"              -> job[w].size # NoSize /\ Fits(w, x)
       [] c.do = "resize"           -> Fits(w, x)
       [] c.do = "guest_open" ->
            Present(x) /\ file[x].kind # "torn" /\ ~InUse(x)
       [] c.do = "create_volume"    -> ~vdb[x]
       [] c.do = "delete_volume"    -> Present(x)
       [] c.do = "start" ->
            dom[x].defined /\ ~Active(x) /\ DisksPresent(x) /\ WrittenBy(x) = {}
       [] c.do \in {"download", "copy_close", "guest_close", "define",
                    "pass", "respond"} -> TRUE

Skip(w, n) ==
  /\ todo' = [todo EXCEPT ![w] = SubSeq(@, n + 1, Len(@))]
  /\ UNCHANGED <<job, requests, alone, live, clean>>

(* The current step of w goes well and changes nothing but what is said.   *)
Perform(w, do) ==
  /\ Doing(w, do)
  /\ Possible(w)
  /\ Skip(w, 1)

Ends(w) ==
  /\ todo' = [todo EXCEPT ![w] = <<>>]
  /\ job' = [job EXCEPT ![w] = [kind |-> "none"]]
  /\ held' = [held EXCEPT ![w] = Absent]
  /\ live' = live \ {w}

(* A step raises: create() goes on behind the first section, whose         *)
(* libvirtError it ignores; any other handler, and create() later, answers *)
(* with an error and leaves everything as it is.                           *)
PassAt(w) == {i \in DOMAIN todo[w] : todo[w][i].do = "pass"}

StepRaises(w) ==
  /\ w \in Busy
  /\ Current(w).do \notin {"pass", "respond"}
  /\ ~Possible(w) \/ Faults
  /\ \/ /\ PassAt(w) # {}
        /\ Skip(w, CHOOSE i \in PassAt(w) : TRUE)
        /\ UNCHANGED held
     \/ /\ PassAt(w) = {}
        /\ Ends(w)
        /\ clean' = [clean EXCEPT ![job[w].v] = FALSE]
        /\ UNCHANGED <<requests, alone>>
  /\ UNCHANGED <<dom, file, vdb, sound>>

-----------------------------------------------------------------------------
Init ==
  /\ dom = [v \in Virtances |-> NoDomain]
  /\ file = [x \in Virtances \cup Snapshots |-> Absent]
  /\ vdb = [v \in Virtances |-> FALSE]
  /\ job = [w \in Workers |-> [kind |-> "none"]]
  /\ todo = [w \in Workers |-> <<>>]
  /\ held = [w \in Workers |-> Absent]
  /\ requests = 0
  /\ alone = [w \in Workers |-> TRUE]
  /\ sound = [w \in Workers |-> TRUE]
  /\ live = {}
  /\ clean = [v \in Virtances |-> TRUE]

Request(w, j) ==
  LET sharing == {u \in Busy : Uses(u) \cap {j.v, j.s} # {}} IN
  /\ w \notin Busy
  /\ requests < MaxRequests
  /\ requests' = requests + 1
  /\ job' = [job EXCEPT ![w] = j]
  /\ todo' = [todo EXCEPT ![w] = Plan(j)]
  /\ alone' = [u \in Workers |-> IF u = w THEN sharing = {}
                                 ELSE alone[u] /\ u \notin sharing]
  /\ sound' = [sound EXCEPT ![w] = TRUE]
  /\ clean' = [v \in Virtances |->
                 clean[v] /\ (sharing = {} \/ v \notin {j.v} \cup
                                             {job[u].v : u \in sharing})]
  /\ UNCHANGED <<dom, file, vdb, held, live>>

(* Steps that look at something, or that take effect later if at all:      *)
(* get_disk_device(), the search in the backup pools, the download, the    *)
(* resize of CPU and memory, and shutdown(), which asks the guest.         *)
Look(w) ==
  /\ \E do \in {"require_shutoff", "resize_resources", "get_disks",
                "find_snapshot", "download", "shutdown", "pass"} :
       Perform(w, do)
  /\ UNCHANGED <<dom, file, vdb, held, sound>>

(* Mutant: the domain is stopped if it is off.                             *)
GetStateInverted(w) ==
  /\ Doing(w, "get_state")
  /\ Possible(w)
  /\ Skip(w, IF get_state(Current(w).x) # "shutoff" THEN 2 ELSE 1)
  /\ UNCHANGED <<dom, file, vdb, held, sound>>

GetState(w) ==
  /\ Doing(w, "get_state")
  /\ Possible(w)
  /\ Skip(w, IF get_state(Current(w).x) = "shutoff" THEN 2 ELSE 1)
  /\ UNCHANGED <<dom, file, vdb, held, sound>>

(* The domain of v stops: a transient one is gone then.                    *)
Off(v) == IF dom[v].defined
          THEN [dom[v] EXCEPT !.power = "shutoff", !.holds = FALSE]
          ELSE NoDomain

Destroy(w) ==
  /\ Perform(w, "destroy")
  /\ dom' = [dom EXCEPT ![Current(w).x] = Off(Current(w).x)]
  /\ UNCHANGED <<file, vdb, held, sound>>

Undefine(w) ==
  /\ Perform(w, "undefine")
  /\ dom' = [dom EXCEPT ![Current(w).x] =
               IF Active(Current(w).x) THEN [@ EXCEPT !.defined = FALSE]
                                       ELSE NoDomain]
  /\ UNCHANGED <<file, vdb, held, sound>>

(* Mutant: the domain is created, and so started, instead of defined.      *)
CreateTransient(w) ==
  /\ Perform(w, "define")
  /\ dom' = [dom EXCEPT ![Current(w).x].power = "running",
                        ![Current(w).x].second = job[w].second]
  /\ UNCHANGED <<file, vdb, held, sound>>

Define(w) ==
  /\ Perform(w, "define")
  /\ dom' = [dom EXCEPT ![Current(w).x].defined = TRUE,
                        ![Current(w).x].second = job[w].second]
  /\ UNCHANGED <<file, vdb, held, sound>>

Start(w) ==
  /\ Perform(w, "start")
  /\ dom' = [dom EXCEPT ![Current(w).x].power = "running",
                        ![Current(w).x].holds = TRUE]
  /\ UNCHANGED <<file, vdb, held, sound>>

SuspendOrResume(w) ==
  /\ \/ /\ Perform(w, "suspend")
        /\ dom' = [dom EXCEPT ![Current(w).x].power = "paused"]
     \/ /\ Perform(w, "resume")
        /\ dom' = [dom EXCEPT ![Current(w).x].power = "running"]
  /\ UNCHANGED <<file, vdb, held, sound>>

-----------------------------------------------------------------------------
(* qemu-img convert: the target is truncated at once and complete at the   *)
(* end.  A source read without a lock (-U) while it is written makes a     *)
(* torn copy, whether a handler writes it or a guest (see GuestWrites).    *)
Torn(content) == [content EXCEPT !.kind = "torn"]

Source(from) ==
  IF from = Template THEN File("template", NoFile, TemplateSize)
  ELSE IF WrittenBy(from) # {} THEN Torn(file[from]) ELSE file[from]

(* What the handlers hold when w takes content c to write file x.          *)
Taking(w, x, c) ==
  [u \in Workers |-> IF u = w THEN c
                     ELSE IF u \in ReadBy(x) THEN Torn(held[u]) ELSE held[u]]

CopyOpen(w) ==
  LET x == Current(w).x
      c == Source(Current(w).from)
  IN /\ Perform(w, "copy_open")
     /\ file' = [file EXCEPT ![x] = Torn(c)]
     /\ held' = Taking(w, x, c)
     /\ UNCHANGED <<dom, vdb, sound>>

CopyClose(w) ==
  /\ Perform(w, "copy_close")
  /\ file' = IF held[w].kind = "absent" THEN file
             ELSE [file EXCEPT ![Current(w).x] = held[w]]
  /\ sound' = [sound EXCEPT ![w] =
                 @ /\ (held[w].kind = "ready" \/ Current(w).from \notin Snapshots)]
  /\ UNCHANGED <<dom, vdb, held>>

(* vol.resize(), of restore_copy() and of Image.resize().                  *)
Grow(w) ==
  /\ Perform(w, "fit") \/ Perform(w, "resize")
  /\ file' = [file EXCEPT ![Current(w).x].size = job[w].size]
  /\ UNCHANGED <<dom, vdb, held, sound>>

(* A libguestfs session: to configure an image for the virtance, or to     *)
(* change the password in it.                                              *)
GuestOpen(w) ==
  LET x == Current(w).x IN
  /\ Perform(w, "guest_open")
  /\ file' = [file EXCEPT ![x].kind = "half"]
  /\ held' = Taking(w, x, file[x])
  /\ UNCHANGED <<dom, vdb, sound>>

(* Mutant: what was configured is written under the name of the image,     *)
(* whether the image still exists or not.                                  *)
GuestCloseByName(w) ==
  LET x == Current(w).x IN
  /\ Perform(w, "guest_close")
  /\ file' = [file EXCEPT ![x].kind = "ready", ![x].owner = job[w].v]
  /\ UNCHANGED <<dom, vdb, held, sound>>

GuestClose(w) ==
  LET x == Current(w).x IN
  /\ Perform(w, "guest_close")
  /\ file' = IF held[w].kind = "absent" THEN file
             ELSE IF job[w].kind = "reset_password"
                  THEN [file EXCEPT ![x].kind = held[w].kind]
                  ELSE [file EXCEPT ![x].kind = "ready", ![x].owner = job[w].v]
  /\ UNCHANGED <<dom, vdb, held, sound>>

CreateVolume(w) ==
  /\ Perform(w, "create_volume")
  /\ vdb' = [vdb EXCEPT ![Current(w).x] = TRUE]
  /\ UNCHANGED <<dom, file, held, sound>>

(* vol.delete() unlinks the file: whoever has it open goes on with a file  *)
(* that has no name any more.                                              *)
DeleteVolume(w) ==
  LET x == Current(w).x IN
  /\ Perform(w, "delete_volume")
  /\ file' = [file EXCEPT ![x] = Absent]
  /\ dom' = [dom EXCEPT ![x].holds = FALSE]
  /\ held' = [u \in Workers |-> IF u \in WrittenBy(x) THEN Absent ELSE held[u]]
  /\ UNCHANGED <<vdb, sound>>

Respond(w) ==
  /\ Doing(w, "respond")
  /\ Ends(w)
  /\ clean' = [clean EXCEPT ![job[w].v] =
                 /\ alone[w] /\ sound[w]
                 /\ @ \/ job[w].kind \in {"create", "rebuild", "delete"}]
  /\ UNCHANGED <<dom, file, vdb, requests, alone, sound>>

-----------------------------------------------------------------------------
(* The environment.                                                        *)
GuestPowersOff(v) ==
  /\ dom[v].power = "running"
  /\ dom' = [dom EXCEPT ![v] = Off(v)]
  /\ UNCHANGED <<file, vdb, job, todo, held, requests, alone, sound, live, clean>>

(* A running guest writes its disk, so that what is being copied of it is  *)
(* of no single moment.  Writes that do a copy no harm are not steps.      *)
GuestWrites(v) ==
  /\ dom[v].power = "running" /\ dom[v].holds
  /\ ReadBy(v) # {}
  /\ held' = [u \in Workers |-> IF u \in ReadBy(v) THEN Torn(held[u]) ELSE held[u]]
  /\ live' = live \cup ReadBy(v)
  /\ UNCHANGED <<dom, file, vdb, job, todo, requests, alone, sound, clean>>

HandlersDie ==
  /\ todo' = [w \in Workers |-> <<>>]
  /\ job' = [w \in Workers |-> [kind |-> "none"]]
  /\ held' = [w \in Workers |-> Absent]
  /\ live' = {}
  /\ clean' = [v \in Virtances |-> clean[v] /\ WorkingOn(v) = {}]
  /\ UNCHANGED <<file, vdb, requests, alone, sound>>

(* The daemon dies, and with it the tools it runs.                         *)
Crash ==
  /\ Busy # {}
  /\ HandlersDie
  /\ UNCHANGED dom

(* The host reboots: libvirt starts the domains it can.  A domain whose    *)
(* create() ended between defineXML() and setAutostart() is not started.   *)
HostReboot ==
  /\ HandlersDie
  /\ \E up \in SUBSET {v \in Virtances : DisksPresent(v)} :
       dom' = [v \in Virtances |->
                 IF ~dom[v].defined THEN NoDomain
                 ELSE IF v \in up
                      THEN [dom[v] EXCEPT !.power = "running", !.holds = TRUE]
                      ELSE Off(v)]

HandlerStep(w) ==
  \/ StepRaises(w) \/ Look(w) \/ GetState(w)
  \/ Destroy(w) \/ Undefine(w) \/ Define(w) \/ Start(w) \/ SuspendOrResume(w)
  \/ CopyOpen(w) \/ CopyClose(w) \/ Grow(w) \/ GuestOpen(w) \/ GuestClose(w)
  \/ CreateVolume(w) \/ DeleteVolume(w) \/ Respond(w)

Next ==
  \/ \E w \in Workers, j \in Jobs : Request(w, j)
  \/ \E w \in Workers : HandlerStep(w)
  \/ \E v \in Virtances : GuestPowersOff(v) \/ GuestWrites(v)
  \/ Crash
  \/ HostReboot

Spec == Init /\ [][Next]_virtanceVars

-----------------------------------------------------------------------------
Kinds == {"absent", "torn", "template", "half", "ready"}
Contents == [kind : Kinds, owner : Virtances \cup {NoFile}, size : Nat]

TypeOK ==
  /\ dom \in [Virtances -> [defined : BOOLEAN, second : BOOLEAN, holds : BOOLEAN,
                            power : {"shutoff", "running", "paused"}]]
  /\ file \in [Virtances \cup Snapshots -> Contents]
  /\ vdb \in [Virtances -> BOOLEAN]
  /\ held \in [Workers -> Contents]
  /\ \A x \in Virtances \cup Snapshots : Present(x) <=> file[x].size # NoSize
  /\ \A v \in Virtances : dom[v].holds => Active(v)

(* A handler that had its virtance and its snapshot to itself and answers  *)
(* without an error has done what was asked, whatever failures, crashes    *)
(* and overlaps came before: the image is complete, of the size asked for  *)
(* and under a defined domain; the snapshot is what the image was, unless  *)
(* the guest ran and wrote while it was copied; the deleted virtance is    *)
(* gone, unless it was suspended.                                          *)
DoneAsReported ==
  \A w \in Workers : Doing(w, "respond") /\ alone[w] =>
    LET j == job[w]
        v == j.v
    IN CASE j.kind \in {"create", "rebuild", "restore"} ->
              /\ dom[v].defined
              /\ sound[w] => Finished(file[v])
              /\ file[v].size = j.size
         [] j.kind = "reset_password" ->
              dom[v].defined /\ (clean[v] => Finished(file[v]))
         [] j.kind = "snapshot" ->
              /\ file[j.s].size = file[v].size
              /\ w \notin live => file[j.s].kind = file[v].kind
         [] j.kind = "delete" ->
              /\ ~Present(v) /\ ~dom[v].defined
              /\ dom[v].power # "running"
         [] j.kind = "resize" -> j.size # NoSize => file[v].size = j.size
         [] OTHER -> TRUE

(* A definition without a finished image, or an image without a            *)
(* definition, is left only by a handler that answered with an error,      *)
(* died, or overlapped with another one.                                   *)
CleanIsConsistent ==
  \A v \in Virtances : clean[v] /\ WorkingOn(v) = {} =>
    /\ dom[v].defined => Finished(file[v])
    /\ ~Exists(v) => ~Present(v)

(* A domain runs on an unfinished image (booted by power_on, by autostart  *)
(* after a reboot, or by the handler itself) only after such a handler, or *)
(* when the snapshot it was restored from was unfinished itself.           *)
RunsOnFinishedImage ==
  \A v \in Virtances : clean[v] /\ Active(v) /\ dom[v].holds =>
    Finished(file[v]) \/ \E w \in WorkingOn(v) : ~sound[w]

(* A handler alone on its virtance takes away the definition of an active  *)
(* domain only if that is paused: get_state() calls it "shutoff".          *)
LeftRunningOnlyPaused ==
  [][\A w \in Workers, v \in Virtances :
       Undefine(w) /\ alone[w] /\ job[w].v = v /\ Transient(v)'
         => dom[v].power = "paused"]_virtanceVars

(* The virtance v as Lifecycle.tla sees it.                                *)
DomainOf(v) == IF Transient(v) THEN "orphan"
               ELSE IF Active(v) THEN "on"
               ELSE IF dom[v].defined THEN "off" ELSE "none"
ImageOf(v) == IF ~Present(v) THEN "none"
              ELSE IF Finished(file[v]) THEN "finished" ELSE "unfinished"

(* A virtance lives as Lifecycle.tla says, whatever handlers overlap, fail *)
(* or die: its domain starts from an image, and no handler writes an image *)
(* that an active domain has open.                                         *)
Life(v) == INSTANCE Lifecycle WITH
  domain <- DomainOf(v), image <- ImageOf(v), open <- dom[v].holds

ImplementsLifecycle ==
  /\ \A v \in Virtances : Life(v)!Init
  /\ [][\A v \in Virtances : [Life(v)!Next]_(Life(v)!lifeVars)]_virtanceVars

=============================================================================
