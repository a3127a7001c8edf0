-------------------------------- MODULE Media --------------------------------
(***************************************************************************)
(* The CD drive of a virtance: mount_iso() and umount_iso() of             *)
(* vrtmgr/libvrt.py read the whole XML of the domain, edit it, change the  *)
(* running domain and the definition, and at last define the whole domain  *)
(* again.  Meanwhile other handlers suspend, stop, resize or delete it.    *)
(*                                                                         *)
(* The domain of create_xml() has one CD drive, the last of its disks.     *)
(* External, libvirt: XMLDesc() tells the live XML of an active domain; a  *)
(* source element has an index in a live XML only; of two source elements  *)
(* in a device the first one counts, and an empty file name is no source;  *)
(* defineXML() makes or replaces the definition; the maximum memory of an  *)
(* active domain is not changed; a new maximum takes what is above it      *)
(* along, and nothing is set above its maximum.                            *)
(***************************************************************************)
EXTENDS Naturals

CONSTANTS
  Workers,
  Isos,         \* images that some active pool has
  Jobs,         \* the requests: [kind, image, dev, res]
  MaxRequests   \* bound: requests in a behaviour

Kinds == {"mount", "umount", "delete", "resize", "power_on", "power_off",
          "suspend", "resume"}

ASSUME JobsAssumption ==
  \A j \in Jobs : j.kind \in Kinds /\ j.dev \in BOOLEAN /\ j.res \in Nat
ASSUME BoundAssumption == MaxRequests \in Nat

VARIABLES
  dom,       \* libvirt's domain: [defined, power, cfg, live]
  disk,      \* the image of the virtance exists
  job,       \* job[w]: the request worker w serves
  step,      \* step[w]: the call it makes next
  tree,      \* tree[w]: the XML it edits, and whether that was a live one
  xmldom,    \* xmldom[w]: the XML it is going to define
  requests,  \* bound: requests so far
  asked,     \* history: the resources of the last resize_resources(), or
             \* Unsettled from its first call to its last
  read,      \* history: read[w]: tree[w] before it was edited
  alone,     \* history: no other handler ran at the same time
  together,  \* history: the sorts of handlers that ran at the same time
  cut        \* history: the sorts of handlers that failed or died

mediaVars == <<dom, disk, job, step, tree, xmldom, requests,
               asked, read, alone, together, cut>>

(* The resources of a domain: a request names one size for all of them.    *)
Parts == {"max_memory", "memory", "max_vcpu", "vcpu"}
Even(n) == [p \in Parts |-> n]
Unsettled == 0

Empty == "empty"
Unbound == [iso |-> Empty, res |-> Even(0)]
NoTree == [xml |-> Unbound, live |-> FALSE]
NoJob == [kind |-> "none"]

Active == dom.power # "shutoff"
Exists == dom.defined \/ Active
Busy == {w \in Workers : step[w] # "idle"}

MediaSteps == {"read", "if_running", "update_1", "live_1", "config_1", "reread",
               "if_shutoff", "update_2", "live_2", "config_2", "define"}
Steps == MediaSteps \cup Parts \cup
  {"idle", "respond", "get_state", "destroy", "delete_volume", "undefine",
   "power_on", "power_off", "suspend", "resume"}

Sort(j) == CASE j.kind \in {"mount", "umount"}    -> "media"
             [] j.kind \in {"delete", "resize"}   -> j.kind
             [] OTHER                             -> "power"

(* The file a request names; a name no pool has becomes an empty path.     *)
Path(j) == IF j.image \in Isos THEN j.image ELSE Empty

First(j) == CASE Sort(j) = "media" -> "read"
              [] Sort(j) = "power" -> j.kind
              [] OTHER             -> "get_state"

-----------------------------------------------------------------------------
Init ==
  /\ dom = [defined |-> TRUE, power |-> "shutoff",
            cfg |-> [iso |-> Empty, res |-> Even(1)], live |-> Unbound]
  /\ disk = TRUE
  /\ job = [w \in Workers |-> NoJob]
  /\ step = [w \in Workers |-> "idle"]
  /\ tree = [w \in Workers |-> NoTree]
  /\ xmldom = [w \in Workers |-> Unbound]
  /\ requests = 0
  /\ asked = 1
  /\ read = [w \in Workers |-> NoTree]
  /\ alone = [w \in Workers |-> TRUE]
  /\ together = {} /\ cut = {}

Request(w, j) ==
  /\ w \notin Busy
  /\ requests < MaxRequests
  /\ requests' = requests + 1
  /\ job' = [job EXCEPT ![w] = j]
  /\ step' = [step EXCEPT ![w] = First(j)]
  /\ alone' = [u \in Workers |-> IF u \in Busy \cup {w} THEN Busy = {} ELSE TRUE]
  /\ together' = together \cup {{Sort(j), Sort(job[u])} : u \in Busy}
  /\ UNCHANGED <<dom, disk, tree, xmldom, asked, read, cut>>

At(w, s) == step[w] = s
Goes(w, s) ==
  /\ step' = [step EXCEPT ![w] = s]
  /\ UNCHANGED <<job, requests, alone, together, cut>>
Keep == UNCHANGED <<dom, disk, tree, xmldom, asked, read>>

-----------------------------------------------------------------------------
(* mount_iso() and umount_iso().                                           *)

(* Mutant: the source is set whether it has an index or not.               *)
EditedAlways(j, t) ==
  IF ~j.dev THEN t ELSE [t EXCEPT !.xml.iso = Path(j)]

(* The device in the tree.  A request for a device the domain does not     *)
(* have edits nothing; a second source behind the first has no effect;     *)
(* umount takes the source away if it is the file named.                   *)
Edited(j, t) ==
  IF ~j.dev THEN t
  ELSE IF j.kind = "mount"
       THEN IF t.xml.iso # Empty /\ ~t.live THEN t
                                            ELSE [t EXCEPT !.xml.iso = Path(j)]
       ELSE IF t.xml.iso = j.image THEN [t EXCEPT !.xml.iso = Empty] ELSE t

Read(w) ==
  LET t == [xml |-> IF Active THEN dom.live ELSE dom.cfg, live |-> Active] IN
  /\ At(w, "read")
  /\ Exists
  /\ job[w].kind = "umount" /\ job[w].dev => t.xml.iso # Empty
  /\ tree' = [tree EXCEPT ![w] = Edited(job[w], t)]
  /\ read' = [read EXCEPT ![w] = t]
  /\ Goes(w, "if_running")
  /\ UNCHANGED <<dom, disk, xmldom, asked>>

(* The two tests of get_status().                                          *)
IfRunning(w) ==
  /\ At(w, "if_running")
  /\ Exists
  /\ Goes(w, IF dom.power = "running" THEN "update_1" ELSE "if_shutoff")
  /\ Keep

(* In neither state xmldom may be unbound: the handler raises.             *)
IfShutoff(w) ==
  /\ At(w, "if_shutoff")
  /\ Exists
  /\ \/ dom.power = "shutoff" /\ Goes(w, "update_2")
     \/ dom.power # "shutoff" /\ xmldom[w] # Unbound /\ Goes(w, "define")
  /\ Keep

(* updateDevice(): it asks for the status again.                           *)
UpdateStatus(w, here, live, config) ==
  /\ At(w, here)
  /\ Exists
  /\ Goes(w, IF dom.power = "running" THEN live ELSE config)
  /\ Keep

(* AFFECT_LIVE, which wants an active domain, or AFFECT_CURRENT, which     *)
(* takes the definition of an inactive one.                                *)
UpdateLive(w, here, current, config) ==
  /\ At(w, here)
  /\ Active \/ (current /\ dom.defined)
  /\ dom' = IF Active THEN [dom EXCEPT !.live.iso = tree[w].xml.iso]
                      ELSE [dom EXCEPT !.cfg.iso = tree[w].xml.iso]
  /\ Goes(w, config)
  /\ UNCHANGED <<disk, tree, xmldom, asked, read>>

UpdateConfig(w, here, next) ==
  /\ At(w, here)
  /\ dom.defined
  /\ dom' = [dom EXCEPT !.cfg.iso = tree[w].xml.iso]
  /\ Goes(w, next)
  /\ UNCHANGED <<disk, tree, asked, read>>

(* After the first update the XML is read again, the second one goes with  *)
(* the tree.                                                               *)
Reread(w) ==
  /\ At(w, "reread")
  /\ Exists
  /\ xmldom' = [xmldom EXCEPT ![w] = IF Active THEN dom.live ELSE dom.cfg]
  /\ Goes(w, "if_shutoff")
  /\ UNCHANGED <<dom, disk, tree, asked, read>>

Update(w) ==
  \/ UpdateStatus(w, "update_1", "live_1", "config_1")
  \/ UpdateLive(w, "live_1", FALSE, "config_1")
  \/ UpdateConfig(w, "config_1", "reread") /\ UNCHANGED xmldom
  \/ UpdateStatus(w, "update_2", "live_2", "config_2")
  \/ UpdateLive(w, "live_2", TRUE, "config_2")
  \/ /\ UpdateConfig(w, "config_2", "define")
     /\ xmldom' = [xmldom EXCEPT ![w] = tree[w].xml]

(* Mutant: the XML is made anew, with the resources of a new virtance.     *)
DefineAnew(w) ==
  /\ At(w, "define")
  /\ dom' = [dom EXCEPT !.defined = TRUE, !.cfg = [xmldom[w] EXCEPT !.res = Even(1)]]
  /\ Goes(w, "respond")
  /\ UNCHANGED <<disk, tree, xmldom, asked, read>>

Define(w) ==
  /\ At(w, "define")
  /\ dom' = [dom EXCEPT !.defined = TRUE, !.cfg = xmldom[w]]
  /\ Goes(w, "respond")
  /\ UNCHANGED <<disk, tree, xmldom, asked, read>>

-----------------------------------------------------------------------------
(* The other handlers.                                                     *)
Stopped(keep) ==
  [defined |-> keep, power |-> "shutoff",
   cfg |-> IF keep THEN dom.cfg ELSE Unbound, live |-> Unbound]

(* get_state(): only a running domain is not "shutoff".                    *)
GetState(w) ==
  /\ At(w, "get_state")
  /\ Exists
  /\ IF job[w].kind = "resize"
     THEN dom.power # "running" /\ Goes(w, "max_memory")
     ELSE Goes(w, IF dom.power = "running" THEN "destroy" ELSE "delete_volume")
  /\ Keep

Destroy(w) ==
  /\ At(w, "destroy") \/ At(w, "power_off")
  /\ Active
  /\ dom' = Stopped(dom.defined)
  /\ Goes(w, IF At(w, "destroy") THEN "delete_volume" ELSE "respond")
  /\ UNCHANGED <<disk, tree, xmldom, asked, read>>

(* Mutant: the definition is left.                                         *)
DeleteVolumeOnly(w) ==
  /\ At(w, "delete_volume")
  /\ disk
  /\ disk' = FALSE
  /\ Goes(w, "respond")
  /\ UNCHANGED <<dom, tree, xmldom, asked, read>>

DeleteVolume(w) ==
  /\ At(w, "delete_volume")
  /\ disk
  /\ disk' = FALSE
  /\ Goes(w, "undefine")
  /\ UNCHANGED <<dom, tree, xmldom, asked, read>>

Undefine(w) ==
  /\ At(w, "undefine")
  /\ dom.defined
  /\ dom' = IF Active THEN [dom EXCEPT !.defined = FALSE, !.cfg = Unbound]
                      ELSE Stopped(FALSE)
  /\ Goes(w, "respond")
  /\ UNCHANGED <<disk, tree, xmldom, asked, read>>

(* resize_resources(), call by call.  A new maximum of a resource takes    *)
(* along what was above it.                                                *)
Capped(res, max, now, n) ==
  [res EXCEPT ![max] = n, ![now] = IF @ > n THEN n ELSE @]

(* setMaxMemory().                                                         *)
SetMaxMemory(w) ==
  /\ At(w, "max_memory")
  /\ dom.defined /\ ~Active
  /\ dom' = [dom EXCEPT !.cfg.res = Capped(@, "max_memory", "memory", job[w].res)]
  /\ asked' = Unsettled
  /\ Goes(w, "memory")

(* setMemoryFlags(), of the definition.                                    *)
SetMemory(w) ==
  /\ At(w, "memory")
  /\ dom.defined /\ job[w].res <= dom.cfg.res["max_memory"]
  /\ dom' = [dom EXCEPT !.cfg.res["memory"] = job[w].res]
  /\ Goes(w, "max_vcpu")
  /\ UNCHANGED asked

(* setVcpusFlags() twice: the maximum of the definition, and the CPUs of a *)
(* running domain if there is one.                                         *)
SetMaxVcpus(w) ==
  /\ At(w, "max_vcpu")
  /\ dom.defined
  /\ dom' = [dom EXCEPT !.cfg.res = Capped(@, "max_vcpu", "vcpu", job[w].res)]
  /\ Goes(w, "vcpu")
  /\ UNCHANGED asked

SetVcpus(w) ==
  /\ At(w, "vcpu")
  /\ \/ /\ Active /\ job[w].res <= dom.live.res["max_vcpu"]
        /\ dom' = [dom EXCEPT !.live.res["vcpu"] = job[w].res]
     \/ /\ ~Active /\ dom.defined /\ job[w].res <= dom.cfg.res["max_vcpu"]
        /\ dom' = [dom EXCEPT !.cfg.res["vcpu"] = job[w].res]
  /\ asked' = job[w].res
  /\ Goes(w, "power_on")

(* Mutant: the CPUs are left as they are.                                  *)
ResizeMemoryOnly(w) ==
  /\ \/ SetMaxMemory(w)
     \/ SetMemory(w)
     \/ /\ At(w, "max_vcpu")
        /\ asked' = job[w].res
        /\ Goes(w, "power_on")
        /\ UNCHANGED dom
  /\ UNCHANGED <<disk, tree, xmldom, read>>

ResizeResources(w) ==
  /\ SetMaxMemory(w) \/ SetMemory(w) \/ SetMaxVcpus(w) \/ SetVcpus(w)
  /\ UNCHANGED <<disk, tree, xmldom, read>>

Start(w) ==
  /\ At(w, "power_on")
  /\ dom.defined /\ ~Active /\ disk
  /\ dom' = [dom EXCEPT !.power = "running", !.live = dom.cfg]
  /\ Goes(w, "respond")
  /\ UNCHANGED <<disk, tree, xmldom, asked, read>>

SuspendOrResume(w) ==
  /\ At(w, "suspend") \/ At(w, "resume")
  /\ Active
  /\ dom' = [dom EXCEPT !.power = IF At(w, "suspend") THEN "paused" ELSE "running"]
  /\ Goes(w, "respond")
  /\ UNCHANGED <<disk, tree, xmldom, asked, read>>

-----------------------------------------------------------------------------
Forget(W) ==
  /\ step' = [w \in Workers |-> IF w \in W THEN "idle" ELSE step[w]]
  /\ job' = [w \in Workers |-> IF w \in W THEN NoJob ELSE job[w]]
  /\ tree' = [w \in Workers |-> IF w \in W THEN NoTree ELSE tree[w]]
  /\ read' = [w \in Workers |-> IF w \in W THEN NoTree ELSE read[w]]
  /\ xmldom' = [w \in Workers |-> IF w \in W THEN Unbound ELSE xmldom[w]]
  /\ UNCHANGED <<disk, requests, asked, alone, together>>

Respond(w) ==
  /\ At(w, "respond")
  /\ Forget({w})
  /\ UNCHANGED <<dom, cut>>

(* A call raises: libvirtError, or the AttributeError of umount_iso() on   *)
(* an empty drive, or the unbound xmldom.                                  *)
Raises(w) ==
  /\ w \in Busy /\ ~At(w, "respond")
  /\ Forget({w})
  /\ cut' = cut \cup {Sort(job[w])}
  /\ UNCHANGED dom

Crash ==
  /\ Busy # {}
  /\ Forget(Busy)
  /\ cut' = cut \cup {Sort(job[w]) : w \in Busy}
  /\ UNCHANGED dom

(* A reboot of the host starts every domain it can.                        *)
HostReboot ==
  /\ Forget(Busy)
  /\ cut' = cut \cup {Sort(job[w]) : w \in Busy}
  /\ dom' = IF dom.defined /\ disk
            THEN [dom EXCEPT !.power = "running", !.live = dom.cfg]
            ELSE Stopped(dom.defined)

GuestPowersOff ==
  /\ dom.power = "running"
  /\ dom' = Stopped(dom.defined)
  /\ UNCHANGED <<disk, job, step, tree, xmldom, requests,
                 asked, read, alone, together, cut>>

Next ==
  \/ \E w \in Workers, j \in Jobs : Request(w, j)
  \/ \E w \in Workers :
       \/ Read(w) \/ IfRunning(w) \/ IfShutoff(w) \/ Update(w) \/ Reread(w)
       \/ Define(w) \/ GetState(w) \/ Destroy(w) \/ DeleteVolume(w) \/ Undefine(w)
       \/ ResizeResources(w) \/ Start(w) \/ SuspendOrResume(w)
       \/ Raises(w) \/ Respond(w)
  \/ Crash \/ HostReboot \/ GuestPowersOff

Spec == Init /\ [][Next]_mediaVars

-----------------------------------------------------------------------------
Settings == [iso : Isos \cup {Empty}, res : [Parts -> Nat]]
Trees == [xml : Settings, live : BOOLEAN]
Domains == [defined : BOOLEAN, power : {"shutoff", "running", "paused"},
            cfg : Settings, live : Settings]
Sorts == {"media", "delete", "resize", "power"}

TypeOK ==
  /\ dom \in Domains
  /\ disk \in BOOLEAN
  /\ job \in [Workers -> Jobs \cup {NoJob}]
  /\ step \in [Workers -> Steps]
  /\ tree \in [Workers -> Trees] /\ read \in [Workers -> Trees]
  /\ xmldom \in [Workers -> Settings]
  /\ requests \in 0..MaxRequests
  /\ asked \in Nat
  /\ alone \in [Workers -> BOOLEAN]
  /\ together \subseteq SUBSET Sorts /\ cut \subseteq Sorts

(* A handler that had the domain to itself and answers with success has    *)
(* put the image into the drive, or taken it out, in the definition and in *)
(* the running domain.  Three requests are answered with success and       *)
(* nothing done: a device the domain does not have, an image to take out   *)
(* that is another one, and an image for a drive that holds one while the  *)
(* domain is off (the second source); and an image no pool has empties the *)
(* drive.                                                                  *)
MediaDone ==
  \A w \in Workers : At(w, "respond") /\ Sort(job[w]) = "media" /\ alone[w] =>
    LET before == read[w].xml.iso
        j == job[w]
        after == IF \/ ~j.dev
                    \/ j.kind = "umount" /\ before # j.image
                    \/ j.kind = "mount" /\ before # Empty /\ ~read[w].live
                 THEN before
                 ELSE IF j.kind = "mount" THEN Path(j) ELSE Empty
    IN /\ dom.cfg.iso = after
       /\ Active => dom.live.iso = after

(* Once a resize has made all its calls, the definition has the CPUs and   *)
(* the memory it asked for and keeps them, whatever starts, fails or dies  *)
(* later.  That is lost if a mount or umount ran at the same time as the   *)
(* resize, which writes back the definition as it was when it read it, or  *)
(* another resize, or a power action: a domain that is started between two *)
(* of the calls gets the last one in its running CPUs only.  A resize that *)
(* failed or died between its calls leaves some of each, until the next.   *)
OnlyWithDelete == \A S \in together : "resize" \in S => S = {"resize", "delete"}

ResizeStands ==
  dom.defined /\ asked # Unsettled /\ OnlyWithDelete => dom.cfg.res = Even(asked)

(* A definition whose disk is gone is left by a delete that failed or died *)
(* half way, or written back by a mount or umount that ran at the same     *)
(* time as the delete, which brings the deleted domain back.               *)
DeletedStaysDeleted ==
  dom.defined /\ ~disk =>
    \/ \E w \in Busy : job[w].kind = "delete"
    \/ "delete" \in cut
    \/ {"media", "delete"} \in together

=============================================================================
