------------------------------ MODULE Media_proofs ------------------------------
(***************************************************************************)
(* Proofs about the module Media.                                          *)
(***************************************************************************)
EXTENDS Media, TLAPS

(* What a handler does fits the request it serves.                         *)
Control ==
  \A w \in Workers :
    /\ step[w] # "idle" => job[w] \in Jobs
    /\ step[w] \in MediaSteps => Sort(job[w]) = "media"
    /\ step[w] = "get_state" => job[w].kind \in {"delete", "resize"}
    /\ step[w] \in {"destroy", "delete_volume", "undefine"} => job[w].kind = "delete"
    /\ step[w] \in Parts => job[w].kind = "resize"
    /\ step[w] = "power_on" => job[w].kind \in {"resize", "power_on"}

(* Handlers that run at the same time are on record.                       *)
Overlap ==
  \A u, w \in Busy : u # w => {Sort(job[u]), Sort(job[w])} \in together

LEMMA SortOf ==
  ASSUME NEW j \in Jobs
  PROVE  /\ Sort(j) \in Sorts
         /\ (Sort(j) = "media") = (j.kind \in {"mount", "umount"})
         /\ (Sort(j) = "delete") = (j.kind = "delete")
         /\ (Sort(j) = "resize") = (j.kind = "resize")
  BY JobsAssumption DEF Sort, Sorts, Kinds

LEMMA FirstOf ==
  ASSUME NEW j \in Jobs
  PROVE  /\ First(j) \in Steps \ {"idle"}
         /\ First(j) \in MediaSteps => First(j) = "read" /\ Sort(j) = "media"
         /\ First(j) = "get_state" => j.kind \in {"delete", "resize"}
         /\ First(j) = "power_on" => j.kind = "power_on"
         /\ First(j) \notin {"destroy", "delete_volume", "undefine", "respond"} \cup Parts
  BY JobsAssumption DEF First, Sort, Kinds, Steps, MediaSteps, Parts

TInv == TypeOK /\ Control

LEMMA UnboundType == Unbound \in Settings /\ NoTree \in Trees
<1>1. Even(0) \in [Parts -> Nat]
  BY DEF Even
<1>2. QED
  BY <1>1 DEF Unbound, Settings, Empty, NoTree, Trees

LEMMA StoppedType ==
  ASSUME dom \in Domains, NEW keep \in BOOLEAN
  PROVE  Stopped(keep) \in Domains
  BY UnboundType DEF Stopped, Domains

(* What the calls of a resize make of the resources.                       *)
LEMMA CappedParts ==
  ASSUME NEW res \in [Parts -> Nat], NEW n \in Nat, NEW max \in Parts, NEW now \in Parts,
         max # now
  PROVE  /\ Capped(res, max, now, n) \in [Parts -> Nat]
         /\ Capped(res, max, now, n)[max] = n
         /\ \A p \in Parts \ {max, now} : Capped(res, max, now, n)[p] = res[p]
  BY DEF Capped

LEMMA InitTInv == Init => TInv
<1> SUFFICES ASSUME Init PROVE TInv
  OBVIOUS
<1>1. dom \in Domains
  <2>1. Even(1) \in [Parts -> Nat]
    BY DEF Even
  <2>2. [iso |-> Empty, res |-> Even(1)] \in Settings
    BY <2>1 DEF Settings
  <2>3. QED
    BY <2>2, UnboundType DEF Init, Domains
<1>2. TypeOK
  BY <1>1, BoundAssumption, UnboundType DEF Init, TypeOK, Sorts, Steps, MediaSteps, NoJob
<1>3. Control
  BY DEF Init, Control, MediaSteps, Parts
<1>4. QED
  BY <1>2, <1>3 DEF TInv

(* A request or the end of some handlers.                                  *)
LEMMA RequestTInv ==
  ASSUME TInv, NEW w \in Workers, NEW j \in Jobs, Request(w, j)
  PROVE  TInv'
<1>1. together' \subseteq SUBSET Sorts
  <2>1. \A u \in Busy : Sort(job[u]) \in Sorts /\ Sort(j) \in Sorts
    BY SortOf DEF TInv, TypeOK, Control, Busy
  <2>2. QED
    BY <2>1 DEF Request, TInv, TypeOK
<1>2. job' \in [Workers -> Jobs \cup {NoJob}] /\ step' \in [Workers -> Steps]
  BY FirstOf DEF Request, TInv, TypeOK
<1>3. alone' \in [Workers -> BOOLEAN]
  BY Zenon DEF Request
<1>4. requests' \in 0..MaxRequests
  BY BoundAssumption DEF Request, TInv, TypeOK
<1>5. TypeOK'
  BY <1>1, <1>2, <1>3, <1>4 DEF Request, TInv, TypeOK
<1>6. Control'
  BY FirstOf DEF Request, TInv, TypeOK, Control
<1>7. QED
  BY <1>5, <1>6 DEF TInv

LEMMA ForgetTInv ==
  ASSUME TInv, NEW W, Forget(W), dom' \in Domains,
         cut' \subseteq Sorts
  PROVE  TInv'
<1>1. TypeOK'
  BY UnboundType DEF Forget, TInv, TypeOK, NoJob, Steps
<1>2. Control'
  BY DEF Forget, TInv, TypeOK, Control, MediaSteps, Parts
<1>3. QED
  BY <1>1, <1>2 DEF TInv

LEMMA MediaTInv ==
  ASSUME TInv, NEW w \in Workers,
         \/ Read(w) \/ IfRunning(w) \/ IfShutoff(w) \/ Update(w) \/ Reread(w) \/ Define(w)
  PROVE  TInv'
<1>0. ASSUME NEW j \in Jobs, NEW t \in Trees PROVE Edited(j, t) \in Trees
  BY JobsAssumption DEF Edited, Trees, Settings, Path, Empty
<1>1. CASE Read(w)
  <2>1. job[w] \in Jobs
    BY <1>1 DEF Read, At, TInv, Control
  <2>2. [xml |-> IF Active THEN dom.live ELSE dom.cfg, live |-> Active] \in Trees
    BY DEF TInv, TypeOK, Domains, Trees, Active
  <2>3. QED
    BY <1>0, <1>1, <2>1, <2>2
       DEF Read, At, Goes, TInv, TypeOK, Control, Steps, MediaSteps, Parts
<1>2. CASE IfRunning(w)
  BY <1>2 DEF IfRunning, At, Goes, Keep, TInv, TypeOK, Control, Steps, MediaSteps, Parts
<1>3. CASE IfShutoff(w)
  BY <1>3 DEF IfShutoff, At, Goes, Keep, TInv, TypeOK, Control, Steps, MediaSteps, Parts
<1>4. CASE Update(w)
  <2>1. CASE UpdateStatus(w, "update_1", "live_1", "config_1")
             \/ UpdateStatus(w, "update_2", "live_2", "config_2")
    BY <2>1 DEF UpdateStatus, At, Goes, Keep, TInv, TypeOK, Control, Steps, MediaSteps, Parts
  <2>2. CASE UpdateLive(w, "live_1", FALSE, "config_1")
             \/ UpdateLive(w, "live_2", TRUE, "config_2")
    <3>1. /\ dom.live \in Settings /\ dom.cfg \in Settings
          /\ tree[w].xml.iso \in Isos \cup {Empty}
      BY DEF TInv, TypeOK, Domains, Trees, Settings
    <3>2. /\ [dom.live EXCEPT !.iso = tree[w].xml.iso] \in Settings
          /\ [dom.cfg EXCEPT !.iso = tree[w].xml.iso] \in Settings
      BY <3>1 DEF Settings
    <3>3. dom' \in Domains
      BY <2>2, <3>2 DEF UpdateLive, TInv, TypeOK, Domains
    <3>4. QED
      BY <2>2, <3>3 DEF UpdateLive, At, Goes, TInv, TypeOK, Control, Steps, MediaSteps, Parts
  <2>3. CASE UpdateConfig(w, "config_1", "reread") /\ UNCHANGED xmldom
    BY <2>3 DEF UpdateConfig, Domains, At, Goes, TInv, TypeOK, Control, Steps, MediaSteps,
           Parts, Trees, Settings
  <2>4. CASE /\ UpdateConfig(w, "config_2", "define")
             /\ xmldom' = [xmldom EXCEPT ![w] = tree[w].xml]
    BY <2>4 DEF UpdateConfig, Domains, At, Goes, TInv, TypeOK, Control, Steps, MediaSteps,
           Parts, Trees, Settings
  <2>5. QED
    BY <1>4, <2>1, <2>2, <2>3, <2>4 DEF Update
<1>5. CASE Reread(w)
  BY <1>5 DEF Reread, Domains, At, Goes, TInv, TypeOK, Control, Steps, MediaSteps, Parts
<1>6. CASE Define(w)
  BY <1>6 DEF Define, Domains, At, Goes, TInv, TypeOK, Control, Steps, MediaSteps, Parts
<1>7. QED
  BY <1>1, <1>2, <1>3, <1>4, <1>5, <1>6

(* One call of a resize changes one domain's XML, the maximum memory, the  *)
(* memory and the maximum CPUs in the definition.                          *)
LEMMA ResizeStep ==
  ASSUME TInv, NEW w \in Workers, ResizeResources(w)
  PROVE  /\ dom' \in Domains /\ asked' \in Nat /\ job[w].res \in Nat
         /\ dom'.defined = dom.defined /\ dom'.power = dom.power
         /\ dom'.cfg.iso = dom.cfg.iso /\ dom'.live.iso = dom.live.iso
         /\ step[w] \in Parts /\ job[w].kind = "resize"
         /\ step'[w] \in (Parts \ {"max_memory"}) \cup {"power_on"}
<1>1. /\ dom \in Domains /\ dom.cfg \in Settings /\ dom.live \in Settings
      /\ dom.cfg.res \in [Parts -> Nat] /\ dom.live.res \in [Parts -> Nat]
      /\ dom.cfg.iso \in Isos \cup {Empty} /\ dom.live.iso \in Isos \cup {Empty}
  BY DEF TInv, TypeOK, Domains, Settings
<1>2. step[w] \in Parts
  BY DEF ResizeResources, SetMaxMemory, SetMemory, SetMaxVcpus, SetVcpus, At, Parts
<1>3. job[w] \in Jobs /\ job[w].kind = "resize" /\ step[w] # "idle"
  BY <1>2 DEF TInv, Control, Parts
<1>4. PICK n : n = job[w].res
  OBVIOUS
<1>5. n \in Nat
  BY <1>3, <1>4, JobsAssumption
<1>6. \/ /\ \E r \in [Parts -> Nat] : dom' = [dom EXCEPT !.cfg.res = r]
      \/ /\ \E r \in [Parts -> Nat] : dom' = [dom EXCEPT !.live.res = r]
  <2>1. CASE SetMaxMemory(w)
    <3>1. Capped(dom.cfg.res, "max_memory", "memory", n) \in [Parts -> Nat]
      BY <1>1, <1>5, CappedParts DEF Parts
    <3>2. QED
      BY <1>4, <2>1, <3>1 DEF SetMaxMemory
  <2>2. CASE SetMemory(w)
    <3>1. [dom.cfg.res EXCEPT !["memory"] = n] \in [Parts -> Nat]
      BY <1>1, <1>5
    <3>2. QED
      BY <1>4, <2>2, <3>1 DEF SetMemory
  <2>3. CASE SetMaxVcpus(w)
    <3>1. Capped(dom.cfg.res, "max_vcpu", "vcpu", n) \in [Parts -> Nat]
      BY <1>1, <1>5, CappedParts DEF Parts
    <3>2. QED
      BY <1>4, <2>3, <3>1 DEF SetMaxVcpus
  <2>4. CASE SetVcpus(w)
    <3>1. /\ [dom.cfg.res EXCEPT !["vcpu"] = n] \in [Parts -> Nat]
          /\ [dom.live.res EXCEPT !["vcpu"] = n] \in [Parts -> Nat]
      BY <1>1, <1>5
    <3>2. QED
      BY <1>4, <2>4, <3>1 DEF SetVcpus
  <2>5. QED
    BY <2>1, <2>2, <2>3, <2>4 DEF ResizeResources
<1>7. /\ dom' \in Domains /\ dom'.defined = dom.defined /\ dom'.power = dom.power
      /\ dom'.cfg.iso = dom.cfg.iso /\ dom'.live.iso = dom.live.iso
  BY <1>1, <1>6 DEF Domains, Settings
<1>8. asked' \in Nat
  BY <1>4, <1>5 DEF ResizeResources, SetMaxMemory, SetMemory, SetMaxVcpus, SetVcpus, Unsettled,
     TInv, TypeOK
<1>9. step'[w] \in (Parts \ {"max_memory"}) \cup {"power_on"}
  BY DEF ResizeResources, SetMaxMemory, SetMemory, SetMaxVcpus, SetVcpus, Goes, Parts,
         TInv, TypeOK
<1>10. QED
  BY <1>2, <1>3, <1>4, <1>5, <1>7, <1>8, <1>9

(* The rest of such a call.                                                *)
LEMMA ResizeRest ==
  ASSUME NEW w, ResizeResources(w)
  PROVE  /\ UNCHANGED <<disk, tree, xmldom, read>>
         /\ \E s : Goes(w, s)
  BY DEF ResizeResources, SetMaxMemory, SetMemory, SetMaxVcpus, SetVcpus

LEMMA ResizeTInv ==
  ASSUME TInv, NEW w \in Workers, ResizeResources(w)
  PROVE  TInv'
<1>1. PICK s : Goes(w, s)
  BY ResizeRest
<1>2. step' = [step EXCEPT ![w] = s] /\ UNCHANGED <<job, requests, alone, together, cut>>
  BY <1>1 DEF Goes
<1>3. s \in (Parts \ {"max_memory"}) \cup {"power_on"}
  BY <1>2, ResizeStep DEF TInv, TypeOK
<1>4. TypeOK'
  BY <1>2, <1>3, ResizeStep, ResizeRest DEF TInv, TypeOK, Steps
<1>5. Control'
  BY <1>2, <1>3, ResizeStep DEF TInv, TypeOK, Control, Parts, MediaSteps
<1>6. QED
  BY <1>4, <1>5 DEF TInv

LEMMA OtherTInv ==
  ASSUME TInv, NEW w \in Workers,
         \/ GetState(w) \/ Destroy(w) \/ DeleteVolume(w) \/ Undefine(w)
         \/ ResizeResources(w) \/ Start(w) \/ SuspendOrResume(w)
  PROVE  TInv'
<1>1. CASE GetState(w)
  BY <1>1 DEF GetState, At, Goes, Keep, TInv, TypeOK, Control, Steps, MediaSteps, Parts
<1>2. CASE Destroy(w)
  <2>1. dom' \in Domains
    BY <1>2, StoppedType DEF Destroy, TInv, TypeOK, Domains
  <2>2. QED
    BY <1>2, <2>1 DEF Destroy, At, Goes, TInv, TypeOK, Control, Steps, MediaSteps, Parts
<1>3. CASE DeleteVolume(w)
  BY <1>3 DEF DeleteVolume, At, Goes, TInv, TypeOK, Control, Steps, MediaSteps, Parts
<1>4. CASE Undefine(w)
  <2>1. dom' \in Domains
    BY <1>4, StoppedType, UnboundType DEF Undefine, TInv, TypeOK, Domains
  <2>2. QED
    BY <1>4, <2>1 DEF Undefine, At, Goes, TInv, TypeOK, Control, Steps, MediaSteps, Parts
<1>5. CASE ResizeResources(w)
  BY <1>5, ResizeTInv
<1>6. CASE Start(w)
  BY <1>6 DEF Start, Domains, At, Goes, TInv, TypeOK, Control, Steps, MediaSteps, Parts
<1>7. CASE SuspendOrResume(w)
  BY <1>7 DEF SuspendOrResume, Domains, At, Goes, TInv, TypeOK, Control, Steps,
         MediaSteps, Parts
<1>8. QED
  BY <1>1, <1>2, <1>3, <1>4, <1>5, <1>6, <1>7

LEMMA SortsOfBusy ==
  ASSUME TInv
  PROVE  {Sort(job[w]) : w \in Busy} \subseteq Sorts
  BY SortOf DEF TInv, TypeOK, Control, Busy

LEMMA EndsTInv ==
  ASSUME TInv,
         \/ \E w \in Workers : Raises(w) \/ Respond(w)
         \/ Crash \/ HostReboot
  PROVE  TInv'
<1>1. ASSUME NEW w \in Workers, Raises(w) PROVE TInv'
  BY <1>1, ForgetTInv, SortsOfBusy DEF Raises, TInv, TypeOK
<1>2. ASSUME NEW w \in Workers, Respond(w) PROVE TInv'
  BY <1>2, ForgetTInv DEF Respond, TInv, TypeOK
<1>3. CASE Crash
  BY <1>3, ForgetTInv, SortsOfBusy DEF Crash, TInv, TypeOK
<1>4. CASE HostReboot
  <2>1. dom' \in Domains
    BY <1>4, StoppedType DEF HostReboot, TInv, TypeOK, Domains
  <2>2. QED
    BY <1>4, <2>1, ForgetTInv, SortsOfBusy DEF HostReboot, TInv, TypeOK
<1>5. QED
  BY <1>1, <1>2, <1>3, <1>4

LEMMA GuestTInv == TInv /\ GuestPowersOff => TInv'
<1>1. TInv /\ GuestPowersOff => dom' \in Domains
  BY StoppedType DEF GuestPowersOff, TInv, TypeOK, Domains
<1>2. QED
  BY <1>1 DEF GuestPowersOff, TInv, TypeOK, Control

LEMMA StutterTInv == TInv /\ UNCHANGED mediaVars => TInv'
  BY DEF mediaVars, TInv, TypeOK, Control

(* For any number of handlers and images the variables keep their types,   *)
(* and every handler is at a call of the request it serves.                *)
THEOREM TypeCorrect == Spec => []TypeOK
<1>1. TInv /\ [Next]_mediaVars => TInv'
  BY RequestTInv, MediaTInv, OtherTInv, EndsTInv, GuestTInv, StutterTInv DEF Next
<1>2. TInv => TypeOK
  BY DEF TInv
<1>3. QED
  BY <1>1, <1>2, InitTInv, PTL DEF Spec

-----------------------------------------------------------------------------
(* Past its updates a mount or umount handler has found a definition, which *)
(* only a delete that runs at the same time takes away.                    *)
Late(w) == step[w] \in {"reread", "define"}
           \/ (step[w] = "if_shutoff" /\ xmldom[w] # Unbound)

LateIsDefined ==
  {"media", "delete"} \notin together => \A w \in Workers : Late(w) => dom.defined

Deleted ==
  dom.defined /\ ~disk =>
    \/ \E w \in Workers : step[w] = "undefine"
    \/ "delete" \in cut
    \/ {"media", "delete"} \in together

(* The XML to define is bound when the updates are done.                   *)
Fresh ==
  \A w \in Workers :
    step[w] \in {"idle", "read", "if_running", "update_1", "live_1", "config_1"} =>
      xmldom[w] = Unbound

DInv == TInv /\ Overlap /\ Fresh /\ LateIsDefined /\ Deleted

(* What a step does that is neither a request nor the end of a handler.    *)
Moves(w) ==
  /\ step[w] # "idle"
  /\ \E s \in Steps : step' = [step EXCEPT ![w] = s]
  /\ UNCHANGED <<job, together, cut>>

LEMMA MovesOverlap ==
  ASSUME TypeOK, Overlap, NEW w \in Workers, Moves(w)
  PROVE  Overlap'
  BY DEF Moves, TypeOK, Overlap, Busy, Sort

LEMMA InitDInv == Init => DInv
  BY InitTInv DEF Init, DInv, Overlap, Fresh, Busy, LateIsDefined, Late, Deleted

LEMMA RequestDInv ==
  ASSUME DInv, NEW w \in Workers, NEW j \in Jobs, Request(w, j)
  PROVE  DInv'
<1>1. TInv'
  BY RequestTInv DEF DInv
<1>2. Overlap'
  <2> SUFFICES ASSUME NEW u \in Busy', NEW v \in Busy', u # v
               PROVE  {Sort(job'[u]), Sort(job'[v])} \in together'
    BY DEF Overlap, Sort
  <2>1. CASE u # w /\ v # w
    BY <2>1 DEF Request, DInv, TInv, TypeOK, Overlap, Busy
  <2>2. CASE u = w
    <3>1. v \in Busy /\ job'[u] = j /\ job'[v] = job[v]
      BY <2>2 DEF Request, DInv, TInv, TypeOK, Busy
    <3>2. QED
      BY <3>1 DEF Request
  <2>3. CASE v = w
    <3>1. u \in Busy /\ job'[v] = j /\ job'[u] = job[u]
      BY <2>3 DEF Request, DInv, TInv, TypeOK, Busy
    <3>2. {Sort(j), Sort(job[u])} = {Sort(job[u]), Sort(j)}
      OBVIOUS
    <3>3. QED
      BY <3>1, <3>2 DEF Request
  <2>4. QED
    BY <2>1, <2>2, <2>3
<1>3. \A u \in Workers : /\ step'[u] # step[u] => step'[u] \notin {"reread", "define", "if_shutoff"}
                         /\ step[u] = "undefine" => step'[u] = "undefine"
  BY FirstOf DEF Request, DInv, TInv, TypeOK, MediaSteps, Busy
<1>4. together \subseteq together'
  BY DEF Request
<1>5. LateIsDefined'
  BY <1>3, <1>4 DEF Request, DInv, LateIsDefined, Late
<1>6. Deleted'
  BY <1>3, <1>4 DEF Request, DInv, Deleted
<1>7. Fresh'
  BY DEF Request, DInv, TInv, TypeOK, Fresh, Busy
<1>8. QED
  BY <1>1, <1>2, <1>5, <1>6, <1>7 DEF DInv
MediaStep(w) ==
  Read(w) \/ IfRunning(w) \/ IfShutoff(w) \/ Update(w) \/ Reread(w) \/ Define(w)
OtherStep(w) ==
  \/ GetState(w) \/ Destroy(w) \/ DeleteVolume(w) \/ Undefine(w)
  \/ ResizeResources(w) \/ Start(w) \/ SuspendOrResume(w)

LEMMA StepMoves ==
  ASSUME NEW w \in Workers, MediaStep(w) \/ OtherStep(w)
  PROVE  Moves(w)
<1>1. CASE MediaStep(w)
  BY <1>1 DEF MediaStep, Read, IfRunning, IfShutoff, Update, UpdateStatus, UpdateLive,
              UpdateConfig, Reread, Define, At, Goes, Moves, Steps, MediaSteps
<1>2. CASE OtherStep(w)
  BY <1>2 DEF OtherStep, GetState, Destroy, DeleteVolume, Undefine, ResizeResources,
         SetMaxMemory, SetMemory, SetMaxVcpus, SetVcpus, Parts, Start,
              SuspendOrResume, At, Goes, Moves, Steps
<1>3. QED
  BY <1>1, <1>2

LEMMA StepTInv ==
  ASSUME TInv, NEW w \in Workers, MediaStep(w) \/ OtherStep(w)
  PROVE  TInv'
  BY MediaTInv, OtherTInv DEF MediaStep, OtherStep

LEMMA StepFresh ==
  ASSUME TypeOK, Fresh, NEW w \in Workers, MediaStep(w) \/ OtherStep(w)
  PROVE  Fresh'
<1>1. CASE MediaStep(w)
  BY <1>1 DEF MediaStep, Read, IfRunning, IfShutoff, Update, UpdateStatus, UpdateLive,
              UpdateConfig, Reread, Define, At, Goes, Keep, TypeOK, Fresh
<1>2. CASE OtherStep(w)
  BY <1>2 DEF OtherStep, GetState, Destroy, DeleteVolume, Undefine, ResizeResources,
         SetMaxMemory, SetMemory, SetMaxVcpus, SetVcpus, Parts, Start,
              SuspendOrResume, At, Goes, Keep, TypeOK, Fresh
<1>3. QED
  BY <1>1, <1>2

LEMMA StepBase ==
  ASSUME DInv, NEW w \in Workers, MediaStep(w) \/ OtherStep(w)
  PROVE  /\ TInv' /\ Overlap' /\ Fresh' /\ UNCHANGED <<job, together, cut>>
         /\ \A u \in Workers \ {w} : step'[u] = step[u]
         /\ \A u \in Workers \ {w} : xmldom'[u] = xmldom[u]
<1>1. TInv' /\ Overlap' /\ Fresh' /\ Moves(w)
  BY StepTInv, StepMoves, StepFresh, MovesOverlap DEF DInv, TInv
<1>2. \A u \in Workers \ {w} : xmldom'[u] = xmldom[u]
  BY DEF MediaStep, Read, IfRunning, IfShutoff, Update, UpdateStatus, UpdateLive,
         UpdateConfig, Reread, Define, Keep, OtherStep, GetState, Destroy, DeleteVolume,
         Undefine, ResizeResources, SetMaxMemory, SetMemory, SetMaxVcpus, SetVcpus, Parts,
         Start, SuspendOrResume, DInv, TInv, TypeOK
<1>3. QED
  BY <1>1, <1>2 DEF Moves, DInv, TInv, TypeOK

(* A step that leaves the definition and the disk, and does not make a     *)
(* handler late without a definition.                                      *)
LEMMA QuietDInv ==
  ASSUME DInv, NEW w \in Workers, MediaStep(w) \/ OtherStep(w),
         dom'.defined = dom.defined, disk' = disk, step[w] # "undefine",
         Late(w)' => Late(w) \/ dom.defined
  PROVE  DInv'
<1>1. LateIsDefined'
  BY StepBase DEF DInv, LateIsDefined, Late
<1>2. Deleted'
  BY StepBase DEF DInv, Deleted
<1>3. QED
  BY <1>1, <1>2, StepBase DEF DInv

LEMMA MediaDInv ==
  ASSUME DInv, NEW w \in Workers, MediaStep(w)
  PROVE  DInv'
<1>1. CASE Read(w) \/ IfRunning(w) \/ IfShutoff(w) \/ Reread(w)
  <2>1. /\ dom'.defined = dom.defined /\ disk' = disk /\ step[w] # "undefine"
        /\ Late(w)' => Late(w) \/ dom.defined
    BY <1>1 DEF Read, IfRunning, IfShutoff, Reread, At, Goes, Keep, Late, DInv, TInv, TypeOK,
                Fresh
  <2>2. QED
    BY <2>1, QuietDInv
<1>2. CASE Update(w)
  <2>1. dom'.defined = dom.defined
    BY <1>2 DEF Update, UpdateStatus, UpdateLive, UpdateConfig, Keep, DInv, TInv, TypeOK,
           Domains
  <2>2. /\ disk' = disk /\ step[w] # "undefine"
        /\ Late(w)' => Late(w) \/ dom.defined
    BY <1>2 DEF Update, UpdateStatus, UpdateLive, UpdateConfig, At, Goes, Keep, Late,
                DInv, TInv, TypeOK
  <2>3. QED
    BY <2>1, <2>2, QuietDInv
<1>3. CASE Define(w)
  <2>1. Late(w) /\ disk' = disk /\ dom'.defined /\ step[w] # "undefine"
    BY <1>3 DEF Define, At, Late, DInv, TInv, TypeOK, Domains
  <2>2. LateIsDefined'
    BY <2>1 DEF LateIsDefined
  <2>3. Deleted'
    BY <2>1, StepBase DEF DInv, LateIsDefined, Deleted
  <2>4. QED
    BY <2>2, <2>3, StepBase DEF DInv
<1>4. QED
  BY <1>1, <1>2, <1>3 DEF MediaStep

LEMMA OtherDInv ==
  ASSUME DInv, NEW w \in Workers, OtherStep(w)
  PROVE  DInv'
<1>1. CASE \/ GetState(w) \/ Destroy(w) \/ ResizeResources(w) \/ Start(w)
           \/ SuspendOrResume(w)
  <2>1. dom'.defined = dom.defined
    <3>1. CASE GetState(w)
      BY <3>1 DEF GetState, Keep
    <3>2. CASE Destroy(w)
      BY <3>2 DEF Destroy, Stopped
    <3>3. CASE ResizeResources(w)
      BY <3>3, ResizeStep DEF DInv
    <3>4. CASE Start(w)
      BY <3>4 DEF Start, DInv, TInv, TypeOK, Domains
    <3>5. CASE SuspendOrResume(w)
      BY <3>5 DEF SuspendOrResume, DInv, TInv, TypeOK, Domains
    <3>6. QED
      BY <1>1, <3>1, <3>2, <3>3, <3>4, <3>5
  <2>2. disk' = disk /\ step[w] # "undefine" /\ ~Late(w)'
    BY <1>1 DEF GetState, Destroy, ResizeResources, SetMaxMemory, SetMemory, SetMaxVcpus,
           SetVcpus, Parts, Start, SuspendOrResume, At, Goes, Keep,
                Late, DInv, TInv, TypeOK
  <2>3. QED
    BY <2>1, <2>2, QuietDInv
<1>2. CASE DeleteVolume(w)
  <2>1. dom' = dom /\ step'[w] = "undefine"
    BY <1>2 DEF DeleteVolume, Goes, DInv, TInv, TypeOK
  <2>2. LateIsDefined'
    BY <2>1, StepBase DEF DInv, LateIsDefined, Late
  <2>3. QED
    BY <2>1, <2>2, StepBase DEF DInv, Deleted
<1>3. CASE Undefine(w)
  <2>1. ~dom'.defined
    BY <1>3 DEF Undefine, Stopped, DInv, TInv, TypeOK, Domains
  <2>2. step[w] = "undefine" /\ step'[w] = "respond"
    BY <1>3 DEF Undefine, At, Goes, DInv, TInv, TypeOK
  <2>3. ASSUME NEW u \in Workers, Late(u)' PROVE {"media", "delete"} \in together'
    <3>1. u # w /\ Late(u)
      BY <2>2, <2>3, StepBase DEF Late
    <3>2. Sort(job[u]) = "media" /\ u \in Busy
      BY <3>1 DEF DInv, TInv, Control, Late, Busy, MediaSteps
    <3>3. Sort(job[w]) = "delete" /\ w \in Busy
      BY <2>2, SortOf DEF DInv, TInv, Control, Busy
    <3>4. QED
      BY <3>1, <3>2, <3>3, StepBase DEF DInv, Overlap
  <2>4. QED
    BY <2>1, <2>3, StepBase DEF DInv, LateIsDefined, Deleted
<1>4. QED
  BY <1>1, <1>2, <1>3 DEF OtherStep

(* The end of handlers: what they leave behind is on record.               *)
LEMMA ForgetDInv ==
  ASSUME DInv, NEW W \in SUBSET Workers, Forget(W), TInv',
         dom'.defined = dom.defined, cut \subseteq cut',
         \A w \in W : step[w] = "undefine" => "delete" \in cut'
  PROVE  DInv'
<1>1. \A w \in Workers : IF w \in W THEN step'[w] = "idle" /\ xmldom'[w] = Unbound
                         ELSE /\ step'[w] = step[w] /\ xmldom'[w] = xmldom[w]
                              /\ job'[w] = job[w]
  BY DEF Forget
<1>2. Overlap'
  BY <1>1 DEF Forget, DInv, Overlap, Busy, Sort
<1>3. Fresh' /\ LateIsDefined'
  BY <1>1 DEF Forget, DInv, Fresh, LateIsDefined, Late
<1>4. Deleted'
  BY <1>1 DEF Forget, DInv, Deleted
<1>5. QED
  BY <1>2, <1>3, <1>4 DEF DInv

LEMMA EndsDInv ==
  ASSUME DInv, \/ \E w \in Workers : Raises(w) \/ Respond(w)
               \/ Crash \/ HostReboot
  PROVE  DInv'
<1>1. TInv'
  BY EndsTInv DEF DInv
<1>2. \A w \in Workers : step[w] = "undefine" => w \in Busy /\ Sort(job[w]) = "delete"
  BY SortOf DEF DInv, TInv, Control, Busy
<1>3. ASSUME NEW w \in Workers, Raises(w) PROVE DInv'
  BY <1>1, <1>2, <1>3, ForgetDInv DEF Raises
<1>4. ASSUME NEW w \in Workers, Respond(w) PROVE DInv'
  BY <1>1, <1>4, ForgetDInv DEF Respond, At
<1>5. CASE Crash
  BY <1>1, <1>2, <1>5, ForgetDInv DEF Crash, Busy
<1>6. CASE HostReboot
  <2>1. dom'.defined = dom.defined
    BY <1>6 DEF HostReboot, Stopped, DInv, TInv, TypeOK, Domains
  <2>2. QED
    BY <1>1, <1>2, <1>6, <2>1, ForgetDInv DEF HostReboot, Busy
<1>7. QED
  BY <1>3, <1>4, <1>5, <1>6

LEMMA RestDInv ==
  ASSUME DInv, GuestPowersOff \/ UNCHANGED mediaVars
  PROVE  DInv'
<1>1. TInv'
  BY GuestTInv, StutterTInv DEF DInv
<1>2. /\ dom'.defined = dom.defined
      /\ UNCHANGED <<disk, job, step, xmldom, together, cut>>
  BY DEF GuestPowersOff, Stopped, mediaVars
<1>3. QED
  BY <1>1, <1>2 DEF DInv, Overlap, Fresh, LateIsDefined, Late, Deleted, Busy, Sort

LEMMA NextDInv == DInv /\ [Next]_mediaVars => DInv'
<1>1. ASSUME DInv, Next PROVE DInv'
  BY <1>1, RequestDInv, MediaDInv, OtherDInv, EndsDInv, RestDInv
     DEF Next, MediaStep, OtherStep
<1>2. QED
  BY <1>1, RestDInv

(* For any number of handlers: a definition without a disk is left by a    *)
(* delete that failed or died, or by a mount or umount at the same time.   *)
THEOREM DeletedStays == Spec => []DeletedStaysDeleted
<1>1. DInv => DeletedStaysDeleted
  BY DEF DInv, TInv, Control, Deleted, DeletedStaysDeleted, Busy
<1>2. QED
  BY <1>1, InitDInv, NextDInv, PTL DEF Spec

-----------------------------------------------------------------------------
(* Unless a resize ran at the same time as another handler that is not a   *)
(* delete, every copy of the XML has the resources last asked for, from    *)
(* the last call of a resize to the first one of the next.                 *)
Bound(w) == step[w] = "define" \/ (step[w] = "if_shutoff" /\ xmldom[w] # Unbound)

Wanted == OnlyWithDelete /\ asked # Unsettled

Resources ==
  Wanted =>
    /\ dom.defined => dom.cfg.res = Even(asked)
    /\ Active => dom.live.res = Even(asked)
    /\ \A w \in Workers :
         /\ step[w] \in MediaSteps \ {"read"} => tree[w].xml.res = Even(asked)
         /\ Bound(w) => xmldom[w].res = Even(asked)

(* Between its calls the domain is off, and the definition has the part of *)
(* the resources that has been set.                                        *)
Between(w) == step[w] \in Parts \ {"max_memory"}
SetSoFar(s) == CASE s = "memory"   -> {"max_memory"}
                 [] s = "max_vcpu" -> {"max_memory", "memory"}
                 [] s = "vcpu"     -> {"max_memory", "memory", "max_vcpu"}

Halves ==
  OnlyWithDelete =>
    \A w \in Workers : Between(w) =>
      /\ asked = Unsettled
      /\ ~Active
      /\ dom.defined => \A p \in SetSoFar(step[w]) : dom.cfg.res[p] = job[w].res

(* A resize then has no company but a delete.                              *)
LEMMA Company ==
  ASSUME DInv, OnlyWithDelete, NEW w \in Workers, step[w] # "idle", job[w].kind = "resize",
         NEW u \in Workers, u # w, step[u] # "idle"
  PROVE  job[u].kind = "delete"
<1>1. u \in Busy /\ w \in Busy /\ job[u] \in Jobs /\ job[w] \in Jobs
  BY DEF Busy, DInv, TInv, Control
<1>2. Sort(job[w]) = "resize"
  BY <1>1, SortOf
<1>3. {Sort(job[u]), "resize"} \in together
  BY <1>1, <1>2 DEF DInv, Overlap
<1>4. {Sort(job[u]), "resize"} = {"resize", "delete"}
  BY <1>3 DEF OnlyWithDelete
<1>5. Sort(job[u]) = "delete"
  BY <1>4
<1>6. QED
  BY <1>1, <1>5, SortOf

LEMMA StepTrees ==
  ASSUME DInv, NEW w \in Workers, MediaStep(w) \/ OtherStep(w)
  PROVE  \A u \in Workers \ {w} : tree'[u] = tree[u]
  BY DEF MediaStep, Read, IfRunning, IfShutoff, Update, UpdateStatus, UpdateLive,
         UpdateConfig, Reread, Define, Keep, OtherStep, GetState, Destroy, DeleteVolume,
         Undefine, ResizeResources, SetMaxMemory, SetMemory, SetMaxVcpus, SetVcpus, Parts,
         Start, SuspendOrResume, DInv, TInv, TypeOK

Kept(w) ==
  /\ dom'.defined => dom'.cfg.res = Even(asked)
  /\ Active' => dom'.live.res = Even(asked)
  /\ step'[w] \in MediaSteps \ {"read"} => tree'[w].xml.res = Even(asked)
  /\ Bound(w)' => xmldom'[w].res = Even(asked)

LEMMA ResourcesOf ==
  ASSUME Resources, Wanted, NEW w \in Workers
  PROVE  /\ dom.defined => dom.cfg.res = Even(asked)
         /\ Active => dom.live.res = Even(asked)
         /\ step[w] \in MediaSteps \ {"read"} => tree[w].xml.res = Even(asked)
         /\ Bound(w) => xmldom[w].res = Even(asked)
  BY DEF Resources

(* A step that keeps the resources of the domain and is right about those  *)
(* of its own copies.                                                      *)
LEMMA KeepsResources ==
  ASSUME DInv, Resources, NEW w \in Workers, MediaStep(w) \/ OtherStep(w),
         asked' = asked,
         Wanted => Kept(w)
  PROVE  Resources'
  BY StepBase, StepTrees DEF Resources, Bound, Kept, Wanted, OnlyWithDelete

LEMMA MediaResources ==
  ASSUME DInv, Resources, NEW w \in Workers, MediaStep(w)
  PROVE  Resources'
<1>1. CASE Read(w)
  <2>1. ASSUME NEW j, NEW t \in Trees PROVE Edited(j, t).xml.res = t.xml.res
    BY DEF Edited, Trees, Settings
  <2>2. [xml |-> IF Active THEN dom.live ELSE dom.cfg, live |-> Active] \in Trees
    BY DEF DInv, TInv, TypeOK, Domains, Trees, Active
  <2>3. Wanted => tree'[w].xml.res = Even(asked)
    BY <1>1, <2>1, <2>2 DEF Read, Exists, DInv, TInv, TypeOK, Resources
  <2>4. dom' = dom /\ asked' = asked /\ ~Bound(w)'
    BY <1>1 DEF Read, Goes, Bound, DInv, TInv, TypeOK
  <2>8. Wanted => Kept(w)
    BY <2>3, <2>4 DEF Kept, Resources, Active
  <2>9. QED
    BY <2>3, <2>4, <2>8, KeepsResources
<1>2. CASE IfRunning(w) \/ IfShutoff(w)
  <2>1. /\ dom' = dom /\ asked' = asked /\ tree' = tree /\ xmldom' = xmldom
        /\ step[w] \in MediaSteps \ {"read"}
    BY <1>2 DEF IfRunning, IfShutoff, At, Keep, MediaSteps
  <2>2. Bound(w)' => Bound(w)
    BY <1>2 DEF IfRunning, IfShutoff, At, Goes, Keep, Bound, DInv, TInv, TypeOK, Fresh
  <2>8. Wanted => Kept(w)
    BY <2>1, <2>2, ResourcesOf DEF Kept, Active
  <2>9. QED
    BY <2>1, <2>2, <2>8, KeepsResources
<1>3. CASE Update(w)
  <2>1. /\ dom'.defined = dom.defined /\ dom'.power = dom.power
        /\ dom'.cfg.res = dom.cfg.res /\ dom'.live.res = dom.live.res
    BY <1>3 DEF Update, UpdateStatus, UpdateLive, UpdateConfig, Keep, DInv, TInv, TypeOK,
                Domains, Settings
  <2>2. /\ asked' = asked /\ tree' = tree
        /\ step[w] \in MediaSteps \ {"read"}
    BY <1>3 DEF Update, UpdateStatus, UpdateLive, UpdateConfig, Keep, At, MediaSteps
  <2>3. Bound(w)' => xmldom'[w] = tree[w].xml
    BY <1>3 DEF Update, UpdateStatus, UpdateLive, UpdateConfig, Keep, At, Goes, Bound,
                DInv, TInv, TypeOK
  <2>8. Wanted => Kept(w)
    BY <2>1, <2>2, <2>3, ResourcesOf DEF Kept, Active
  <2>9. QED
    BY <2>1, <2>2, <2>3, <2>8, KeepsResources
<1>4. CASE Reread(w)
  <2>1. /\ dom' = dom /\ asked' = asked /\ tree' = tree
        /\ step[w] \in MediaSteps \ {"read"}
    BY <1>4 DEF Reread, At, MediaSteps
  <2>2. Wanted => xmldom'[w].res = Even(asked)
    BY <1>4 DEF Reread, Exists, DInv, TInv, TypeOK, Resources
  <2>8. Wanted => Kept(w)
    BY <2>1, <2>2, ResourcesOf DEF Kept, Active
  <2>9. QED
    BY <2>1, <2>2, <2>8, KeepsResources
<1>5. CASE Define(w)
  <2>1. /\ asked' = asked /\ tree' = tree /\ xmldom' = xmldom
        /\ Bound(w) /\ ~Bound(w)'
    BY <1>5 DEF Define, At, Goes, Bound, DInv, TInv, TypeOK
  <2>2. dom'.cfg = xmldom[w] /\ dom'.live = dom.live /\ dom'.power = dom.power
    BY <1>5 DEF Define, DInv, TInv, TypeOK, Domains
  <2>3. step'[w] \notin MediaSteps
    BY <1>5 DEF Define, Goes, DInv, TInv, TypeOK, MediaSteps
  <2>8. Wanted => Kept(w)
    BY <2>1, <2>2, <2>3, ResourcesOf DEF Kept, Active
  <2>9. QED
    BY <2>1, <2>2, <2>3, <2>8, KeepsResources
<1>6. QED
  BY <1>1, <1>2, <1>3, <1>4, <1>5 DEF MediaStep

(* The four calls of a resize, in a domain only a delete works at too.     *)
LEMMA NoMedia ==
  ASSUME DInv, OnlyWithDelete, NEW w \in Workers, step[w] \in Parts,
         NEW u \in Workers, step[u] \in MediaSteps
  PROVE  FALSE
<1>1. /\ step[w] # "idle" /\ job[w].kind = "resize" /\ u # w /\ step[u] # "idle"
      /\ Sort(job[u]) = "media" /\ job[u] \in Jobs
  BY DEF DInv, TInv, Control, Parts, MediaSteps
<1>2. job[u].kind = "delete"
  BY <1>1, Company
<1>3. QED
  BY <1>1, <1>2, SortOf

LEMMA SetParts ==
  ASSUME DInv, Halves, OnlyWithDelete, NEW w \in Workers, ResizeResources(w)
  PROVE  /\ ~Active
         /\ step[w] = "vcpu" => asked' = job[w].res /\ dom'.cfg.res = Even(asked')
         /\ step[w] # "vcpu" => /\ asked' = Unsettled /\ Between(w)'
                                /\ \A p \in SetSoFar(step'[w]) : dom'.cfg.res[p] = job[w].res
<1>1. PICK n : n = job[w].res
  OBVIOUS
<1>2. PICK res : res = dom.cfg.res
  OBVIOUS
<1>3. n \in Nat /\ res \in [Parts -> Nat] /\ dom \in Domains /\ dom.cfg \in Settings
  BY <1>1, <1>2, ResizeStep DEF DInv, TInv, TypeOK, Domains, Settings
<1>4. Between(w) => /\ asked = Unsettled /\ ~Active
                    /\ dom.defined => \A p \in SetSoFar(step[w]) : res[p] = n
  BY <1>1, <1>2 DEF Halves
<1>5. CASE SetMaxMemory(w)
  <2>1. PICK new : new = Capped(res, "max_memory", "memory", n)
    OBVIOUS
  <2>2. new["max_memory"] = n
    <3>1. "max_memory" \in Parts /\ "memory" \in Parts /\ "max_memory" # "memory"
      BY DEF Parts
    <3>2. QED
      BY <1>3, <2>1, <3>1, CappedParts
  <2>3. dom' = [dom EXCEPT !.cfg.res = new]
    BY <1>1, <1>2, <1>5, <2>1 DEF SetMaxMemory
  <2>4. dom'.cfg.res = new
    BY <1>3, <2>3 DEF Domains, Settings
  <2>5. ~Active /\ step[w] = "max_memory" /\ step'[w] = "memory" /\ asked' = Unsettled
    BY <1>5 DEF SetMaxMemory, At, Goes, DInv, TInv, TypeOK
  <2>6. QED
    BY <1>1, <2>2, <2>4, <2>5 DEF Between, SetSoFar, Parts
<1>6. CASE SetMemory(w)
  <2>1. /\ step[w] = "memory" /\ step'[w] = "max_vcpu" /\ asked' = asked /\ dom.defined
        /\ dom' = [dom EXCEPT !.cfg.res["memory"] = n]
    BY <1>1, <1>6 DEF SetMemory, At, Goes, DInv, TInv, TypeOK
  <2>2. dom'.cfg.res = [res EXCEPT !["memory"] = n]
    <3>1. PICK new : new = [res EXCEPT !["memory"] = n]
      OBVIOUS
    <3>2. dom' = [dom EXCEPT !.cfg.res = new]
      BY <1>2, <2>1, <3>1
    <3>3. dom'.cfg.res = new
      BY <1>3, <3>2 DEF Domains, Settings
    <3>4. QED
      BY <3>1, <3>3
  <2>3. res["max_memory"] = n /\ asked = Unsettled /\ ~Active
    BY <1>4, <2>1 DEF Between, SetSoFar, Parts
  <2>4. dom'.cfg.res["memory"] = n /\ dom'.cfg.res["max_memory"] = n
    BY <1>3, <2>2, <2>3 DEF Parts
  <2>5. QED
    BY <1>1, <2>1, <2>3, <2>4 DEF Between, SetSoFar, Parts
<1>7. CASE SetMaxVcpus(w)
  <2>1. PICK new : new = Capped(res, "max_vcpu", "vcpu", n)
    OBVIOUS
  <2>2. new["max_vcpu"] = n /\ new["max_memory"] = res["max_memory"]
        /\ new["memory"] = res["memory"]
    <3>1. /\ new["max_vcpu"] = n
          /\ \A p \in Parts \ {"max_vcpu", "vcpu"} : new[p] = res[p]
      <4>1. "max_vcpu" \in Parts /\ "vcpu" \in Parts /\ "max_vcpu" # "vcpu"
        BY DEF Parts
      <4>2. QED
        BY <1>3, <2>1, <4>1, CappedParts
    <3>2. QED
      BY <3>1 DEF Parts
  <2>3. /\ step[w] = "max_vcpu" /\ step'[w] = "vcpu" /\ asked' = asked /\ dom.defined
        /\ dom' = [dom EXCEPT !.cfg.res = new]
    BY <1>1, <1>2, <1>7, <2>1 DEF SetMaxVcpus, At, Goes, DInv, TInv, TypeOK
  <2>4. dom'.cfg.res = new
    BY <1>3, <2>3 DEF Domains, Settings
  <2>5. res["max_memory"] = n /\ res["memory"] = n /\ asked = Unsettled /\ ~Active
    BY <1>4, <2>3 DEF Between, SetSoFar, Parts
  <2>6. QED
    BY <1>1, <2>2, <2>3, <2>4, <2>5 DEF Between, SetSoFar, Parts
<1>8. CASE SetVcpus(w)
  <2>1. step[w] = "vcpu" /\ asked' = n /\ ~Active
    BY <1>1, <1>4, <1>8 DEF SetVcpus, At, Between, Parts
  <2>2. dom.defined /\ dom' = [dom EXCEPT !.cfg.res["vcpu"] = n]
    BY <1>1, <1>8, <2>1 DEF SetVcpus
  <2>3. dom'.cfg.res = [res EXCEPT !["vcpu"] = n]
    <3>1. PICK new : new = [res EXCEPT !["vcpu"] = n]
      OBVIOUS
    <3>2. dom' = [dom EXCEPT !.cfg.res = new]
      BY <1>2, <2>2, <3>1
    <3>3. dom'.cfg.res = new
      BY <1>3, <3>2 DEF Domains, Settings
    <3>4. QED
      BY <3>1, <3>3
  <2>4. res["max_memory"] = n /\ res["memory"] = n /\ res["max_vcpu"] = n
    BY <1>4, <2>1, <2>2 DEF Between, SetSoFar, Parts
  <2>5. dom'.cfg.res = Even(n)
    BY <1>3, <2>3, <2>4 DEF Even, Parts
  <2>6. QED
    BY <1>1, <2>1, <2>5
<1>9. QED
  BY <1>5, <1>6, <1>7, <1>8 DEF ResizeResources

LEMMA ResizeResourcesStep ==
  ASSUME DInv, Resources, Halves, NEW w \in Workers, ResizeResources(w)
  PROVE  Resources'
<1> SUFFICES ASSUME Wanted'
             PROVE  /\ dom'.defined => dom'.cfg.res = Even(asked')
                    /\ Active' => dom'.live.res = Even(asked')
                    /\ \A u \in Workers : step'[u] \notin MediaSteps
  BY DEF Resources, Bound, MediaSteps
<1>1. OtherStep(w) /\ dom'.power = dom.power /\ step[w] \in Parts
      /\ step'[w] \in (Parts \ {"max_memory"}) \cup {"power_on"}
  BY ResizeStep DEF OtherStep, DInv
<1>2. OnlyWithDelete
  BY <1>1, StepBase DEF Wanted, OnlyWithDelete
<1>3. step[w] = "vcpu" /\ ~Active /\ dom'.cfg.res = Even(asked')
  BY <1>2, SetParts DEF Wanted
<1>4. ASSUME NEW u \in Workers PROVE step'[u] \notin MediaSteps
  BY <1>1, <1>2, StepBase, NoMedia DEF Parts, MediaSteps
<1>5. QED
  BY <1>1, <1>3, <1>4 DEF Active

LEMMA OtherResources ==
  ASSUME DInv, Resources, Halves, NEW w \in Workers, OtherStep(w)
  PROVE  Resources'
<1>0. step'[w] \notin MediaSteps
  BY DEF OtherStep, GetState, Destroy, DeleteVolume, Undefine, ResizeResources,
         SetMaxMemory, SetMemory, SetMaxVcpus, SetVcpus, Parts, Start,
         SuspendOrResume, Goes, DInv, TInv, TypeOK, MediaSteps
<1>1. ~Bound(w)'
  BY <1>0 DEF Bound, MediaSteps
<1>2. CASE GetState(w) \/ DeleteVolume(w)
  <2>1. dom' = dom /\ asked' = asked
    BY <1>2 DEF GetState, DeleteVolume, Keep
  <2>8. Wanted => Kept(w)
    BY <1>0, <1>1, <2>1 DEF Kept, Resources, Active
  <2>9. QED
    BY <1>0, <1>1, <2>1, <2>8, KeepsResources
<1>3. CASE Destroy(w) \/ Undefine(w)
  <2>1. asked' = asked
    BY <1>3 DEF Destroy, Undefine
  <2>2. /\ dom'.defined => dom.defined /\ dom'.cfg = dom.cfg
        /\ Active' => Active /\ dom'.live = dom.live
    <3>1. CASE Destroy(w)
      BY <3>1 DEF Destroy, Stopped, Active, DInv, TInv, TypeOK, Domains
    <3>2. CASE Undefine(w) /\ Active
      BY <3>2 DEF Undefine, Active, DInv, TInv, TypeOK, Domains
    <3>3. CASE Undefine(w) /\ ~Active
      BY <3>3 DEF Undefine, Stopped, Active, DInv, TInv, TypeOK, Domains
    <3>4. QED
      BY <1>3, <3>1, <3>2, <3>3
  <2>8. Wanted => Kept(w)
    BY <1>0, <1>1, <2>1, <2>2, ResourcesOf DEF Kept
  <2>9. QED
    BY <1>0, <1>1, <2>1, <2>2, <2>8, KeepsResources
<1>4. CASE Start(w)
  <2>1. asked' = asked /\ dom.defined /\ dom'.cfg = dom.cfg /\ dom'.live = dom.cfg
    BY <1>4 DEF Start, DInv, TInv, TypeOK, Domains
  <2>8. Wanted => Kept(w)
    BY <1>0, <1>1, <2>1 DEF Kept, Resources
  <2>9. QED
    BY <1>0, <1>1, <2>1, <2>8, KeepsResources
<1>5. CASE SuspendOrResume(w)
  <2>1. /\ asked' = asked /\ dom'.defined = dom.defined /\ dom'.cfg = dom.cfg
        /\ dom'.live = dom.live /\ Active
    BY <1>5 DEF SuspendOrResume, DInv, TInv, TypeOK, Domains
  <2>8. Wanted => Kept(w)
    BY <1>0, <1>1, <2>1 DEF Kept, Resources
  <2>9. QED
    BY <1>0, <1>1, <2>1, <2>8, KeepsResources
<1>6. CASE ResizeResources(w)
  BY <1>6, ResizeResourcesStep
<1>7. QED
  BY <1>2, <1>3, <1>4, <1>5, <1>6 DEF OtherStep

(* A request and the end of handlers; a reboot starts what is defined.     *)
LEMMA RestResources ==
  ASSUME DInv, Resources,
         \/ \E w \in Workers, j \in Jobs : Request(w, j)
         \/ \E w \in Workers : Raises(w) \/ Respond(w)
         \/ Crash \/ HostReboot \/ GuestPowersOff \/ UNCHANGED mediaVars
  PROVE  Resources'
<1>1. ASSUME NEW w \in Workers, NEW j \in Jobs, Request(w, j) PROVE Resources'
  <2>1. \A u \in Workers : step'[u] \in MediaSteps \ {"read"} => step'[u] = step[u]
    BY <1>1, FirstOf DEF Request, DInv, TInv, TypeOK, MediaSteps
  <2>2. together \subseteq together' /\ UNCHANGED <<dom, asked, tree, xmldom>>
    BY <1>1 DEF Request
  <2>3. QED
    BY <2>1, <2>2 DEF Resources, Bound, Active, MediaSteps, Wanted, OnlyWithDelete
<1>2. ASSUME NEW W \in SUBSET Workers, Forget(W), asked' = asked,
             dom'.defined => dom.defined /\ dom'.cfg = dom.cfg,
             Active' => \/ Active /\ dom'.live = dom.live
                        \/ dom.defined /\ dom'.live = dom.cfg
      PROVE  Resources'
  <2>1. \A w \in Workers : \/ step'[w] = "idle"
                          \/ /\ step'[w] = step[w] /\ xmldom'[w] = xmldom[w]
                             /\ tree'[w] = tree[w]
    BY <1>2 DEF Forget
  <2>2. together' = together
    BY <1>2 DEF Forget
  <2>3. QED
    BY <1>2, <2>1, <2>2 DEF Resources, Bound, MediaSteps, Wanted, OnlyWithDelete
<1>3. ASSUME NEW w \in Workers, Raises(w) \/ Respond(w) PROVE Resources'
  BY <1>2, <1>3 DEF Raises, Respond, Forget, Active
<1>4. CASE Crash
  BY <1>2, <1>4 DEF Crash, Forget, Busy, Active
<1>5. CASE HostReboot
  <2>1. /\ dom'.defined => dom.defined /\ dom'.cfg = dom.cfg
        /\ Active' => dom.defined /\ dom'.live = dom.cfg
    BY <1>5 DEF HostReboot, Stopped, Active, DInv, TInv, TypeOK, Domains
  <2>2. QED
    BY <1>2, <1>5, <2>1 DEF HostReboot, Forget, Busy
<1>6. CASE GuestPowersOff
  BY <1>6 DEF GuestPowersOff, Stopped, Resources, Bound, Active, Wanted, OnlyWithDelete
<1>7. CASE UNCHANGED mediaVars
  BY <1>7 DEF mediaVars, Resources, Bound, Active, Wanted, OnlyWithDelete
<1>8. QED
  BY <1>1, <1>3, <1>4, <1>5, <1>6, <1>7

(* The calls of a resize are made in order, and nobody starts the domain   *)
(* between them.                                                           *)
LEMMA StepHalves ==
  ASSUME DInv, Halves, NEW v \in Workers, MediaStep(v) \/ OtherStep(v)
  PROVE  Halves'
<1> SUFFICES ASSUME OnlyWithDelete', NEW w \in Workers, Between(w)'
             PROVE  /\ asked' = Unsettled
                    /\ ~Active'
                    /\ dom'.defined =>
                         \A p \in SetSoFar(step'[w]) : dom'.cfg.res[p] = job'[w].res
  BY DEF Halves
<1>1. OnlyWithDelete /\ job' = job /\ \A u \in Workers \ {v} : step'[u] = step[u]
  BY StepBase DEF OnlyWithDelete
<1>2. CASE v = w
  <2>1. ResizeResources(w)
    <3>1. MediaStep(w) => step'[w] \notin Parts
      BY DEF MediaStep, Read, IfRunning, IfShutoff, Update, UpdateStatus, UpdateLive,
             UpdateConfig, Reread, Define, Goes, Parts, DInv, TInv, TypeOK
    <3>2. OtherStep(w) /\ ~ResizeResources(w) => step'[w] \notin Parts \ {"max_memory"}
      BY DEF OtherStep, GetState, Destroy, DeleteVolume, Undefine, Start, SuspendOrResume,
             Goes, Parts, DInv, TInv, TypeOK
    <3>3. QED
      BY <1>2, <3>1, <3>2 DEF Between
  <2>2. step[w] # "vcpu"
    <3>1. step[w] = "vcpu" => step'[w] = "power_on"
      BY <2>1 DEF ResizeResources, SetMaxMemory, SetMemory, SetMaxVcpus, SetVcpus, At, Goes,
             DInv, TInv, TypeOK
    <3>2. QED
      BY <3>1 DEF Between, Parts
  <2>3. dom'.power = dom.power
    BY <2>1, ResizeStep DEF DInv
  <2>4. QED
    BY <1>1, <2>1, <2>2, <2>3, SetParts DEF Active
<1>3. CASE v # w
  <2>1. Between(w) /\ step'[w] = step[w] /\ step[w] \in Parts
    BY <1>1, <1>3 DEF Between
  <2>2. /\ asked = Unsettled /\ ~Active
        /\ dom.defined => \A p \in SetSoFar(step[w]) : dom.cfg.res[p] = job[w].res
    BY <1>1, <2>1 DEF Halves
  <2>3. step[v] # "idle" /\ step[w] # "idle" /\ job[w].kind = "resize"
    BY <2>1, StepMoves DEF Moves, DInv, TInv, Control, Parts
  <2>4. job[v].kind = "delete"
    BY <1>1, <1>3, <2>3, Company
  <2>5. step[v] \notin MediaSteps
    BY <1>1, <2>1, NoMedia
  <2>6. step[v] \notin Parts \cup {"power_on"}
    BY <2>4 DEF DInv, TInv, Control
  <2>7. GetState(v) \/ DeleteVolume(v) \/ Undefine(v)
    <3>1. ~MediaStep(v)
      BY <2>5 DEF MediaStep, Read, IfRunning, IfShutoff, Update, UpdateStatus, UpdateLive,
             UpdateConfig, Reread, Define, At, MediaSteps
    <3>2. ~ResizeResources(v) /\ ~Start(v)
      BY <2>6, ResizeStep DEF Start, At, DInv
    <3>3. ~Destroy(v) /\ ~SuspendOrResume(v)
      BY <2>2 DEF Destroy, SuspendOrResume
    <3>4. QED
      BY <3>1, <3>2, <3>3 DEF OtherStep
  <2>8. asked' = asked /\ (dom' = dom \/ (~dom'.defined /\ dom'.power = "shutoff"))
    BY <2>2, <2>7 DEF GetState, DeleteVolume, Undefine, Keep, Stopped, Active
  <2>9. QED
    BY <1>1, <2>1, <2>2, <2>8 DEF Active
<1>4. QED
  BY <1>2, <1>3

LEMMA RestHalves ==
  ASSUME DInv, Halves,
         \/ \E w \in Workers, j \in Jobs : Request(w, j)
         \/ \E w \in Workers : Raises(w) \/ Respond(w)
         \/ Crash \/ HostReboot \/ GuestPowersOff \/ UNCHANGED mediaVars
  PROVE  Halves'
<1>1. ASSUME NEW v \in Workers, NEW j \in Jobs, Request(v, j) PROVE Halves'
  <2>1. \A w \in Workers : Between(w)' => Between(w) /\ job'[w] = job[w] /\ step'[w] = step[w]
    BY <1>1, FirstOf DEF Request, Between, DInv, TInv, TypeOK
  <2>2. together \subseteq together' /\ UNCHANGED <<dom, asked>>
    BY <1>1 DEF Request
  <2>3. OnlyWithDelete' => OnlyWithDelete
    BY <2>2 DEF OnlyWithDelete
  <2>4. QED
    BY <2>1, <2>2, <2>3 DEF Halves, Active
<1>2. ASSUME NEW W \in SUBSET Workers, Forget(W), dom' = dom \/ Busy \subseteq W
      PROVE  Halves'
  <2>1. \A w \in Workers : Between(w)' => /\ w \notin W /\ w \in Busy /\ Between(w)
                                         /\ job'[w] = job[w] /\ step'[w] = step[w]
    BY <1>2 DEF Forget, Between, Busy, Parts
  <2>2. UNCHANGED <<together, asked>>
    BY <1>2 DEF Forget
  <2>3. QED
    BY <1>2, <2>1, <2>2 DEF Halves, Active, OnlyWithDelete
<1>3. ASSUME NEW w \in Workers, Raises(w) \/ Respond(w) PROVE Halves'
  BY <1>2, <1>3 DEF Raises, Respond
<1>4. CASE Crash
  BY <1>2, <1>4 DEF Crash, Busy
<1>5. CASE HostReboot
  BY <1>2, <1>5 DEF HostReboot, Busy
<1>6. CASE GuestPowersOff
  <2>1. Active /\ UNCHANGED <<job, step, together>>
    BY <1>6 DEF GuestPowersOff, Active
  <2>2. OnlyWithDelete => \A w \in Workers : ~Between(w)
    BY <2>1 DEF Halves
  <2>3. QED
    BY <2>1, <2>2 DEF Halves, OnlyWithDelete, Between
<1>7. CASE UNCHANGED mediaVars
  BY <1>7 DEF mediaVars, Halves, Between, Active, OnlyWithDelete
<1>8. QED
  BY <1>1, <1>3, <1>4, <1>5, <1>6, <1>7

(* For any number of handlers: a resize that made all its calls stands, as *)
(* long as no resize had a mount or umount, a power action or another      *)
(* resize beside it.                                                       *)
THEOREM ResizeStays == Spec => []ResizeStands
<1>1. Init => Resources /\ Halves
  <2>1. Init => Halves
    BY DEF Init, Halves, Between, Parts
  <2>2. Init => Resources
    BY DEF Init, Resources, Bound, Active, MediaSteps
  <2>3. QED
    BY <2>1, <2>2
<1>2. ASSUME DInv, Resources, Halves, Next PROVE Resources' /\ Halves'
  BY <1>2, MediaResources, OtherResources, RestResources, StepHalves, RestHalves
     DEF Next, MediaStep, OtherStep
<1>3. DInv /\ Resources /\ Halves /\ [Next]_mediaVars => DInv' /\ Resources' /\ Halves'
  BY <1>2, NextDInv, RestResources, RestHalves
<1>4. Resources => ResizeStands
  BY DEF Resources, ResizeStands, Wanted
<1>5. QED
  BY <1>1, <1>3, <1>4, InitDInv, PTL DEF Spec

-----------------------------------------------------------------------------
(* A mount or umount that has the domain to itself: only the guest, which  *)
(* may power off, changes the domain beside it.  From its first update on  *)
(* the drive holds what the tree says, and what is defined at the end has  *)
(* the same in it.                                                         *)
Solitude == \A u, w \in Busy : u # w => ~alone[u]

Served ==
  \A w \in Workers : step[w] \notin MediaSteps \cup {"idle", "respond"} =>
                       Sort(job[w]) # "media"

Aim(w) == tree[w].xml.iso
LiveInStep(w) == Active => dom.live.iso = Aim(w)
InStep(w) == LiveInStep(w) /\ dom.defined /\ dom.cfg.iso = Aim(w)

Promise(w) ==
  /\ step[w] \in (MediaSteps \ {"read"}) \cup {"respond"} =>
       tree[w] = Edited(job[w], read[w])
  /\ step[w] = "update_1" => dom.power # "paused"
  /\ step[w] = "config_1" => LiveInStep(w)
  /\ step[w] \in {"reread", "respond"} => InStep(w)
  /\ step[w] = "if_shutoff" => \/ xmldom[w] = Unbound /\ dom.power # "running"
                               \/ InStep(w) /\ xmldom[w].iso = Aim(w)
  /\ step[w] \in {"update_2", "live_2", "config_2"} => ~Active
  /\ step[w] = "define" => LiveInStep(w) /\ xmldom[w].iso = Aim(w)

Promises ==
  \A w \in Workers : alone[w] /\ Sort(job[w]) = "media" => Promise(w)

PInv == DInv /\ Solitude /\ Served /\ Promises

(* What the drive holds at the end is what the tree says.                  *)
LEMMA AimOf ==
  ASSUME NEW j \in Jobs, Sort(j) = "media", NEW t \in Trees
  PROVE  Edited(j, t).xml.iso =
           IF \/ ~j.dev
              \/ j.kind = "umount" /\ t.xml.iso # j.image
              \/ j.kind = "mount" /\ t.xml.iso # Empty /\ ~t.live
           THEN t.xml.iso
           ELSE IF j.kind = "mount" THEN Path(j) ELSE Empty
<1>1. j.kind = "mount" \/ j.kind = "umount"
  BY SortOf
<1>2. CASE ~j.dev
  BY <1>2 DEF Edited
<1>3. CASE j.dev /\ j.kind = "mount"
  BY <1>3 DEF Edited, Trees, Settings
<1>4. CASE j.dev /\ j.kind = "umount"
  BY <1>4 DEF Edited, Trees, Settings
<1>5. QED
  BY <1>1, <1>2, <1>3, <1>4, JobsAssumption

LEMMA InitPInv == Init => PInv
  BY InitDInv DEF Init, PInv, Solitude, Served, Promises, Busy, Sort, NoJob

LEMMA RequestPInv ==
  ASSUME PInv, NEW w \in Workers, NEW j \in Jobs, Request(w, j)
  PROVE  PInv'
<1>1. DInv'
  BY RequestDInv DEF PInv
<1>2. /\ UNCHANGED <<dom, tree, read, xmldom>>
      /\ w \notin Busy /\ job'[w] = j /\ step'[w] = First(j)
      /\ \A u \in Workers \ {w} : job'[u] = job[u] /\ step'[u] = step[u]
  BY DEF Request, PInv, DInv, TInv, TypeOK
<1>3. \A u \in Workers : alone'[u] = IF u \in Busy \cup {w} THEN Busy = {} ELSE TRUE
  BY DEF Request
<1>4. Busy' = Busy \cup {w}
  BY <1>2, FirstOf DEF Busy
<1>5. Solitude'
  <2>1. ASSUME NEW u \in Busy', NEW v \in Busy', u # v PROVE ~alone'[u]
    <3>1. u \in Busy \/ v \in Busy
      BY <1>4, <2>1
    <3>2. u \in Workers /\ u \in Busy \cup {w} /\ Busy # {}
      BY <1>4, <2>1, <3>1 DEF Busy
    <3>3. QED
      BY <1>3, <3>2
  <2>2. QED
    BY <2>1 DEF Solitude
<1>6. Served'
  <2>1. First(j) \notin MediaSteps \cup {"idle", "respond"} => Sort(j) # "media"
    BY JobsAssumption DEF First, Sort, Kinds, MediaSteps
  <2>2. ASSUME NEW u \in Workers, step'[u] \notin MediaSteps \cup {"idle", "respond"}
        PROVE  Sort(job'[u]) # "media"
    BY <1>2, <2>1, <2>2 DEF PInv, Served
  <2>3. QED
    BY <2>2 DEF Served, Sort
<1>7. Promises'
  <2>1. ASSUME NEW u \in Workers, alone'[u], Sort(job'[u]) = "media"
        PROVE  Promise(u)'
    <3>1. CASE u = w
      <4>1. step'[u] = "read"
        BY <1>2, <2>1, <3>1 DEF First
      <4>2. QED
        BY <4>1 DEF Promise
    <3>2. CASE u # w
      <4>1. u \notin Busy
        BY <1>3, <2>1, <3>2
      <4>2. step'[u] = "idle"
        BY <1>2, <3>2, <4>1 DEF Busy
      <4>3. QED
        BY <4>2 DEF Promise, MediaSteps
    <3>3. QED
      BY <3>1, <3>2
  <2>2. QED
    BY <2>1 DEF Promises, Sort
<1>8. QED
  BY <1>1, <1>5, <1>6, <1>7 DEF PInv

(* The steps of a mount or umount, of a worker that is alone.              *)
LEMMA MediaPromise ==
  ASSUME PInv, NEW w \in Workers, MediaStep(w), alone[w], Sort(job[w]) = "media"
  PROVE  Promise(w)'
<1>1. TypeOK /\ Fresh /\ Promise(w)
  BY DEF PInv, DInv, TInv, Promises
<1>2. step[w] \in MediaSteps
  BY DEF MediaStep, Read, IfRunning, IfShutoff, Update, UpdateStatus, UpdateLive,
         UpdateConfig, Reread, Define, At, MediaSteps
<1>3. CASE Read(w)
  <2>1. step'[w] = "if_running" /\ tree'[w] = Edited(job'[w], read'[w])
    BY <1>1, <1>3 DEF Read, Goes, TypeOK
  <2>2. QED
    BY <2>1 DEF Promise
<1>4. CASE IfRunning(w)
  <2>1. /\ UNCHANGED <<dom, tree, xmldom, read, job>> /\ step[w] = "if_running"
        /\ step'[w] = IF dom.power = "running" THEN "update_1" ELSE "if_shutoff"
    BY <1>1, <1>4 DEF IfRunning, At, Goes, Keep, TypeOK
  <2>2. xmldom[w] = Unbound
    BY <1>1, <2>1 DEF Fresh
  <2>3. tree'[w] = Edited(job'[w], read'[w])
    BY <1>1, <1>2, <2>1 DEF Promise, MediaSteps
  <2>4. CASE dom.power = "running"
    BY <2>1, <2>3, <2>4 DEF Promise
  <2>5. CASE dom.power # "running"
    BY <2>1, <2>2, <2>3, <2>5 DEF Promise
  <2>6. QED
    BY <2>4, <2>5
<1>5. CASE IfShutoff(w)
  <2>1. UNCHANGED <<dom, tree, xmldom, read, job>> /\ step[w] = "if_shutoff"
    BY <1>5 DEF IfShutoff, At, Goes, Keep
  <2>2. tree'[w] = Edited(job'[w], read'[w])
    BY <1>1, <1>2, <2>1 DEF Promise, MediaSteps
  <2>3. CASE dom.power = "shutoff" /\ step'[w] = "update_2"
    BY <2>1, <2>2, <2>3 DEF Promise, Active
  <2>4. CASE dom.power # "shutoff" /\ xmldom[w] # Unbound /\ step'[w] = "define"
    <3>1. InStep(w) /\ xmldom[w].iso = Aim(w)
      BY <1>1, <2>1, <2>4 DEF Promise
    <3>2. LiveInStep(w)' /\ xmldom'[w].iso = Aim(w)'
      BY <2>1, <3>1 DEF InStep, LiveInStep, Aim, Active
    <3>3. QED
      BY <2>2, <2>4, <3>2 DEF Promise
  <2>5. QED
    BY <1>1, <1>5, <2>3, <2>4 DEF IfShutoff, Goes, TypeOK
<1>6. CASE Update(w)
  <2>0. /\ UNCHANGED <<tree, read, job>> /\ step[w] # "read"
        /\ Aim(w)' = Aim(w)
    BY <1>6 DEF Update, UpdateStatus, UpdateLive, UpdateConfig, At, Goes, Keep, Aim
  <2>1. tree'[w] = Edited(job'[w], read'[w])
    BY <1>1, <1>2, <2>0 DEF Promise
  <2>2. CASE UpdateStatus(w, "update_1", "live_1", "config_1")
    <3>1. dom' = dom /\ step[w] = "update_1"
          /\ step'[w] = IF dom.power = "running" THEN "live_1" ELSE "config_1"
      BY <1>1, <2>2 DEF UpdateStatus, At, Goes, Keep, TypeOK
    <3>2. dom.power # "paused" /\ dom.power \in {"shutoff", "running", "paused"}
      BY <1>1, <3>1 DEF Promise, TypeOK, Domains
    <3>3. step'[w] = "config_1" => LiveInStep(w)'
      BY <3>1, <3>2 DEF LiveInStep, Active
    <3>4. step'[w] \in {"live_1", "config_1"}
      BY <3>1
    <3>5. QED
      BY <2>1, <3>3, <3>4 DEF Promise
  <2>3. CASE UpdateLive(w, "live_1", FALSE, "config_1")
    <3>1. /\ step'[w] = "config_1" /\ Active
          /\ dom' = [dom EXCEPT !.live.iso = tree[w].xml.iso]
      BY <1>1, <2>3 DEF UpdateLive, Goes, TypeOK
    <3>2. dom'.live.iso = Aim(w)
      BY <1>1, <3>1 DEF TypeOK, Domains, Settings, Aim
    <3>3. LiveInStep(w)'
      BY <2>0, <3>2 DEF LiveInStep
    <3>4. QED
      BY <2>1, <3>1, <3>3 DEF Promise
  <2>4. CASE UpdateConfig(w, "config_1", "reread") /\ UNCHANGED xmldom
    <3>1. /\ step[w] = "config_1" /\ step'[w] = "reread" /\ dom.defined
          /\ dom' = [dom EXCEPT !.cfg.iso = tree[w].xml.iso]
      BY <1>1, <2>4 DEF UpdateConfig, At, Goes, TypeOK
    <3>2. /\ dom'.cfg.iso = Aim(w) /\ dom'.live = dom.live /\ dom'.power = dom.power
          /\ dom'.defined
      BY <1>1, <3>1 DEF TypeOK, Domains, Settings, Aim
    <3>3. InStep(w)'
      BY <1>1, <2>0, <3>1, <3>2 DEF Promise, InStep, LiveInStep, Active
    <3>4. QED
      BY <2>1, <3>1, <3>3 DEF Promise
  <2>5. CASE UpdateStatus(w, "update_2", "live_2", "config_2")
    <3>1. dom' = dom /\ step[w] = "update_2" /\ step'[w] \in {"live_2", "config_2"}
      BY <1>1, <2>5 DEF UpdateStatus, At, Goes, Keep, TypeOK
    <3>2. ~Active'
      BY <1>1, <3>1 DEF Promise, Active
    <3>3. QED
      BY <2>1, <3>1, <3>2 DEF Promise
  <2>6. CASE UpdateLive(w, "live_2", TRUE, "config_2")
    <3>1. step[w] = "live_2" /\ step'[w] = "config_2" /\ ~Active
      BY <1>1, <2>6 DEF UpdateLive, At, Goes, TypeOK, Promise
    <3>2. dom' = [dom EXCEPT !.cfg.iso = tree[w].xml.iso]
      BY <2>6, <3>1 DEF UpdateLive
    <3>3. ~Active'
      BY <1>1, <3>1, <3>2 DEF Active, TypeOK, Domains
    <3>4. QED
      BY <2>1, <3>1, <3>3 DEF Promise
  <2>7. CASE /\ UpdateConfig(w, "config_2", "define")
             /\ xmldom' = [xmldom EXCEPT ![w] = tree[w].xml]
    <3>1. /\ step[w] = "config_2" /\ step'[w] = "define" /\ ~Active
          /\ dom' = [dom EXCEPT !.cfg.iso = tree[w].xml.iso]
          /\ xmldom'[w] = tree[w].xml
      BY <1>1, <2>7 DEF UpdateConfig, At, Goes, TypeOK, Promise
    <3>2. ~Active'
      BY <1>1, <3>1 DEF Active, TypeOK, Domains
    <3>3. LiveInStep(w)' /\ xmldom'[w].iso = Aim(w)'
      BY <2>0, <3>1, <3>2 DEF LiveInStep, Aim
    <3>4. QED
      BY <2>1, <3>1, <3>3 DEF Promise
  <2>8. QED
    BY <1>6, <2>2, <2>3, <2>4, <2>5, <2>6, <2>7 DEF Update
<1>7. CASE Reread(w)
  <2>1. /\ UNCHANGED <<dom, tree, read, job>> /\ step[w] = "reread"
        /\ step'[w] = "if_shutoff"
        /\ xmldom'[w] = IF Active THEN dom.live ELSE dom.cfg
    BY <1>1, <1>7 DEF Reread, At, Goes, TypeOK
  <2>2. tree'[w] = Edited(job'[w], read'[w])
    BY <1>1, <1>2, <2>1 DEF Promise
  <2>3. InStep(w)
    BY <1>1, <2>1 DEF Promise
  <2>4. InStep(w)' /\ xmldom'[w].iso = Aim(w)'
    BY <2>1, <2>3 DEF InStep, LiveInStep, Aim, Active
  <2>5. QED
    BY <2>1, <2>2, <2>4 DEF Promise
<1>8. CASE Define(w)
  <2>1. /\ UNCHANGED <<tree, xmldom, read, job>> /\ step[w] = "define"
        /\ step'[w] = "respond"
        /\ dom' = [dom EXCEPT !.defined = TRUE, !.cfg = xmldom[w]]
    BY <1>1, <1>8 DEF Define, At, Goes, TypeOK
  <2>2. tree'[w] = Edited(job'[w], read'[w])
    BY <1>1, <1>2, <2>1 DEF Promise
  <2>3. /\ dom'.defined /\ dom'.cfg = xmldom[w] /\ dom'.live = dom.live
        /\ dom'.power = dom.power
    BY <1>1, <2>1 DEF TypeOK, Domains
  <2>4. InStep(w)'
    BY <1>1, <2>1, <2>3 DEF Promise, InStep, LiveInStep, Aim, Active
  <2>5. QED
    BY <2>1, <2>2, <2>4 DEF Promise
<1>9. QED
  BY <1>3, <1>4, <1>5, <1>6, <1>7, <1>8 DEF MediaStep

LEMMA StepPInv ==
  ASSUME PInv, NEW w \in Workers, MediaStep(w) \/ OtherStep(w)
  PROVE  PInv'
<1>1. DInv'
  BY MediaDInv, OtherDInv DEF PInv
<1>2. /\ job' = job /\ step[w] # "idle" /\ step'[w] # "idle"
      /\ \A u \in Workers \ {w} : step'[u] = step[u]
  BY StepBase DEF PInv, DInv, MediaStep, Read, IfRunning, IfShutoff, Update, UpdateStatus,
         UpdateLive, UpdateConfig, Reread, Define, OtherStep, GetState, Destroy,
         DeleteVolume, Undefine, ResizeResources, SetMaxMemory, SetMemory, SetMaxVcpus,
         SetVcpus, Parts, Start, SuspendOrResume, At, Goes, TInv,
         TypeOK
<1>3. alone' = alone
  BY DEF MediaStep, Read, IfRunning, IfShutoff, Update, UpdateStatus, UpdateLive,
         UpdateConfig, Reread, Define, OtherStep, GetState, Destroy, DeleteVolume,
         Undefine, ResizeResources, SetMaxMemory, SetMemory, SetMaxVcpus, SetVcpus, Parts,
         Start, SuspendOrResume, Goes
<1>4. Busy' = Busy /\ w \in Busy
  BY <1>2 DEF Busy
<1>5. Solitude'
  BY <1>3, <1>4 DEF PInv, Solitude
<1>6. step'[w] \notin MediaSteps \cup {"idle", "respond"} => Sort(job[w]) # "media"
  <2>1. CASE MediaStep(w)
    <3>1. step'[w] \in MediaSteps \cup {"respond"}
      BY <2>1 DEF MediaStep, Read, IfRunning, IfShutoff, Update, UpdateStatus, UpdateLive,
             UpdateConfig, Reread, Define, Goes, MediaSteps, PInv, DInv, TInv, TypeOK
    <3>2. QED
      BY <3>1
  <2>2. CASE OtherStep(w)
    <3>1. step[w] \notin MediaSteps \cup {"idle", "respond"}
      BY <2>2 DEF OtherStep, GetState, Destroy, DeleteVolume, Undefine, ResizeResources,
             SetMaxMemory, SetMemory, SetMaxVcpus, SetVcpus, Parts,
             Start, SuspendOrResume, At, MediaSteps
    <3>2. QED
      BY <3>1 DEF PInv, Served
  <2>3. QED
    BY <2>1, <2>2
<1>7. Served'
  <2>1. ASSUME NEW u \in Workers, step'[u] \notin MediaSteps \cup {"idle", "respond"}
        PROVE  Sort(job'[u]) # "media"
    BY <1>2, <1>6, <2>1 DEF PInv, Served
  <2>2. QED
    BY <2>1 DEF Served, Sort
<1>8. Promises'
  <2>1. ASSUME NEW u \in Workers, alone'[u], Sort(job'[u]) = "media"
        PROVE  Promise(u)'
    <3>0. alone[u] /\ Sort(job[u]) = "media"
      BY <1>2, <1>3, <2>1
    <3>1. CASE u # w
      <4>1. u \notin Busy
        BY <1>4, <3>0, <3>1 DEF PInv, Solitude
      <4>2. step'[u] = "idle"
        BY <1>2, <3>1, <4>1 DEF Busy
      <4>3. QED
        BY <4>2 DEF Promise, MediaSteps
    <3>2. CASE u = w /\ MediaStep(w)
      BY <3>0, <3>2, MediaPromise
    <3>3. CASE u = w /\ OtherStep(w)
      <4>1. step[w] \notin MediaSteps \cup {"idle", "respond"}
        BY <3>3 DEF OtherStep, GetState, Destroy, DeleteVolume, Undefine, ResizeResources,
               SetMaxMemory, SetMemory, SetMaxVcpus, SetVcpus, Parts,
               Start, SuspendOrResume, At, MediaSteps
      <4>2. QED
        BY <3>0, <3>3, <4>1 DEF PInv, Served
    <3>4. QED
      BY <3>1, <3>2, <3>3
  <2>2. QED
    BY <2>1 DEF Promises, Sort
<1>9. QED
  BY <1>1, <1>5, <1>7, <1>8 DEF PInv

(* The end of handlers.                                                    *)
LEMMA ForgetPInv ==
  ASSUME PInv, NEW W \in SUBSET Workers, Forget(W), DInv',
         W = Busy \/ dom' = dom
  PROVE  PInv'
<1>1. /\ alone' = alone
      /\ \A w \in Workers : IF w \in W THEN step'[w] = "idle" /\ job'[w] = NoJob
                            ELSE /\ step'[w] = step[w] /\ xmldom'[w] = xmldom[w]
                                 /\ job'[w] = job[w] /\ tree'[w] = tree[w]
                                 /\ read'[w] = read[w]
  BY DEF Forget
<1>2. Busy' = Busy \ W
  BY <1>1 DEF Busy
<1>3. Solitude'
  BY <1>1, <1>2 DEF PInv, Solitude
<1>4. Served'
  <2>1. ASSUME NEW u \in Workers, step'[u] \notin MediaSteps \cup {"idle", "respond"}
        PROVE  Sort(job'[u]) # "media"
    BY <1>1, <2>1 DEF PInv, Served
  <2>2. QED
    BY <2>1 DEF Served, Sort
<1>5. Promises'
  <2>1. ASSUME NEW u \in Workers, alone'[u], Sort(job'[u]) = "media"
        PROVE  Promise(u)'
    <3>1. CASE u \notin Busy'
      <4>1. step'[u] = "idle"
        BY <3>1 DEF Busy
      <4>2. QED
        BY <4>1 DEF Promise, MediaSteps
    <3>2. CASE u \in Busy'
      <4>1. /\ dom' = dom /\ step'[u] = step[u] /\ xmldom'[u] = xmldom[u]
            /\ job'[u] = job[u] /\ tree'[u] = tree[u] /\ read'[u] = read[u]
        BY <1>1, <1>2, <3>2
      <4>2. Promise(u)
        BY <1>1, <2>1, <4>1 DEF PInv, Promises
      <4>3. QED
        BY <4>1, <4>2 DEF Promise, InStep, LiveInStep, Aim, Active
    <3>3. QED
      BY <3>1, <3>2
  <2>2. QED
    BY <2>1 DEF Promises, Sort
<1>6. QED
  BY <1>3, <1>4, <1>5 DEF PInv

LEMMA EndsPInv ==
  ASSUME PInv, \/ \E w \in Workers : Raises(w) \/ Respond(w)
               \/ Crash \/ HostReboot
  PROVE  PInv'
<1>1. DInv'
  BY EndsDInv DEF PInv
<1>2. ASSUME NEW w \in Workers, Raises(w) \/ Respond(w) PROVE PInv'
  BY <1>1, <1>2, ForgetPInv DEF Raises, Respond
<1>3. CASE Crash \/ HostReboot
  <2>1. Busy \in SUBSET Workers
    BY DEF Busy
  <2>2. QED
    BY <1>1, <1>3, <2>1, ForgetPInv DEF Crash, HostReboot
<1>4. QED
  BY <1>2, <1>3

LEMMA GuestPInv ==
  ASSUME PInv, GuestPowersOff
  PROVE  PInv'
<1>1. DInv' /\ UNCHANGED <<job, step, tree, xmldom, read, alone>>
  BY RestDInv DEF PInv, GuestPowersOff
<1>2. /\ dom'.defined = dom.defined /\ dom'.power = "shutoff"
      /\ dom.defined => dom'.cfg = dom.cfg
  BY DEF GuestPowersOff, Stopped
<1>3. Solitude' /\ Served'
  BY <1>1 DEF PInv, Solitude, Served, Busy, Sort
<1>4. Promises'
  <2>1. ASSUME NEW u \in Workers, Promise(u) PROVE Promise(u)'
    <3>1. InStep(u) => InStep(u)'
      BY <1>1, <1>2 DEF InStep, LiveInStep, Aim, Active
    <3>2. LiveInStep(u)' /\ ~Active' /\ Aim(u)' = Aim(u)
      BY <1>1, <1>2 DEF LiveInStep, Active, Aim
    <3>3. QED
      BY <1>1, <1>2, <2>1, <3>1, <3>2 DEF Promise
  <2>2. QED
    BY <1>1, <2>1 DEF PInv, Promises, Sort
<1>5. QED
  BY <1>1, <1>3, <1>4 DEF PInv

LEMMA StutterPInv ==
  ASSUME PInv, UNCHANGED mediaVars
  PROVE  PInv'
<1>1. DInv'
  BY RestDInv DEF PInv
<1>2. QED
  BY <1>1 DEF mediaVars, PInv, Solitude, Served, Busy, Sort, Promises, Promise, InStep,
              LiveInStep, Aim, Active

(* For any number of handlers, images and requests: a mount or umount that *)
(* had the domain to itself and answers with success has put the image     *)
(* into the drive, or taken it out, in the definition and in the running   *)
(* domain, but for the requests that change nothing.                       *)
THEOREM AnswersTrue == Spec => []MediaDone
<1>1. ASSUME PInv, Next PROVE PInv'
  BY <1>1, RequestPInv, StepPInv, EndsPInv, GuestPInv DEF Next, MediaStep, OtherStep
<1>2. PInv /\ [Next]_mediaVars => PInv'
  BY <1>1, StutterPInv
<1>3. ASSUME PInv PROVE MediaDone
  <2>1. ASSUME NEW w \in Workers, At(w, "respond"), Sort(job[w]) = "media", alone[w]
        PROVE  InStep(w) /\ job[w] \in Jobs /\ read[w] \in Trees
               /\ tree[w] = Edited(job[w], read[w])
    BY <1>3, <2>1 DEF PInv, DInv, TInv, Control, TypeOK, Promises, Promise, At
  <2>2. QED
    BY <2>1, AimOf DEF MediaDone, InStep, LiveInStep, Aim
<1>4. QED
  BY <1>2, <1>3, InitPInv, PTL DEF Spec
=============================================================================
