---------------------------- MODULE Virtance_proofs ----------------------------
(***************************************************************************)
(* Proofs about the module Virtance, for any virtances, snapshots, handler *)
(* threads and requests.                                                   *)
(*                                                                         *)
(* A plan is a sequence put together from pieces.  The first part shows    *)
(* that it is a path through a table (After), so that the rest needs to    *)
(* know of a handler's plan only the step it is at.                        *)
(***************************************************************************)
EXTENDS Virtance, TLAPS

-----------------------------------------------------------------------------
(* The plan of job j as a path: the steps it has, the step behind step d,  *)
(* the file step d is about and the one it reads.                          *)
FromSnapshot(j) == j.kind = "create" /\ j.s # NoFile

Imaging == {"copy_open", "copy_close", "resize", "guest_open", "guest_close"}

Has(j, d) ==
  \/ d = "respond"
  \/ j.kind \in {"create", "rebuild", "restore", "reset_password", "delete"}
       /\ d \in {"get_state", "destroy"}
  \/ j.kind \in {"create", "rebuild"} /\ d \in Imaging
  \/ j.kind \in {"create", "rebuild"} /\ j.second /\ d = "create_volume"
  \/ j.kind = "create" /\ d \in {"undefine", "pass", "define", "start"}
  \/ FromSnapshot(j) /\ d \in {"find_snapshot", "fit"}
  \/ ((j.kind = "create" /\ j.s = NoFile) \/ j.kind = "rebuild") /\ d = "download"
  \/ j.kind \in {"rebuild", "power_on", "power_cycle"} /\ d = "start"
  \/ j.kind \in {"power_off", "power_cycle"} /\ d = "destroy"
  \/ j.kind \in {"shutdown", "suspend", "resume"} /\ d = j.kind
  \/ j.kind = "resize" /\ d \in {"require_shutoff", "resize_resources", "start"}
  \/ j.kind = "resize" /\ j.size # NoSize /\ d \in {"get_disks", "resize"}
  \/ j.kind = "snapshot" /\ d \in {"get_disks", "copy_open", "copy_close"}
  \/ j.kind = "restore" /\ d \in {"get_disks", "find_snapshot", "copy_open",
                                  "copy_close", "fit", "start"}
  \/ j.kind = "reset_password"
       /\ d \in {"get_disks", "guest_open", "guest_close", "start"}
  \/ j.kind = "delete" /\ d \in {"get_disks", "delete_volume", "undefine"}

Then(j, d, e) ==
  \/ d = "get_state" /\ e = "destroy"
  \/ d = "destroy" /\ \/ j.kind = "create" /\ e = "undefine"
                      \/ j.kind = "rebuild" /\ e = "download"
                      \/ j.kind \in {"restore", "delete"} /\ e = "get_disks"
                      \/ j.kind = "reset_password" /\ e = "guest_open"
                      \/ j.kind = "power_cycle" /\ e = "start"
                      \/ j.kind = "power_off" /\ e = "respond"
  \/ d = "undefine" /\ \/ j.kind = "create" /\ e = "pass"
                       \/ j.kind = "delete" /\ e = "respond"
  \/ d = "pass" /\ e = (IF j.s = NoFile THEN "download" ELSE "find_snapshot")
  \/ d \in {"download", "find_snapshot"} /\ e = "copy_open"
  \/ d = "get_disks" /\ \/ j.kind = "resize" /\ e = "resize"
                        \/ j.kind = "snapshot" /\ e = "copy_open"
                        \/ j.kind = "restore" /\ e = "find_snapshot"
                        \/ j.kind = "reset_password" /\ e = "get_state"
                        \/ j.kind = "delete" /\ e = "delete_volume"
  \/ d = "copy_open" /\ e = "copy_close"
  \/ d = "copy_close" /\ \/ j.kind = "snapshot" /\ e = "respond"
                         \/ (j.kind = "restore" \/ FromSnapshot(j)) /\ e = "fit"
                         \/ j.kind \in {"create", "rebuild"} /\ ~FromSnapshot(j)
                              /\ e = "resize"
  \/ d = "fit" /\ e = (IF j.kind = "restore" THEN "start" ELSE "resize")
  \/ d = "resize" /\ e = (IF j.kind = "resize" THEN "start" ELSE "guest_open")
  \/ d = "guest_open" /\ e = "guest_close"
  \/ d = "guest_close" /\ \/ j.kind = "reset_password" /\ e = "start"
                          \/ j.kind # "reset_password" /\ j.second
                               /\ e = "create_volume"
                          \/ j.kind = "create" /\ ~j.second /\ e = "define"
                          \/ j.kind = "rebuild" /\ ~j.second /\ e = "start"
  \/ d = "create_volume" /\ e = (IF j.kind = "create" THEN "define" ELSE "start")
  \/ d = "define" /\ e = "start"
  \/ d = "require_shutoff" /\ e = "resize_resources"
  \/ d = "resize_resources" /\ e = (IF j.size = NoSize THEN "start" ELSE "get_disks")
  \/ d = "delete_volume" /\ e = "undefine"
  \/ d \in {"start", "shutdown", "suspend", "resume"} /\ e = "respond"

About(j, d) ==
  IF \/ d = "find_snapshot"
     \/ j.kind = "snapshot" /\ d \in {"copy_open", "copy_close"}
     \/ FromSnapshot(j) /\ d \in {"resize", "guest_open", "guest_close"}
  THEN j.s ELSE j.v

Reads(j, d) ==
  IF d \notin {"copy_open", "copy_close"} THEN NoFile
  ELSE IF j.kind = "snapshot" THEN j.v
  ELSE IF j.kind = "restore" \/ FromSnapshot(j) THEN j.s
  ELSE Template

StepNames == {"get_state", "destroy", "undefine", "pass", "download",
              "find_snapshot", "copy_open", "copy_close", "fit", "resize",
              "guest_open", "guest_close", "create_volume", "define", "start",
              "respond", "require_shutoff", "resize_resources", "get_disks",
              "delete_volume", "shutdown", "suspend", "resume"}
Files == Virtances \cup Snapshots
PlanStep == [do : StepNames, x : Files, from : Files \cup {Template, NoFile}]

First(j) ==
  IF j.kind \in {"create", "rebuild", "restore", "delete"} THEN "get_state"
  ELSE IF j.kind \in {"snapshot", "reset_password"} THEN "get_disks"
  ELSE IF j.kind = "resize" THEN "require_shutoff"
  ELSE IF j.kind = "power_on" THEN "start"
  ELSE IF j.kind \in {"power_off", "power_cycle"} THEN "destroy"
  ELSE j.kind

(* p is a path of job j through the table.                                 *)
Follows(p, j) ==
  /\ p \in Seq(PlanStep) /\ Len(p) > 0
  /\ p[1].do = First(j)
  /\ \A i \in 1..Len(p) :
       /\ Has(j, p[i].do)
       /\ p[i].x = About(j, p[i].do)
       /\ p[i].from = Reads(j, p[i].do)
       /\ p[i].do = "respond" <=> i = Len(p)
       /\ p[i].do # "respond" => Then(j, p[i].do, p[i + 1].do)

(* Step i of p is d.                                                       *)
Is(p, j, i, d) == p[i].do = d /\ p[i].x = About(j, d) /\ p[i].from = Reads(j, d)

Size(p, n) == p \in Seq(PlanStep) /\ Len(p) = n

LEMMA PowerPlan ==
  ASSUME NEW j \in Jobs, j.kind \in {"power_on", "power_off", "power_cycle", "shutdown", "suspend", "resume"}
  PROVE  Follows(Plan(j), j)
<1>1. CASE j.kind = "power_on"
  <2> DEFINE p == Plan(j)
  <2>1. /\ Size(p, 2) /\ Is(p, j, 1, "start")
        /\ Is(p, j, 2, "respond")
    BY <1>1, JobsAssumption DEF Plan, power_cycle, S, Is, Size, PlanStep, StepNames,
           Files, About, Reads, FromSnapshot
  <2> HIDE DEF p
  <2>2. Follows(p, j)
    BY <1>1, <2>1, JobsAssumption DEF Follows, First, Is, Size, Has, Then, Imaging, FromSnapshot
  <2>3. QED
    BY <2>2 DEF p
<1>2. CASE j.kind = "power_off"
  <2> DEFINE p == Plan(j)
  <2>1. /\ Size(p, 2) /\ Is(p, j, 1, "destroy")
        /\ Is(p, j, 2, "respond")
    BY <1>2, JobsAssumption DEF Plan, power_cycle, S, Is, Size, PlanStep, StepNames,
           Files, About, Reads, FromSnapshot
  <2> HIDE DEF p
  <2>2. Follows(p, j)
    BY <1>2, <2>1, JobsAssumption DEF Follows, First, Is, Size, Has, Then, Imaging, FromSnapshot
  <2>3. QED
    BY <2>2 DEF p
<1>3. CASE j.kind = "power_cycle"
  <2> DEFINE p == Plan(j)
  <2>1. /\ Size(p, 3) /\ Is(p, j, 1, "destroy")
        /\ Is(p, j, 2, "start") /\ Is(p, j, 3, "respond")
    BY <1>3, JobsAssumption DEF Plan, power_cycle, S, Is, Size, PlanStep, StepNames,
           Files, About, Reads, FromSnapshot
  <2> HIDE DEF p
  <2>2. Follows(p, j)
    BY <1>3, <2>1, JobsAssumption DEF Follows, First, Is, Size, Has, Then, Imaging, FromSnapshot
  <2>3. QED
    BY <2>2 DEF p
<1>4. CASE j.kind = "shutdown"
  <2> DEFINE p == Plan(j)
  <2>1. /\ Size(p, 2) /\ Is(p, j, 1, "shutdown")
        /\ Is(p, j, 2, "respond")
    BY <1>4, JobsAssumption DEF Plan, power_cycle, S, Is, Size, PlanStep, StepNames,
           Files, About, Reads, FromSnapshot
  <2> HIDE DEF p
  <2>2. Follows(p, j)
    BY <1>4, <2>1, JobsAssumption DEF Follows, First, Is, Size, Has, Then, Imaging, FromSnapshot
  <2>3. QED
    BY <2>2 DEF p
<1>5. CASE j.kind = "suspend"
  <2> DEFINE p == Plan(j)
  <2>1. /\ Size(p, 2) /\ Is(p, j, 1, "suspend")
        /\ Is(p, j, 2, "respond")
    BY <1>5, JobsAssumption DEF Plan, power_cycle, S, Is, Size, PlanStep, StepNames,
           Files, About, Reads, FromSnapshot
  <2> HIDE DEF p
  <2>2. Follows(p, j)
    BY <1>5, <2>1, JobsAssumption DEF Follows, First, Is, Size, Has, Then, Imaging, FromSnapshot
  <2>3. QED
    BY <2>2 DEF p
<1>6. CASE j.kind = "resume"
  <2> DEFINE p == Plan(j)
  <2>1. /\ Size(p, 2) /\ Is(p, j, 1, "resume")
        /\ Is(p, j, 2, "respond")
    BY <1>6, JobsAssumption DEF Plan, power_cycle, S, Is, Size, PlanStep, StepNames,
           Files, About, Reads, FromSnapshot
  <2> HIDE DEF p
  <2>2. Follows(p, j)
    BY <1>6, <2>1, JobsAssumption DEF Follows, First, Is, Size, Has, Then, Imaging, FromSnapshot
  <2>3. QED
    BY <2>2 DEF p
<1>7. QED
  BY <1>1, <1>2, <1>3, <1>4, <1>5, <1>6

LEMMA ResizePlan ==
  ASSUME NEW j \in Jobs, j.kind = "resize"
  PROVE  Follows(Plan(j), j)
<1>1. CASE j.size = NoSize
  <2> DEFINE p == Plan(j)
  <2>1. /\ Size(p, 4) /\ Is(p, j, 1, "require_shutoff")
        /\ Is(p, j, 2, "resize_resources") /\ Is(p, j, 3, "start")
        /\ Is(p, j, 4, "respond")
    BY <1>1, JobsAssumption DEF Plan, resize, S, Is, Size, PlanStep, StepNames, Files,
           About, Reads, FromSnapshot
  <2> HIDE DEF p
  <2>2. Follows(p, j)
    BY <1>1, <2>1, JobsAssumption DEF Follows, First, Is, Size, Has, Then, Imaging, FromSnapshot
  <2>3. QED
    BY <2>2 DEF p
<1>2. CASE j.size # NoSize
  <2> DEFINE p == Plan(j)
  <2>1. /\ Size(p, 6) /\ Is(p, j, 1, "require_shutoff")
        /\ Is(p, j, 2, "resize_resources") /\ Is(p, j, 3, "get_disks")
        /\ Is(p, j, 4, "resize") /\ Is(p, j, 5, "start")
        /\ Is(p, j, 6, "respond")
    BY <1>2, JobsAssumption DEF Plan, resize, S, Is, Size, PlanStep, StepNames, Files,
           About, Reads, FromSnapshot
  <2> HIDE DEF p
  <2>2. Follows(p, j)
    BY <1>2, <2>1, JobsAssumption DEF Follows, First, Is, Size, Has, Then, Imaging, FromSnapshot
  <2>3. QED
    BY <2>2 DEF p
<1>3. QED
  BY <1>1, <1>2

LEMMA SnapshotPlan ==
  ASSUME NEW j \in Jobs, j.kind = "snapshot"
  PROVE  Follows(Plan(j), j)
<1> DEFINE p == Plan(j)
<1>1. /\ Size(p, 4) /\ Is(p, j, 1, "get_disks")
      /\ Is(p, j, 2, "copy_open") /\ Is(p, j, 3, "copy_close")
      /\ Is(p, j, 4, "respond")
  BY JobsAssumption DEF Plan, snapshot, Copy, S, Is, Size, PlanStep, StepNames, Files,
         About, Reads, FromSnapshot
<1> HIDE DEF p
<1>2. Follows(p, j)
  BY <1>1, JobsAssumption DEF Follows, First, Is, Size, Has, Then, Imaging, FromSnapshot
<1>3. QED
  BY <1>2 DEF p

LEMMA RestorePlan ==
  ASSUME NEW j \in Jobs, j.kind = "restore"
  PROVE  Follows(Plan(j), j)
<1> DEFINE p == Plan(j)
<1>1. /\ Size(p, 9) /\ Is(p, j, 1, "get_state")
      /\ Is(p, j, 2, "destroy") /\ Is(p, j, 3, "get_disks")
      /\ Is(p, j, 4, "find_snapshot") /\ Is(p, j, 5, "copy_open")
      /\ Is(p, j, 6, "copy_close") /\ Is(p, j, 7, "fit")
      /\ Is(p, j, 8, "start") /\ Is(p, j, 9, "respond")
  BY JobsAssumption DEF Plan, restore, Stop, Copy, S, Is, Size, PlanStep, StepNames,
         Files, About, Reads, FromSnapshot
<1> HIDE DEF p
<1>2. Follows(p, j)
  BY SMTT(30), <1>1, JobsAssumption DEF Follows, First, Is, Size, Has, Then, Imaging,
         FromSnapshot
<1>3. QED
  BY <1>2 DEF p

LEMMA ResetPasswordPlan ==
  ASSUME NEW j \in Jobs, j.kind = "reset_password"
  PROVE  Follows(Plan(j), j)
<1> DEFINE p == Plan(j)
<1>1. /\ Size(p, 7) /\ Is(p, j, 1, "get_disks")
      /\ Is(p, j, 2, "get_state") /\ Is(p, j, 3, "destroy")
      /\ Is(p, j, 4, "guest_open") /\ Is(p, j, 5, "guest_close")
      /\ Is(p, j, 6, "start") /\ Is(p, j, 7, "respond")
  BY JobsAssumption DEF Plan, reset_password, Stop, Configure, S, Is, Size, PlanStep,
         StepNames, Files, About, Reads, FromSnapshot
<1> HIDE DEF p
<1>2. Follows(p, j)
  BY <1>1, JobsAssumption DEF Follows, First, Is, Size, Has, Then, Imaging, FromSnapshot
<1>3. QED
  BY <1>2 DEF p

LEMMA DeletePlan ==
  ASSUME NEW j \in Jobs, j.kind = "delete"
  PROVE  Follows(Plan(j), j)
<1> DEFINE p == Plan(j)
<1>1. /\ Size(p, 6) /\ Is(p, j, 1, "get_state")
      /\ Is(p, j, 2, "destroy") /\ Is(p, j, 3, "get_disks")
      /\ Is(p, j, 4, "delete_volume") /\ Is(p, j, 5, "undefine")
      /\ Is(p, j, 6, "respond")
  BY JobsAssumption DEF Plan, delete, Stop, S, Is, Size, PlanStep, StepNames, Files,
         About, Reads, FromSnapshot
<1> HIDE DEF p
<1>2. Follows(p, j)
  BY <1>1, JobsAssumption DEF Follows, First, Is, Size, Has, Then, Imaging, FromSnapshot
<1>3. QED
  BY <1>2 DEF p

LEMMA RebuildPlan ==
  ASSUME NEW j \in Jobs, j.kind = "rebuild"
  PROVE  Follows(Plan(j), j)
<1>1. CASE j.second
  <2> DEFINE p == Plan(j)
  <2>1. /\ Size(p, 11) /\ Is(p, j, 1, "get_state")
        /\ Is(p, j, 2, "destroy") /\ Is(p, j, 3, "download")
        /\ Is(p, j, 4, "copy_open") /\ Is(p, j, 5, "copy_close")
        /\ Is(p, j, 6, "resize") /\ Is(p, j, 7, "guest_open")
        /\ Is(p, j, 8, "guest_close") /\ Is(p, j, 9, "create_volume")
        /\ Is(p, j, 10, "start") /\ Is(p, j, 11, "respond")
    BY <1>1, JobsAssumption DEF Plan, rebuild, Stop, DeployTemplate, Copy, Configure,
           SecondVolume, S, Is, Size, PlanStep, StepNames, Files, About, Reads,
           FromSnapshot
  <2> HIDE DEF p
  <2>2. Follows(p, j)
    BY SMTT(30), <1>1, <2>1, JobsAssumption
       DEF Follows, First, Is, Size, Has, Then, Imaging, FromSnapshot
  <2>3. QED
    BY <2>2 DEF p
<1>2. CASE ~j.second
  <2> DEFINE p == Plan(j)
  <2>1. /\ Size(p, 10) /\ Is(p, j, 1, "get_state")
        /\ Is(p, j, 2, "destroy") /\ Is(p, j, 3, "download")
        /\ Is(p, j, 4, "copy_open") /\ Is(p, j, 5, "copy_close")
        /\ Is(p, j, 6, "resize") /\ Is(p, j, 7, "guest_open")
        /\ Is(p, j, 8, "guest_close") /\ Is(p, j, 9, "start")
        /\ Is(p, j, 10, "respond")
    BY <1>2, JobsAssumption DEF Plan, rebuild, Stop, DeployTemplate, Copy, Configure,
           SecondVolume, S, Is, Size, PlanStep, StepNames, Files, About, Reads,
           FromSnapshot
  <2> HIDE DEF p
  <2>2. Follows(p, j)
    BY SMTT(30), <1>2, <2>1, JobsAssumption
       DEF Follows, First, Is, Size, Has, Then, Imaging, FromSnapshot
  <2>3. QED
    BY <2>2 DEF p
<1>3. QED
  BY <1>1, <1>2

LEMMA CreatePlan ==
  ASSUME NEW j \in Jobs, j.kind = "create"
  PROVE  Follows(Plan(j), j)
<1>1. CASE j.s = NoFile /\ j.second
  <2> DEFINE p == Plan(j)
  <2>0. Size(p, 14)
    BY <1>1, JobsAssumption DEF Plan, create, Stop, DeployTemplate, DeploySnapshot,
             Copy, Configure, SecondVolume, S, Size, PlanStep, StepNames, Files, FromSnapshot
  <2>1. /\ Is(p, j, 1, "get_state")
        /\ Is(p, j, 2, "destroy") /\ Is(p, j, 3, "undefine")
        /\ Is(p, j, 4, "pass") /\ Is(p, j, 5, "download")
        /\ Is(p, j, 6, "copy_open") /\ Is(p, j, 7, "copy_close")
        /\ Is(p, j, 8, "resize") /\ Is(p, j, 9, "guest_open")
        /\ Is(p, j, 10, "guest_close") /\ Is(p, j, 11, "create_volume")
        /\ Is(p, j, 12, "define") /\ Is(p, j, 13, "start")
        /\ Is(p, j, 14, "respond")
    BY <1>1, JobsAssumption DEF Plan, create, Stop, DeployTemplate, DeploySnapshot,
             Copy, Configure, SecondVolume, S, Is, About, Reads, FromSnapshot
  <2> HIDE DEF p
  <2>2. \A i \in 1..Len(p) : Has(j, p[i].do)
    BY SMTT(30), <1>1, <2>0, <2>1 DEF Is, Size, Has, Imaging, FromSnapshot
  <2>3. \A i \in 1..7 : Then(j, p[i].do, p[i + 1].do)
    BY <1>1, <2>1 DEF Is, Then, FromSnapshot
  <2>4. \A i \in 8..13 : Then(j, p[i].do, p[i + 1].do)
    BY <1>1, <2>1 DEF Is, Then, FromSnapshot
  <2>5. \A i \in 1..Len(p) : p[i].do = "respond" <=> i = 14
    BY <2>0, <2>1 DEF Is, Size
  <2>6. Follows(p, j)
    BY SMTT(30), <2>0, <2>1, <2>2, <2>3, <2>4, <2>5 DEF Follows, First, Is, Size
  <2>7. QED
    BY <2>6 DEF p
<1>2. CASE j.s = NoFile /\ ~j.second
  <2> DEFINE p == Plan(j)
  <2>0. Size(p, 13)
    BY <1>2, JobsAssumption DEF Plan, create, Stop, DeployTemplate, DeploySnapshot,
             Copy, Configure, SecondVolume, S, Size, PlanStep, StepNames, Files, FromSnapshot
  <2>1. /\ Is(p, j, 1, "get_state")
        /\ Is(p, j, 2, "destroy") /\ Is(p, j, 3, "undefine")
        /\ Is(p, j, 4, "pass") /\ Is(p, j, 5, "download")
        /\ Is(p, j, 6, "copy_open") /\ Is(p, j, 7, "copy_close")
        /\ Is(p, j, 8, "resize") /\ Is(p, j, 9, "guest_open")
        /\ Is(p, j, 10, "guest_close") /\ Is(p, j, 11, "define")
        /\ Is(p, j, 12, "start") /\ Is(p, j, 13, "respond")
    BY <1>2, JobsAssumption DEF Plan, create, Stop, DeployTemplate, DeploySnapshot,
             Copy, Configure, SecondVolume, S, Is, About, Reads, FromSnapshot
  <2> HIDE DEF p
  <2>2. \A i \in 1..Len(p) : Has(j, p[i].do)
    BY SMTT(30), <1>2, <2>0, <2>1 DEF Is, Size, Has, Imaging, FromSnapshot
  <2>3. \A i \in 1..7 : Then(j, p[i].do, p[i + 1].do)
    BY <1>2, <2>1 DEF Is, Then, FromSnapshot
  <2>4. \A i \in 8..12 : Then(j, p[i].do, p[i + 1].do)
    BY <1>2, <2>1 DEF Is, Then, FromSnapshot
  <2>5. \A i \in 1..Len(p) : p[i].do = "respond" <=> i = 13
    BY <2>0, <2>1 DEF Is, Size
  <2>6. Follows(p, j)
    BY SMTT(30), <2>0, <2>1, <2>2, <2>3, <2>4, <2>5 DEF Follows, First, Is, Size
  <2>7. QED
    BY <2>6 DEF p
<1>3. CASE j.s # NoFile /\ j.second
  <2> DEFINE p == Plan(j)
  <2>0. Size(p, 15)
    BY <1>3, JobsAssumption DEF Plan, create, Stop, DeployTemplate, DeploySnapshot,
             Copy, Configure, SecondVolume, S, Size, PlanStep, StepNames, Files, FromSnapshot
  <2>1. /\ Is(p, j, 1, "get_state")
        /\ Is(p, j, 2, "destroy") /\ Is(p, j, 3, "undefine")
        /\ Is(p, j, 4, "pass") /\ Is(p, j, 5, "find_snapshot")
        /\ Is(p, j, 6, "copy_open") /\ Is(p, j, 7, "copy_close")
        /\ Is(p, j, 8, "fit") /\ Is(p, j, 9, "resize")
        /\ Is(p, j, 10, "guest_open") /\ Is(p, j, 11, "guest_close")
        /\ Is(p, j, 12, "create_volume") /\ Is(p, j, 13, "define")
        /\ Is(p, j, 14, "start") /\ Is(p, j, 15, "respond")
    BY <1>3, JobsAssumption DEF Plan, create, Stop, DeployTemplate, DeploySnapshot,
             Copy, Configure, SecondVolume, S, Is, About, Reads, FromSnapshot
  <2> HIDE DEF p
  <2>2. \A i \in 1..Len(p) : Has(j, p[i].do)
    BY SMTT(30), <1>3, <2>0, <2>1 DEF Is, Size, Has, Imaging, FromSnapshot
  <2>3. \A i \in 1..7 : Then(j, p[i].do, p[i + 1].do)
    BY <1>3, <2>1 DEF Is, Then, FromSnapshot
  <2>4. \A i \in 8..14 : Then(j, p[i].do, p[i + 1].do)
    BY <1>3, <2>1 DEF Is, Then, FromSnapshot
  <2>5. \A i \in 1..Len(p) : p[i].do = "respond" <=> i = 15
    BY SMTT(30), <2>0, <2>1 DEF Is, Size
  <2>6. Follows(p, j)
    BY SMTT(30), <2>0, <2>1, <2>2, <2>3, <2>4, <2>5 DEF Follows, First, Is, Size
  <2>7. QED
    BY <2>6 DEF p
<1>4. CASE j.s # NoFile /\ ~j.second
  <2> DEFINE p == Plan(j)
  <2>0. Size(p, 14)
    BY <1>4, JobsAssumption DEF Plan, create, Stop, DeployTemplate, DeploySnapshot,
             Copy, Configure, SecondVolume, S, Size, PlanStep, StepNames, Files, FromSnapshot
  <2>1. /\ Is(p, j, 1, "get_state")
        /\ Is(p, j, 2, "destroy") /\ Is(p, j, 3, "undefine")
        /\ Is(p, j, 4, "pass") /\ Is(p, j, 5, "find_snapshot")
        /\ Is(p, j, 6, "copy_open") /\ Is(p, j, 7, "copy_close")
        /\ Is(p, j, 8, "fit") /\ Is(p, j, 9, "resize")
        /\ Is(p, j, 10, "guest_open") /\ Is(p, j, 11, "guest_close")
        /\ Is(p, j, 12, "define") /\ Is(p, j, 13, "start")
        /\ Is(p, j, 14, "respond")
    BY <1>4, JobsAssumption DEF Plan, create, Stop, DeployTemplate, DeploySnapshot,
             Copy, Configure, SecondVolume, S, Is, About, Reads, FromSnapshot
  <2> HIDE DEF p
  <2>2. \A i \in 1..Len(p) : Has(j, p[i].do)
    BY SMTT(30), <1>4, <2>0, <2>1 DEF Is, Size, Has, Imaging, FromSnapshot
  <2>3. \A i \in 1..7 : Then(j, p[i].do, p[i + 1].do)
    BY <1>4, <2>1 DEF Is, Then, FromSnapshot
  <2>4. \A i \in 8..13 : Then(j, p[i].do, p[i + 1].do)
    BY <1>4, <2>1 DEF Is, Then, FromSnapshot
  <2>5. \A i \in 1..Len(p) : p[i].do = "respond" <=> i = 14
    BY SMTT(30), <2>0, <2>1 DEF Is, Size
  <2>6. Follows(p, j)
    BY SMTT(30), <2>0, <2>1, <2>2, <2>3, <2>4, <2>5 DEF Follows, First, Is, Size
  <2>7. QED
    BY <2>6 DEF p
<1>5. QED
  BY <1>1, <1>2, <1>3, <1>4

LEMMA PlanFollows == \A j \in Jobs : Follows(Plan(j), j)
  BY PowerPlan, ResizePlan, SnapshotPlan, RestorePlan, ResetPasswordPlan, DeletePlan,
     RebuildPlan, CreatePlan, JobsAssumption DEF JobKinds

-----------------------------------------------------------------------------
(* A handler on its plan.  t is what is left of plan p from step n on.     *)
Left(t, p, n) ==
  /\ t \in Seq(PlanStep)
  /\ Len(t) = Len(p) - n + 1
  /\ \A i \in 1..Len(t) : t[i] = p[n + i - 1]

OnPlan(w) ==
  todo[w] # <<>> =>
    /\ job[w] \in Jobs
    /\ \E n \in 1..Len(Plan(job[w])) : Left(todo[w], Plan(job[w]), n)

Idle == [kind |-> "none"]

Controlled ==
  /\ job \in [Workers -> Jobs \cup {Idle}]
  /\ todo \in [Workers -> Seq(PlanStep)]
  /\ alone \in [Workers -> BOOLEAN]
  /\ sound \in [Workers -> BOOLEAN]
  /\ clean \in [Virtances -> BOOLEAN]
  /\ \A w \in Workers : OnPlan(w)

At(w) == Current(w).do

(* Worker w goes on behind step d of its plan.                             *)
GoesOn(w, d) ==
  /\ job' = job
  /\ w \in Busy /\ Busy' = Busy
  /\ Then(job[w], d, At(w)')
  /\ Has(job[w], At(w)')
  /\ Current(w)'.x = About(job[w], At(w)')
  /\ Current(w)'.from = Reads(job[w], At(w)')
  /\ \A u \in Workers : u # w => todo'[u] = todo[u]

LEMMA LeftFirst ==
  ASSUME NEW t, NEW p \in Seq(PlanStep), NEW n \in 1..Len(p), Left(t, p, n)
  PROVE  t # <<>> /\ Head(t) = p[n]
  BY DEF Left

LEMMA LeftRest ==
  ASSUME NEW t, NEW p \in Seq(PlanStep), NEW n \in 1..Len(p), Left(t, p, n),
         NEW k \in Nat, k < Len(t)
  PROVE  Left(SubSeq(t, k + 1, Len(t)), p, n + k) /\ n + k \in 1..Len(p)
  BY DEF Left

(* The step a handler is at is one of the table.                           *)
LEMMA CurrentStep ==
  ASSUME Controlled, NEW w \in Busy
  PROVE  /\ w \in Workers /\ job[w] \in Jobs
         /\ Has(job[w], At(w))
         /\ Current(w).x = About(job[w], At(w))
         /\ Current(w).from = Reads(job[w], At(w))
<1>1. w \in Workers /\ job[w] \in Jobs
  BY DEF Busy, Controlled, OnPlan
<1>2. PICK n \in 1..Len(Plan(job[w])) : Left(todo[w], Plan(job[w]), n)
  BY DEF Busy, Controlled, OnPlan
<1>3. Follows(Plan(job[w]), job[w])
  BY <1>1, PlanFollows
<1>4. Current(w) = Plan(job[w])[n]
  BY <1>2, <1>3, LeftFirst DEF Current, Follows
<1>5. QED
  BY <1>1, <1>3, <1>4 DEF Follows, At

(* Passing over k steps, the last of which is d.                           *)
LEMMA Skipping ==
  ASSUME Controlled, NEW w \in Busy, NEW k \in Nat, k > 0, k <= Len(todo[w]),
         todo[w][k].do # "respond", Skip(w, k)
  PROVE  /\ GoesOn(w, todo[w][k].do) /\ Has(job[w], todo[w][k].do)
         /\ \A u \in Workers : OnPlan(u)'
         /\ todo' \in [Workers -> Seq(PlanStep)]
<1> DEFINE p == Plan(job[w])
<1>1. w \in Workers /\ job[w] \in Jobs /\ todo \in [Workers -> Seq(PlanStep)]
  BY DEF Busy, Controlled, OnPlan
<1>2. PICK n \in 1..Len(p) : Left(todo[w], p, n)
  BY DEF Busy, Controlled, OnPlan
<1>3. Follows(p, job[w])
  BY <1>1, PlanFollows
<1> HIDE DEF p
<1>4. todo[w][k] = p[n + k - 1] /\ n + k - 1 \in 1..Len(p)
  BY <1>2, <1>3 DEF Left, Follows
<1>5. n + k - 1 # Len(p) /\ Then(job[w], p[n + k - 1].do, p[n + k].do)
  BY <1>3, <1>4 DEF Follows
<1>6. k < Len(todo[w])
  BY <1>2, <1>3, <1>5 DEF Left, Follows
<1>7. Left(SubSeq(todo[w], k + 1, Len(todo[w])), p, n + k) /\ n + k \in 1..Len(p)
  BY <1>2, <1>3, <1>6, LeftRest DEF Follows
<1>8. /\ todo' = [todo EXCEPT ![w] = SubSeq(todo[w], k + 1, Len(todo[w]))]
      /\ job' = job
  BY DEF Skip
<1>9. Left(todo'[w], p, n + k)
  BY <1>1, <1>7, <1>8
<1>10. todo'[w] # <<>> /\ Head(todo'[w]) = p[n + k]
  BY <1>3, <1>7, <1>9, LeftFirst DEF Follows
<1>11. \A u \in Workers : u # w => todo'[u] = todo[u]
  BY <1>1, <1>8
<1>12. Busy' = Busy
  BY <1>10, <1>11 DEF Busy
<1>13. /\ Then(job[w], todo[w][k].do, At(w)')
       /\ Has(job[w], At(w)')
       /\ Current(w)'.x = About(job[w], At(w)')
       /\ Current(w)'.from = Reads(job[w], At(w)')
  BY <1>3, <1>4, <1>5, <1>7, <1>10 DEF At, Current, Follows
<1>14. OnPlan(w)'
  BY <1>1, <1>7, <1>8, <1>9 DEF OnPlan, p
<1>15. \A u \in Workers : OnPlan(u)'
  BY <1>8, <1>11, <1>14 DEF OnPlan, Controlled
<1>16. SubSeq(todo[w], k + 1, Len(todo[w])) \in Seq(PlanStep)
  BY <1>7 DEF Left
<1>17. todo' \in [Workers -> Seq(PlanStep)]
  BY <1>1, <1>8, <1>16
<1>18. Has(job[w], todo[w][k].do)
  BY <1>3, <1>4 DEF Follows
<1>19. QED
  BY <1>8, <1>12, <1>11, <1>13, <1>15, <1>17, <1>18 DEF GoesOn

LEMMA Performing ==
  ASSUME Controlled, NEW w \in Workers, NEW d, d # "respond", Perform(w, d)
  PROVE  /\ w \in Busy /\ At(w) = d /\ Possible(w)
         /\ GoesOn(w, d)
         /\ job' = job /\ alone' = alone /\ clean' = clean
         /\ \A u \in Workers : OnPlan(u)'
         /\ todo' \in [Workers -> Seq(PlanStep)]
<1>1. w \in Busy /\ At(w) = d /\ Possible(w) /\ Skip(w, 1)
  BY DEF Perform, Doing, At
<1>2. todo[w] \in Seq(PlanStep) /\ todo[w] # <<>>
  BY <1>1 DEF Busy, Controlled
<1>3. Len(todo[w]) >= 1 /\ todo[w][1].do = d
  BY <1>1, <1>2 DEF At, Current
<1>4. /\ GoesOn(w, todo[w][1].do)
      /\ \A u \in Workers : OnPlan(u)'
      /\ todo' \in [Workers -> Seq(PlanStep)]
  BY <1>1, <1>2, <1>3, Skipping
<1>5. GoesOn(w, d)
  BY <1>3, <1>4
<1>6. QED
  BY <1>1, <1>4, <1>5 DEF Skip

LEMMA SkippingDestroy ==
  ASSUME Controlled, NEW w \in Busy, At(w) = "get_state", Skip(w, 2)
  PROVE  /\ GoesOn(w, "destroy")
         /\ \A u \in Workers : OnPlan(u)'
         /\ todo' \in [Workers -> Seq(PlanStep)]
<1> DEFINE p == Plan(job[w])
<1>1. w \in Workers /\ job[w] \in Jobs
  BY DEF Busy, Controlled, OnPlan
<1>2. PICK n \in 1..Len(p) : Left(todo[w], p, n)
  BY DEF Busy, Controlled, OnPlan
<1>3. Follows(p, job[w])
  BY <1>1, PlanFollows
<1> HIDE DEF p
<1>4. p[n].do = "get_state"
  BY <1>2, <1>3, LeftFirst DEF At, Current, Follows
<1>5. n # Len(p) /\ p[n + 1].do = "destroy"
  BY <1>3, <1>4 DEF Follows, Then
<1>6. Len(p) \in Nat /\ n \in Nat /\ n < Len(p)
  BY <1>3, <1>5 DEF Follows
<1>7. 2 \in 1..Len(todo[w]) /\ n + 2 - 1 = n + 1
  BY <1>2, <1>6 DEF Left
<1>8. todo[w][2] = p[n + 1]
  BY <1>2, <1>7 DEF Left
<1>9. GoesOn(w, todo[w][2].do)
      /\ (\A u \in Workers : OnPlan(u)')
      /\ todo' \in [Workers -> Seq(PlanStep)]
  BY <1>5, <1>7, <1>8, Skipping
<1>10. QED
  BY <1>5, <1>8, <1>9

LEMMA SkippingToPass ==
  ASSUME Controlled, NEW w \in Busy, PassAt(w) # {},
         Skip(w, CHOOSE i \in PassAt(w) : TRUE)
  PROVE  /\ GoesOn(w, "pass") /\ job[w].kind = "create"
         /\ \A u \in Workers : OnPlan(u)'
         /\ todo' \in [Workers -> Seq(PlanStep)]
<1> DEFINE k == CHOOSE i \in PassAt(w) : TRUE
<1>1. k \in PassAt(w)
  OBVIOUS
<1> HIDE DEF k
<1>2. todo[w] \in Seq(PlanStep)
  BY DEF Busy, Controlled
<1>3. k \in Nat /\ k > 0 /\ k <= Len(todo[w]) /\ todo[w][k].do = "pass"
  BY <1>1, <1>2 DEF PassAt
<1>4. Skip(w, k)
  BY DEF k
<1>5. GoesOn(w, todo[w][k].do) /\ Has(job[w], todo[w][k].do)
      /\ (\A u \in Workers : OnPlan(u)')
      /\ todo' \in [Workers -> Seq(PlanStep)]
  BY <1>3, <1>4, Skipping
<1>6. job[w].kind = "create"
  BY <1>3, <1>5 DEF Has, Imaging
<1>7. QED
  BY <1>3, <1>5, <1>6

-----------------------------------------------------------------------------
(* Types, and the handlers that write an image: no active domain has it    *)
(* open.                                                                   *)
Writers ==
  \A x \in Files : WrittenBy(x) # {} =>
    Present(x) /\ (x \in Virtances => ~dom[x].holds)

(* What a handler holds has a size; the copy of an image to a snapshot is  *)
(* held until it is written, since nobody removes a snapshot.              *)
HeldSized == \A w \in Workers : held[w].kind # "absent" <=> held[w].size # NoSize

SnapshotHeld ==
  \A w \in Busy : At(w) = "copy_close" /\ job[w].kind = "snapshot"
                    => held[w].kind # "absent"

BaseInv == TypeOK /\ Controlled /\ HeldSized /\ Writers /\ SnapshotHeld

Closing == {"copy_close", "guest_close"}
Opening == {"copy_open", "guest_open"}

(* The conditions of the steps, one by one.                                *)
LEMMA Conditions ==
  ASSUME NEW w, Possible(w)
  PROVE  /\ At(w) = "get_state" => Exists(Current(w).x)
         /\ At(w) = "require_shutoff" => get_state(Current(w).x) = "shutoff"
         /\ At(w) \in {"destroy", "shutdown", "suspend", "resume"}
              => Active(Current(w).x)
         /\ At(w) = "undefine" => dom[Current(w).x].defined
         /\ At(w) \in {"fit", "resize"} => Fits(w, Current(w).x)
         /\ At(w) \in {"copy_open", "guest_open"} => ~InUse(Current(w).x)
         /\ At(w) = "guest_open" => Present(Current(w).x)
  BY DEF Possible, At

LEMMA CopyConditions ==
  ASSUME NEW w, Possible(w), At(w) = "copy_open"
  PROVE  Current(w).from # Template => Present(Current(w).from)
  BY DEF Possible, At

LEMMA StartConditions ==
  ASSUME NEW w, Possible(w), At(w) = "start"
  PROVE  /\ dom[Current(w).x].defined /\ ~Active(Current(w).x)
         /\ DisksPresent(Current(w).x) /\ WrittenBy(Current(w).x) = {}
  BY DEF Possible, At

(* Which files a step is about.                                            *)
LEMMA Targets ==
  ASSUME Controlled, NEW w \in Busy
  PROVE  /\ w \in Workers /\ job[w] \in Jobs
         /\ job[w].v \in Virtances /\ job[w].s \in Snapshots \cup {NoFile}
         /\ job[w].size \in Nat /\ job[w].second \in BOOLEAN
         /\ Current(w).x \in Files
         /\ Current(w).x = job[w].v \/ (Current(w).x = job[w].s /\ job[w].s # NoFile)
         /\ At(w) \notin {"copy_open", "copy_close", "resize", "guest_open",
                          "guest_close", "find_snapshot"}
              => Current(w).x = job[w].v
<1>1. w \in Workers /\ job[w] \in Jobs /\ Has(job[w], At(w))
      /\ Current(w).x = About(job[w], At(w))
  BY CurrentStep
<1>2. /\ job[w].v \in Virtances /\ job[w].s \in Snapshots \cup {NoFile}
      /\ job[w].size \in Nat /\ job[w].second \in BOOLEAN
      /\ job[w].kind \in {"snapshot", "restore"} => job[w].s # NoFile
  BY <1>1, JobsAssumption
<1>3. About(job[w], At(w)) = job[w].s => job[w].s # NoFile
  BY <1>1, <1>2, NamesAssumption DEF About, Has, FromSnapshot, Imaging
<1>4. About(job[w], At(w)) \in {job[w].s, job[w].v}
  BY DEF About
<1>5. /\ At(w) \notin {"copy_open", "copy_close", "resize", "guest_open",
                       "guest_close", "find_snapshot"}
           => About(job[w], At(w)) = job[w].v
  BY DEF About, FromSnapshot
<1>6. QED
  BY <1>1, <1>2, <1>3, <1>4, <1>5 DEF Files

(* A handler that copies an image copies it to a snapshot.                 *)
LEMMA CopiedImage ==
  ASSUME Controlled, NEW w \in Busy, At(w) \in {"copy_open", "copy_close"},
         Current(w).from \in Virtances
  PROVE  job[w].kind = "snapshot" /\ Current(w).x \in Snapshots
<1>1. /\ job[w] \in Jobs /\ Has(job[w], At(w))
      /\ Current(w).x = About(job[w], At(w))
      /\ Current(w).from = Reads(job[w], At(w))
  BY CurrentStep
<1>2. job[w].s \in Snapshots \cup {NoFile}
      /\ (job[w].kind \in {"snapshot", "restore"} => job[w].s # NoFile)
  BY <1>1, JobsAssumption
<1>3. job[w].kind = "snapshot"
  BY <1>1, <1>2, NamesAssumption DEF Reads, FromSnapshot
<1>4. QED
  BY <1>1, <1>2, <1>3 DEF About

LEMMA InitBase == Init => BaseInv
<1> SUFFICES ASSUME Init PROVE BaseInv
  OBVIOUS
<1>1. Busy = {}
  BY DEF Init, Busy
<1>2. TypeOK
  BY DEF Init, TypeOK, NoDomain, Absent, File, Contents, Kinds, NoSize, NoFile,
         Present, Active
<1>3. Controlled
  BY <1>1 DEF Init, Controlled, OnPlan, Idle
<1>4. HeldSized
  BY DEF Init, HeldSized, Absent, File
<1>5. Writers /\ SnapshotHeld
  BY <1>1 DEF Writers, SnapshotHeld, WrittenBy
<1>6. QED
  BY <1>2, <1>3, <1>4, <1>5 DEF BaseInv

(* A step that opens nothing leaves nobody writing who did not write       *)
(* before.                                                                 *)
LEMMA FewerWriting ==
  ASSUME NEW w \in Busy, NEW d, d \notin Opening, GoesOn(w, d), held' = held
  PROVE  /\ \A x : WrittenBy(x)' \subseteq WrittenBy(x)
         /\ At(w)' \notin Closing
<1>1. At(w)' \notin Closing
  BY DEF GoesOn, Then, Opening, Closing
<1>2. \A u \in Busy : u # w => Current(u)' = Current(u)
  BY DEF GoesOn, Current, Busy
<1>3. Busy' = Busy
  BY DEF GoesOn
<1>4. QED
  BY <1>1, <1>2, <1>3 DEF WrittenBy, At, Closing

LEMMA QuietBase ==
  ASSUME BaseInv, NEW w \in Busy, NEW d, d \notin Opening, GoesOn(w, d), held' = held,
         \A u \in Workers : OnPlan(u)', todo' \in [Workers -> Seq(PlanStep)],
         alone' \in [Workers -> BOOLEAN], sound' \in [Workers -> BOOLEAN],
         clean' \in [Virtances -> BOOLEAN], TypeOK',
         \A x \in Files : Present(x) => Present(x)',
         \A v \in Virtances : dom'[v].holds => dom[v].holds \/ WrittenBy(v) = {}
  PROVE  BaseInv'
<1>1. Controlled'
  BY DEF BaseInv, Controlled, GoesOn
<1>2. HeldSized'
  BY DEF BaseInv, HeldSized
<1>3. Writers'
  BY FewerWriting DEF BaseInv, Writers
<1>4. SnapshotHeld'
  <2> SUFFICES ASSUME NEW u \in Busy', At(u)' = "copy_close", job'[u].kind = "snapshot"
               PROVE  held'[u].kind # "absent"
    BY DEF SnapshotHeld
  <2>1. u # w
    BY FewerWriting DEF Closing
  <2>2. u \in Busy /\ At(u) = "copy_close" /\ job[u].kind = "snapshot"
    BY <2>1 DEF GoesOn, At, Current, Busy
  <2>3. QED
    BY <2>2 DEF BaseInv, SnapshotHeld
<1>5. QED
  BY <1>1, <1>2, <1>3, <1>4 DEF BaseInv

(* The end of a handler.                                                   *)
LEMMA EndsBase ==
  ASSUME BaseInv, NEW w \in Busy, Ends(w), dom' = dom, file' = file, vdb' = vdb,
         alone' \in [Workers -> BOOLEAN], sound' \in [Workers -> BOOLEAN],
         clean' \in [Virtances -> BOOLEAN]
  PROVE  BaseInv'
<1>1. w \in Workers
  BY DEF Busy
<1>2. /\ todo' = [todo EXCEPT ![w] = <<>>]
      /\ job' = [job EXCEPT ![w] = Idle]
      /\ held' = [held EXCEPT ![w] = Absent]
  BY DEF Ends, Idle
<1>3. Absent \in Contents /\ Absent.kind = "absent" /\ Absent.size = NoSize
  BY DEF Absent, File, Contents, Kinds, NoSize, NoFile
<1>4. TypeOK'
  BY <1>1, <1>2, <1>3 DEF BaseInv, TypeOK, Present, Active
<1>5. todo'[w] = <<>> /\ \A u \in Workers : u # w => todo'[u] = todo[u] /\ job'[u] = job[u]
                                                     /\ held'[u] = held[u]
  BY <1>1, <1>2 DEF BaseInv, Controlled, TypeOK
<1>6. <<>> \in Seq(PlanStep)
  OBVIOUS
<1>7. /\ job' \in [Workers -> Jobs \cup {Idle}]
      /\ todo' \in [Workers -> Seq(PlanStep)]
  BY <1>1, <1>2, <1>6 DEF BaseInv, Controlled
<1>8. \A u \in Workers : OnPlan(u)'
  BY <1>5 DEF BaseInv, Controlled, OnPlan
<1>9. Controlled'
  BY <1>7, <1>8 DEF Controlled
<1>10. HeldSized'
  BY <1>1, <1>2, <1>3 DEF BaseInv, TypeOK, HeldSized
<1>11. \A u \in Busy' : u \in Busy /\ u # w /\ u \in Workers /\ Current(u)' = Current(u)
  BY <1>5 DEF Busy, Current
<1>12. \A x : WrittenBy(x)' \subseteq WrittenBy(x)
  BY <1>5, <1>11 DEF WrittenBy
<1>13. Writers'
  BY <1>12 DEF BaseInv, Writers, Present
<1>14. SnapshotHeld'
  BY <1>5, <1>11 DEF BaseInv, SnapshotHeld, At
<1>15. QED
  BY <1>4, <1>9, <1>10, <1>13, <1>14 DEF BaseInv

(* A step of a plan that changes nothing but the domain of its virtance.   *)
LEMMA DomainTyped ==
  ASSUME TypeOK, NEW x \in Virtances, dom' \in [Virtances ->
           [defined : BOOLEAN, second : BOOLEAN, holds : BOOLEAN,
            power : {"shutoff", "running", "paused"}]],
         \A v \in Virtances : v # x => dom'[v] = dom[v],
         dom'[x].holds => dom'[x].power # "shutoff",
         file' = file, vdb' = vdb, held' = held
  PROVE  TypeOK'
<1>1. \A v \in Virtances : dom'[v].holds => Active(v)'
  BY DEF TypeOK, Active
<1>2. QED
  BY <1>1 DEF TypeOK, Present

(* What a step does to the domain it is about, once its conditions hold.   *)
LEMMA DomainStep ==
  ASSUME BaseInv, NEW w \in Workers,
         \/ Destroy(w) \/ Undefine(w) \/ Define(w) \/ Start(w) \/ SuspendOrResume(w)
  PROVE  /\ w \in Busy /\ Current(w).x \in Virtances /\ Current(w).x = job[w].v
         /\ TypeOK'
         /\ \A v \in Virtances : v # Current(w).x => dom'[v] = dom[v]
         /\ file' = file /\ vdb' = vdb /\ held' = held /\ sound' = sound
         /\ \/ /\ Perform(w, "destroy") /\ Active(Current(w).x)
               /\ dom'[Current(w).x] = Off(Current(w).x)
            \/ /\ Perform(w, "undefine") /\ dom[Current(w).x].defined
               /\ dom'[Current(w).x] = IF Active(Current(w).x)
                                       THEN [dom[Current(w).x] EXCEPT !.defined = FALSE]
                                       ELSE NoDomain
            \/ /\ Perform(w, "define")
               /\ dom'[Current(w).x] = [dom[Current(w).x] EXCEPT !.defined = TRUE,
                                          !.second = job[w].second]
            \/ /\ Perform(w, "start")
               /\ dom'[Current(w).x] = [dom[Current(w).x] EXCEPT !.power = "running",
                                          !.holds = TRUE]
            \/ /\ Perform(w, "suspend") /\ Active(Current(w).x)
               /\ dom'[Current(w).x] = [dom[Current(w).x] EXCEPT !.power = "paused"]
            \/ /\ Perform(w, "resume") /\ Active(Current(w).x)
               /\ dom'[Current(w).x] = [dom[Current(w).x] EXCEPT !.power = "running"]
<1> DEFINE x == Current(w).x
           Domains == [defined : BOOLEAN, second : BOOLEAN, holds : BOOLEAN,
                       power : {"shutoff", "running", "paused"}]
<1>1. TypeOK /\ Controlled
  BY DEF BaseInv
<1>2. dom \in [Virtances -> Domains]
  BY <1>1 DEF TypeOK
<1>3. \E d \in {"destroy", "undefine", "define", "start", "suspend", "resume"} : Perform(w, d)
  BY DEF Destroy, Undefine, Define, Start, SuspendOrResume
<1>4. w \in Busy /\ At(w) \in {"destroy", "undefine", "define", "start", "suspend", "resume"}
      /\ Possible(w)
  BY <1>1, <1>3, Performing
<1>5. x = job[w].v /\ x \in Virtances /\ job[w].second \in BOOLEAN
  BY <1>1, <1>4, Targets
<1>6. file' = file /\ vdb' = vdb /\ held' = held /\ sound' = sound
  BY DEF Destroy, Undefine, Define, Start, SuspendOrResume
<1>7. /\ At(w) \in {"destroy", "suspend", "resume"} => Active(x)
      /\ At(w) = "undefine" => dom[x].defined
  BY <1>4, Conditions
<1>8. \A d : Perform(w, d) => At(w) = d
  BY DEF Perform, Doing, At
<1> HIDE DEF x
<1>9. CASE Destroy(w)
  <2>1. dom' = [dom EXCEPT ![x] = Off(x)] /\ Perform(w, "destroy")
    BY <1>9 DEF Destroy, x
  <2>2. Off(x) \in Domains /\ (Off(x).holds => Off(x).power # "shutoff")
    BY <1>2, <1>5 DEF Off, NoDomain
  <2>3. dom' \in [Virtances -> Domains] /\ dom'[x] = Off(x)
        /\ \A v \in Virtances : v # x => dom'[v] = dom[v]
    BY <1>2, <1>5, <2>1, <2>2
  <2>4. TypeOK'
    BY <1>1, <1>5, <1>6, <2>2, <2>3, DomainTyped
  <2>5. QED
    BY <1>4, <1>5, <1>6, <1>7, <1>8, <2>1, <2>3, <2>4 DEF x
<1>10. CASE Undefine(w)
  <2> DEFINE r == IF Active(x) THEN [dom[x] EXCEPT !.defined = FALSE] ELSE NoDomain
  <2>1. dom' = [dom EXCEPT ![x] = r] /\ Perform(w, "undefine")
    BY <1>10 DEF Undefine, x
  <2>2. r \in Domains /\ (r.holds => r.power # "shutoff")
    BY ZenonT(60), <1>1, <1>2, <1>5 DEF NoDomain, TypeOK, Active
  <2>3. dom' \in [Virtances -> Domains] /\ dom'[x] = r
        /\ \A v \in Virtances : v # x => dom'[v] = dom[v]
    BY <1>2, <1>5, <2>1, <2>2
  <2>4. TypeOK'
    BY <1>1, <1>5, <1>6, <2>2, <2>3, DomainTyped
  <2>5. QED
    BY <1>4, <1>5, <1>6, <1>7, <1>8, <2>1, <2>3, <2>4 DEF x
<1>11. CASE Define(w)
  <2> DEFINE r == [dom[x] EXCEPT !.defined = TRUE, !.second = job[w].second]
  <2>1. dom' = [dom EXCEPT ![x].defined = TRUE, ![x].second = job[w].second]
        /\ Perform(w, "define")
    BY <1>11 DEF Define, x
  <2>2. r \in Domains /\ (r.holds => r.power # "shutoff")
    BY ZenonT(60), <1>1, <1>2, <1>5 DEF TypeOK, Active
  <2>3. dom' \in [Virtances -> Domains] /\ dom'[x] = r
        /\ \A v \in Virtances : v # x => dom'[v] = dom[v]
    BY <1>2, <1>5, <2>1, <2>2
  <2>4. TypeOK'
    BY <1>1, <1>5, <1>6, <2>2, <2>3, DomainTyped
  <2>5. QED
    BY <1>4, <1>5, <1>6, <2>1, <2>3, <2>4 DEF x
<1>12. CASE Start(w)
  <2> DEFINE r == [dom[x] EXCEPT !.power = "running", !.holds = TRUE]
  <2>1. dom' = [dom EXCEPT ![x].power = "running", ![x].holds = TRUE]
        /\ Perform(w, "start")
    BY <1>12 DEF Start, x
  <2>2. r \in Domains /\ (r.holds => r.power # "shutoff")
    BY ZenonT(60), <1>1, <1>2, <1>5 DEF TypeOK, Active
  <2>3. dom' \in [Virtances -> Domains] /\ dom'[x] = r
        /\ \A v \in Virtances : v # x => dom'[v] = dom[v]
    BY <1>2, <1>5, <2>1, <2>2
  <2>4. TypeOK'
    BY <1>1, <1>5, <1>6, <2>2, <2>3, DomainTyped
  <2>5. QED
    BY <1>4, <1>5, <1>6, <2>1, <2>3, <2>4 DEF x
<1>13. ASSUME NEW d \in {"suspend", "resume"}, NEW power \in {"paused", "running"},
              d = "suspend" <=> power = "paused",
              Perform(w, d), dom' = [dom EXCEPT ![x].power = power]
       PROVE  /\ TypeOK' /\ dom'[x] = [dom[x] EXCEPT !.power = power]
              /\ \A v \in Virtances : v # x => dom'[v] = dom[v]
  <2>1. dom' \in [Virtances -> Domains] /\ dom'[x] = [dom[x] EXCEPT !.power = power]
        /\ \A v \in Virtances : v # x => dom'[v] = dom[v]
    BY <1>2, <1>5, <1>13
  <2>2. dom'[x].power # "shutoff"
    BY <1>2, <1>5, <1>13, <2>1
  <2>3. TypeOK'
    BY <1>1, <1>5, <1>6, <2>1, <2>2, DomainTyped
  <2>4. QED
    BY <2>1, <2>3
<1>14. CASE SuspendOrResume(w)
  <2>1. CASE Perform(w, "suspend") /\ dom' = [dom EXCEPT ![x].power = "paused"]
    BY <1>4, <1>5, <1>6, <1>7, <1>8, <2>1, <1>13 DEF x
  <2>2. CASE Perform(w, "resume") /\ dom' = [dom EXCEPT ![x].power = "running"]
    BY <1>4, <1>5, <1>6, <1>7, <1>8, <2>2, <1>13 DEF x
  <2>3. QED
    BY <1>14, <2>1, <2>2 DEF SuspendOrResume, x
<1>15. QED
  BY <1>9, <1>10, <1>11, <1>12, <1>14

LEMMA DomainStepBase ==
  ASSUME BaseInv, NEW w \in Workers,
         \/ Destroy(w) \/ Undefine(w) \/ Define(w) \/ Start(w) \/ SuspendOrResume(w)
  PROVE  BaseInv'
<1> DEFINE x == Current(w).x
<1>1. PICK d \in {"destroy", "undefine", "define", "start", "suspend", "resume"} : Perform(w, d)
  BY DomainStep
<1>2. /\ w \in Busy /\ At(w) = d /\ GoesOn(w, d) /\ alone' = alone /\ clean' = clean
      /\ Possible(w)
      /\ (\A u \in Workers : OnPlan(u)') /\ todo' \in [Workers -> Seq(PlanStep)]
  BY <1>1, Performing DEF BaseInv
<1>3. file' = file /\ held' = held /\ sound' = sound /\ TypeOK'
      /\ x \in Virtances /\ \A v \in Virtances : v # x => dom'[v] = dom[v]
  BY DomainStep
<1>4. dom'[x].holds => dom[x].holds \/ WrittenBy(x) = {}
  <2>1. CASE d = "start"
    BY <1>2, <2>1, StartConditions
  <2>2. CASE d # "start"
    <3>1. ~Perform(w, "start")
      BY <1>1, <2>2 DEF Perform, Doing
    <3>2. dom[x] \in [defined : BOOLEAN, second : BOOLEAN, holds : BOOLEAN,
                      power : {"shutoff", "running", "paused"}]
      BY <1>3 DEF BaseInv, TypeOK
    <3>3. Off(x).holds => dom[x].holds
      BY <3>2 DEF Off, NoDomain
    <3>4. CASE dom'[x] = Off(x)
      BY <3>3, <3>4
    <3>5. CASE dom'[x] = IF Active(x) THEN [dom[x] EXCEPT !.defined = FALSE] ELSE NoDomain
      BY <3>2, <3>5 DEF NoDomain
    <3>6. CASE dom'[x] = [dom[x] EXCEPT !.defined = TRUE, !.second = job[w].second]
      BY <3>2, <3>6
    <3>7. CASE dom'[x] = [dom[x] EXCEPT !.power = "paused"]
      BY <3>2, <3>7
    <3>8. CASE dom'[x] = [dom[x] EXCEPT !.power = "running"]
      BY <3>2, <3>8
    <3>9. QED
      BY <3>1, <3>4, <3>5, <3>6, <3>7, <3>8, DomainStep
  <2>3. QED
    BY <2>1, <2>2
<1>5. alone' \in [Workers -> BOOLEAN] /\ sound' \in [Workers -> BOOLEAN]
      /\ clean' \in [Virtances -> BOOLEAN]
  BY <1>2, <1>3 DEF BaseInv, Controlled
<1>6. (\A y \in Files : Present(y) => Present(y)')
      /\ (\A v \in Virtances : dom'[v].holds => dom[v].holds \/ WrittenBy(v) = {})
  BY <1>3, <1>4 DEF Present
<1>7. QED
  BY <1>1, <1>2, <1>3, <1>5, <1>6, QuietBase DEF Opening

(* What a copy reads.                                                      *)
LEMMA CopySource ==
  ASSUME Controlled, NEW w \in Busy, At(w) \in {"copy_open", "copy_close"}
  PROVE  /\ Current(w).from \in Files \cup {Template}
         /\ \/ Current(w).from = Template
            \/ Current(w).from = job[w].v
            \/ Current(w).from = job[w].s /\ job[w].s # NoFile
<1>1. job[w] \in Jobs /\ Current(w).from = Reads(job[w], At(w))
  BY CurrentStep
<1>2. /\ job[w].v \in Virtances /\ job[w].s \in Snapshots \cup {NoFile}
      /\ job[w].kind \in {"snapshot", "restore"} => job[w].s # NoFile
  BY <1>1, JobsAssumption
<1>3. QED
  BY <1>1, <1>2 DEF Reads, FromSnapshot, Files

(* Who reads a file that somebody is about to write holds something.       *)
LEMMA ReadersHold ==
  ASSUME BaseInv, NEW x \in Files, ~InUse(x)
  PROVE  \A u \in ReadBy(x) : held[u].kind # "absent"
<1> SUFFICES ASSUME NEW u \in ReadBy(x) PROVE held[u].kind # "absent"
  OBVIOUS
<1>1. u \in Busy /\ At(u) = "copy_close" /\ Current(u).from = x
  BY DEF ReadBy, At
<1>2. x \in Virtances
  BY DEF InUse, Files
<1>3. job[u].kind = "snapshot"
  BY <1>1, <1>2, CopiedImage DEF BaseInv
<1>4. QED
  BY <1>1, <1>3 DEF BaseInv, SnapshotHeld

(* The beginning of a copy or of a libguestfs session, which takes content *)
(* c and leaves content f in the file.                                     *)
LEMMA OpenBase ==
  ASSUME BaseInv, NEW w \in Workers, NEW d \in Opening, Perform(w, d),
         NEW c \in Contents, c.kind # "absent", c.size # NoSize,
         NEW f \in Contents, f.kind # "absent", f.size # NoSize,
         file' = [file EXCEPT ![Current(w).x] = f],
         held' = Taking(w, Current(w).x, c),
         dom' = dom, vdb' = vdb, sound' = sound
  PROVE  BaseInv'
<1> DEFINE x == Current(w).x
<1>1. /\ w \in Busy /\ At(w) = d /\ Possible(w) /\ GoesOn(w, d)
      /\ job' = job /\ alone' = alone /\ clean' = clean
      /\ \A u \in Workers : OnPlan(u)'
      /\ todo' \in [Workers -> Seq(PlanStep)]
  BY Performing DEF BaseInv, Opening
<1>2. x \in Files /\ ~InUse(x)
  BY <1>1, Targets, Conditions DEF BaseInv, Opening
<1>3. \A u \in ReadBy(x) : held[u].kind # "absent"
  BY <1>2, ReadersHold
<1>4. TypeOK /\ HeldSized
  BY DEF BaseInv
<1> HIDE DEF x
<1>5. held' = [u \in Workers |-> IF u = w THEN c ELSE IF u \in ReadBy(x) THEN Torn(held[u])
                                 ELSE held[u]]
      /\ file' = [file EXCEPT ![x] = f]
  BY DEF Taking, x
<1>6. \A u \in Workers : Torn(held[u]) \in Contents /\ Torn(held[u]).size = held[u].size
                         /\ Torn(held[u]).kind = "torn"
  BY <1>4 DEF TypeOK, Torn, Contents, Kinds
<1>7. held' \in [Workers -> Contents]
  BY <1>4, <1>5, <1>6 DEF TypeOK
<1>8. file' \in [Files -> Contents] /\ file'[x] = f /\ \A y \in Files : y # x => file'[y] = file[y]
  BY ZenonT(60), <1>2, <1>4, <1>5 DEF TypeOK, Files
<1>9. TypeOK'
  BY <1>4, <1>7, <1>8 DEF TypeOK, Present, Active, Files
<1>10. HeldSized'
  BY <1>3, <1>4, <1>5, <1>6 DEF HeldSized
<1>11. Controlled'
  BY <1>1 DEF BaseInv, Controlled
<1>12. \A u \in Busy : u # w => Current(u)' = Current(u) /\ u \in Workers
  BY <1>1 DEF GoesOn, Current, Busy
<1>13. Busy' = Busy /\ held'[w] = c /\ \A u \in Busy : u # w /\ held'[u].kind # "absent"
                                                        => held[u].kind # "absent"
  BY <1>1, <1>3, <1>5, <1>12 DEF GoesOn
<1>14. Current(w)'.x = x
  BY <1>1, CurrentStep DEF BaseInv, GoesOn, Then, About, Opening, x
<1>15. \A y : y # x => WrittenBy(y)' \subseteq WrittenBy(y)
  BY <1>12, <1>13, <1>14 DEF WrittenBy
<1>16. x \in Virtances => ~dom[x].holds
  BY <1>2, <1>4 DEF InUse, TypeOK
<1>17. Writers'
  BY <1>8, <1>15, <1>16 DEF BaseInv, Writers, Present
<1>18. SnapshotHeld'
  <2> SUFFICES ASSUME NEW u \in Busy', At(u)' = "copy_close", job'[u].kind = "snapshot"
               PROVE  held'[u].kind # "absent"
    BY DEF SnapshotHeld
  <2>1. CASE u = w
    BY <1>13, <2>1
  <2>2. CASE u # w
    <3>1. u \in Busy /\ u \in Workers /\ At(u) = "copy_close" /\ job[u].kind = "snapshot"
      BY <1>1, <1>12, <1>13, <2>2 DEF At
    <3>2. held[u].kind # "absent"
      BY <3>1 DEF BaseInv, SnapshotHeld
    <3>3. QED
      BY <1>5, <1>6, <2>2, <3>1, <3>2
  <2>3. QED
    BY <2>1, <2>2
<1>19. QED
  BY <1>9, <1>10, <1>11, <1>17, <1>18 DEF BaseInv

LEMMA CopyOpenBase ==
  ASSUME BaseInv, NEW w \in Workers, CopyOpen(w)
  PROVE  /\ BaseInv'
         /\ Source(Current(w).from) \in Contents
         /\ Source(Current(w).from).kind # "absent"
         /\ Source(Current(w).from).size # NoSize
<1> DEFINE c == Source(Current(w).from)
           from == Current(w).from
<1>1. Perform(w, "copy_open") /\ file' = [file EXCEPT ![Current(w).x] = Torn(c)]
      /\ held' = Taking(w, Current(w).x, c) /\ dom' = dom /\ vdb' = vdb /\ sound' = sound
  BY DEF CopyOpen
<1>2. w \in Busy /\ At(w) = "copy_open" /\ Possible(w)
  BY <1>1, Performing DEF BaseInv
<1>3. from \in Files \cup {Template} /\ (from # Template => Present(from))
  BY <1>2, CopySource, CopyConditions DEF BaseInv
<1>4. c \in Contents /\ c.kind # "absent" /\ c.size # NoSize
  <2>1. CASE from = Template
    BY <2>1 DEF Source, File, Contents, Kinds, NoFile, NoSize, TemplateSize
  <2>2. CASE from # Template
    <3>1. from \in Files /\ file[from] \in Contents /\ file[from].kind # "absent"
          /\ file[from].size # NoSize
      BY <1>3, <2>2 DEF BaseInv, TypeOK, Files, Present
    <3>2. QED
      BY <2>2, <3>1 DEF Source, Torn, Contents, Kinds
  <2>3. QED
    BY <2>1, <2>2
<1>5. Torn(c) \in Contents /\ Torn(c).kind # "absent" /\ Torn(c).size # NoSize
  BY <1>4 DEF Torn, Contents, Kinds
<1>6. QED
  BY <1>1, <1>4, <1>5, OpenBase DEF Opening

LEMMA GuestOpenBase ==
  ASSUME BaseInv, NEW w \in Workers, GuestOpen(w)
  PROVE  BaseInv'
<1> DEFINE x == Current(w).x
           f == [file[x] EXCEPT !.kind = "half"]
<1>1. Perform(w, "guest_open") /\ file' = [file EXCEPT ![x].kind = "half"]
      /\ held' = Taking(w, x, file[x]) /\ dom' = dom /\ vdb' = vdb /\ sound' = sound
  BY DEF GuestOpen
<1>2. w \in Busy /\ At(w) = "guest_open" /\ Possible(w)
  BY <1>1, Performing DEF BaseInv
<1>3. x \in Files /\ Present(x)
  BY <1>2, Targets, Conditions DEF BaseInv
<1>4. file \in [Files -> Contents] /\ file[x].kind # "absent" /\ file[x].size # NoSize
  BY <1>3 DEF BaseInv, TypeOK, Files, Present
<1>5. f \in Contents /\ f.kind # "absent" /\ f.size # NoSize
  BY <1>3, <1>4 DEF Contents, Kinds
<1>6. file' = [file EXCEPT ![x] = f]
  BY <1>1
<1>7. QED
  BY <1>1, <1>3, <1>4, <1>5, <1>6, OpenBase DEF Opening

(* A step that writes content f to a file that has one already.            *)
LEMMA FileTyped ==
  ASSUME TypeOK, NEW x \in Files, NEW f \in Contents, f.kind # "absent", f.size # NoSize,
         file' = [file EXCEPT ![x] = f], dom' = dom, vdb' = vdb, held' = held
  PROVE  /\ TypeOK'
         /\ file'[x] = f /\ \A y \in Files : y # x => file'[y] = file[y]
         /\ \A y \in Files : Present(y) => Present(y)'
<1>1. file' \in [Files -> Contents] /\ file'[x] = f
      /\ \A y \in Files : y # x => file'[y] = file[y]
  BY DEF TypeOK, Files
<1>2. QED
  BY <1>1 DEF TypeOK, Files, Present, Active

LEMMA WrittenHeld ==
  ASSUME NEW w \in Busy, At(w) \in Closing, held[w].kind # "absent"
  PROVE  w \in WrittenBy(Current(w).x)
  BY DEF WrittenBy, At, Closing

(* What the end of a copy or of a libguestfs session, and a resize, leave  *)
(* in the file.                                                            *)
LEMMA FileStep ==
  ASSUME BaseInv, NEW w \in Workers, CopyClose(w) \/ Grow(w) \/ GuestClose(w)
  PROVE  /\ w \in Busy /\ Current(w).x \in Files
         /\ TypeOK' /\ dom' = dom /\ vdb' = vdb /\ held' = held
         /\ \A y \in Files : y # Current(w).x => file'[y] = file[y]
         /\ \A y \in Files : Present(y) => Present(y)'
         /\ \/ /\ Perform(w, "copy_close")
               /\ file'[Current(w).x] = IF held[w].kind = "absent" THEN file[Current(w).x]
                                        ELSE held[w]
               /\ sound' = [sound EXCEPT ![w] = @ /\ (held[w].kind = "ready"
                                                 \/ Current(w).from \notin Snapshots)]
            \/ /\ Perform(w, "fit") \/ Perform(w, "resize")
               /\ file'[Current(w).x] = [file[Current(w).x] EXCEPT !.size = job[w].size]
               /\ sound' = sound
            \/ /\ Perform(w, "guest_close")
               /\ file'[Current(w).x] =
                    IF held[w].kind = "absent" THEN file[Current(w).x]
                    ELSE IF job[w].kind = "reset_password"
                         THEN [file[Current(w).x] EXCEPT !.kind = held[w].kind]
                         ELSE [file[Current(w).x] EXCEPT !.kind = "ready", !.owner = job[w].v]
               /\ sound' = sound
<1> DEFINE x == Current(w).x
<1>1. TypeOK /\ Controlled /\ HeldSized /\ Writers
  BY DEF BaseInv
<1>2. PICK d \in {"copy_close", "fit", "resize", "guest_close"} : Perform(w, d)
  BY DEF CopyClose, Grow, GuestClose
<1>3. w \in Busy /\ At(w) = d /\ Possible(w)
  BY <1>1, <1>2, Performing
<1>4. x \in Files /\ job[w].size \in Nat /\ job[w].v \in Virtances
  BY <1>1, <1>3, Targets
<1>5. file \in [Files -> Contents] /\ file[x] \in Contents /\ held[w] \in Contents
      /\ (file[x].kind # "absent" <=> file[x].size # NoSize)
      /\ (held[w].kind # "absent" <=> held[w].size # NoSize)
  BY <1>1, <1>4 DEF TypeOK, Files, Present, HeldSized
<1>6. dom' = dom /\ vdb' = vdb /\ held' = held
  BY DEF CopyClose, Grow, GuestClose
<1>7. ASSUME file' = file
      PROVE  /\ TypeOK' /\ file'[x] = file[x]
             /\ \A y \in Files : y # x => file'[y] = file[y]
             /\ \A y \in Files : Present(y) => Present(y)'
  BY <1>1, <1>6, <1>7 DEF TypeOK, Present, Active
<1>8. \A e : Perform(w, e) => At(w) = e
  BY DEF Perform, Doing, At
<1> HIDE DEF x
<1>9. CASE CopyClose(w)
  <2>1. /\ Perform(w, "copy_close")
        /\ file' = IF held[w].kind = "absent" THEN file ELSE [file EXCEPT ![x] = held[w]]
        /\ sound' = [sound EXCEPT ![w] = @ /\ (held[w].kind = "ready" \/ Current(w).from \notin Snapshots)]
    BY <1>9 DEF CopyClose, x
  <2>2. CASE held[w].kind = "absent"
    BY <1>3, <1>4, <1>6, <1>7, <2>1, <2>2 DEF x
  <2>3. CASE held[w].kind # "absent"
    <3>1. file' = [file EXCEPT ![x] = held[w]]
      BY <2>1, <2>3
    <3>2. /\ TypeOK' /\ file'[x] = held[w]
          /\ \A y \in Files : y # x => file'[y] = file[y]
          /\ \A y \in Files : Present(y) => Present(y)'
      BY <1>1, <1>4, <1>5, <1>6, <2>3, <3>1, FileTyped
    <3>3. QED
      BY <1>3, <1>4, <1>6, <2>1, <2>3, <3>2 DEF x
  <2>4. QED
    BY <2>2, <2>3
<1>10. CASE Grow(w)
  <2> DEFINE f == [file[x] EXCEPT !.size = job[w].size]
  <2>1. file' = [file EXCEPT ![x] = f] /\ sound' = sound
        /\ (Perform(w, "fit") \/ Perform(w, "resize"))
    BY <1>10 DEF Grow, x
  <2>2. At(w) \in {"fit", "resize"}
    BY <1>8, <2>1
  <2>3. Present(x) /\ file[x].size <= job[w].size
    BY <1>3, <2>2, Conditions DEF Fits, x
  <2>4. f \in Contents /\ f.kind # "absent" /\ f.size # NoSize
    BY <1>4, <1>5, <2>3 DEF Contents, Present, NoSize
  <2>5. /\ TypeOK' /\ file'[x] = f
        /\ \A y \in Files : y # x => file'[y] = file[y]
        /\ \A y \in Files : Present(y) => Present(y)'
    BY <1>1, <1>4, <1>6, <2>1, <2>4, FileTyped
  <2>6. QED
    BY <1>3, <1>4, <1>6, <2>1, <2>5 DEF x
<1>11. CASE GuestClose(w)
  <2>1. Perform(w, "guest_close") /\ sound' = sound /\ At(w) = "guest_close"
    BY <1>8, <1>11 DEF GuestClose
  <2>2. CASE held[w].kind = "absent"
    <3>1. file' = file
      BY <1>11, <2>2 DEF GuestClose
    <3>2. QED
      BY <1>3, <1>4, <1>6, <1>7, <2>1, <2>2, <3>1 DEF x
  <2>3. CASE held[w].kind # "absent"
    <3>1. w \in WrittenBy(x)
      BY <1>3, <2>1, <2>3, WrittenHeld DEF Closing, x
    <3>2. file[x].kind # "absent"
      BY <1>1, <1>4, <3>1 DEF Writers, Present
    <3>3. CASE job[w].kind = "reset_password"
      <4> DEFINE f == [file[x] EXCEPT !.kind = held[w].kind]
      <4>1. file' = [file EXCEPT ![x] = f]
        BY <1>11, <2>3, <3>3 DEF GuestClose, x
      <4>2. f \in Contents /\ f.kind # "absent" /\ f.size # NoSize
        BY <1>5, <2>3, <3>2 DEF Contents
      <4>3. /\ TypeOK' /\ file'[x] = f
            /\ \A y \in Files : y # x => file'[y] = file[y]
            /\ \A y \in Files : Present(y) => Present(y)'
        BY <1>1, <1>4, <1>6, <4>1, <4>2, FileTyped
      <4>4. QED
        BY <1>3, <1>4, <1>6, <2>1, <2>3, <3>3, <4>3 DEF x
    <3>4. CASE job[w].kind # "reset_password"
      <4> DEFINE f == [file[x] EXCEPT !.kind = "ready", !.owner = job[w].v]
      <4>1. file' = [file EXCEPT ![x].kind = "ready", ![x].owner = job[w].v]
        BY <1>11, <2>3, <3>4 DEF GuestClose, x
      <4>2. file' = [file EXCEPT ![x] = f]
        BY <1>4, <1>5, <4>1
      <4>3. f \in Contents /\ f.kind # "absent" /\ f.size # NoSize
        BY <1>4, <1>5, <3>2 DEF Contents, Kinds
      <4>4. /\ TypeOK' /\ file'[x] = f
            /\ \A y \in Files : y # x => file'[y] = file[y]
            /\ \A y \in Files : Present(y) => Present(y)'
        BY <1>1, <1>4, <1>6, <4>2, <4>3, FileTyped
      <4>5. QED
        BY <1>3, <1>4, <1>6, <2>1, <2>3, <3>4, <4>4 DEF x
    <3>5. QED
      BY <3>3, <3>4
  <2>4. QED
    BY <2>2, <2>3
<1>12. QED
  BY <1>9, <1>10, <1>11

LEMMA FileStepBase ==
  ASSUME BaseInv, NEW w \in Workers, CopyClose(w) \/ Grow(w) \/ GuestClose(w)
  PROVE  BaseInv'
<1>1. PICK d \in {"copy_close", "fit", "resize", "guest_close"} : Perform(w, d)
  BY DEF CopyClose, Grow, GuestClose
<1>2. /\ w \in Busy /\ GoesOn(w, d) /\ alone' = alone /\ clean' = clean
      /\ (\A u \in Workers : OnPlan(u)') /\ todo' \in [Workers -> Seq(PlanStep)]
  BY <1>1, Performing DEF BaseInv
<1>3. /\ TypeOK' /\ dom' = dom /\ held' = held
      /\ \A y \in Files : Present(y) => Present(y)'
  BY FileStep
<1>4. alone' \in [Workers -> BOOLEAN] /\ clean' \in [Virtances -> BOOLEAN]
  BY <1>2 DEF BaseInv, Controlled
<1>5. sound' \in [Workers -> BOOLEAN]
  BY DEF BaseInv, Controlled, CopyClose, Grow, GuestClose
<1>6. QED
  BY <1>1, <1>2, <1>3, <1>4, <1>5, QuietBase DEF Opening


(* The steps that change no file, no domain and nothing that is held.      *)
LEMMA IdleTyped ==
  ASSUME TypeOK, dom' = dom, file' = file, held' = held, vdb' \in [Virtances -> BOOLEAN]
  PROVE  TypeOK'
  BY DEF TypeOK, Present, Active

LEMMA QuietStepBase ==
  ASSUME BaseInv, NEW w \in Workers, Look(w) \/ GetState(w) \/ CreateVolume(w)
  PROVE  BaseInv'
<1>1. dom' = dom /\ file' = file /\ held' = held /\ sound' = sound
  BY DEF Look, GetState, CreateVolume
<1>2. vdb' \in [Virtances -> BOOLEAN]
  BY DEF BaseInv, TypeOK, Look, GetState, CreateVolume
<1>3. TypeOK'
  BY <1>1, <1>2, IdleTyped DEF BaseInv
<1>4. /\ w \in Busy /\ alone' = alone /\ clean' = clean
      /\ \A u \in Workers : OnPlan(u)'
      /\ todo' \in [Workers -> Seq(PlanStep)]
      /\ \E d : d \notin Opening /\ GoesOn(w, d)
  <2>1. CASE \E d \in {"require_shutoff", "resize_resources", "get_disks", "find_snapshot",
                       "download", "shutdown", "pass", "create_volume"} : Perform(w, d)
    <3>1. PICK d \in {"require_shutoff", "resize_resources", "get_disks", "find_snapshot",
                      "download", "shutdown", "pass", "create_volume"} : Perform(w, d)
      BY <2>1
    <3>2. d # "respond" /\ d \notin Opening
      BY DEF Opening
    <3>3. QED
      BY <3>1, <3>2, Performing DEF BaseInv
  <2>2. CASE GetState(w)
    <3>1. w \in Busy /\ At(w) = "get_state" /\ (Skip(w, 1) \/ Skip(w, 2)) /\ Possible(w)
      BY <2>2 DEF GetState, Doing, At
    <3>2. CASE Skip(w, 1)
      <4>1. Perform(w, "get_state")
        BY <3>1, <3>2 DEF Perform, Doing, At
      <4>2. QED
        BY <4>1, Performing DEF BaseInv, Opening
    <3>3. CASE Skip(w, 2)
      BY <3>1, <3>3, SkippingDestroy DEF BaseInv, Skip, Opening
    <3>4. QED
      BY <3>1, <3>2, <3>3
  <2>3. QED
    BY <2>1, <2>2 DEF Look, CreateVolume
<1>5. /\ alone' \in [Workers -> BOOLEAN] /\ sound' \in [Workers -> BOOLEAN]
      /\ clean' \in [Virtances -> BOOLEAN]
      /\ \A x \in Files : Present(x) => Present(x)'
      /\ \A v \in Virtances : dom'[v].holds => dom[v].holds \/ WrittenBy(v) = {}
  BY <1>1, <1>4 DEF BaseInv, Controlled, Present
<1>6. QED
  BY <1>1, <1>3, <1>4, <1>5, QuietBase

(* What delete_volume() leaves: nobody writes the image any more.          *)
LEMMA DeleteStep ==
  ASSUME BaseInv, NEW w \in Workers, DeleteVolume(w)
  PROVE  /\ w \in Busy /\ At(w) = "delete_volume" /\ GoesOn(w, "delete_volume")
         /\ alone' = alone /\ clean' = clean /\ sound' = sound /\ vdb' = vdb /\ job' = job
         /\ \A u \in Workers : OnPlan(u)'
         /\ todo' \in [Workers -> Seq(PlanStep)]
         /\ Current(w).x = job[w].v /\ job[w].v \in Virtances
         /\ file' = [file EXCEPT ![job[w].v] = Absent]
         /\ dom' = [dom EXCEPT ![job[w].v].holds = FALSE]
         /\ held' = [u \in Workers |-> IF u \in WrittenBy(job[w].v) THEN Absent ELSE held[u]]
<1>1. Perform(w, "delete_volume") /\ sound' = sound /\ vdb' = vdb
      /\ file' = [file EXCEPT ![Current(w).x] = Absent]
      /\ dom' = [dom EXCEPT ![Current(w).x].holds = FALSE]
      /\ held' = [u \in Workers |-> IF u \in WrittenBy(Current(w).x) THEN Absent ELSE held[u]]
  BY DEF DeleteVolume
<1>2. w \in Busy /\ At(w) = "delete_volume" /\ GoesOn(w, "delete_volume")
      /\ alone' = alone /\ clean' = clean /\ job' = job
      /\ (\A u \in Workers : OnPlan(u)')
      /\ todo' \in [Workers -> Seq(PlanStep)]
  BY <1>1, Performing DEF BaseInv
<1>3. Current(w).x = job[w].v /\ job[w].v \in Virtances
  BY <1>2, Targets DEF BaseInv
<1>4. QED
  BY <1>1, <1>2, <1>3

LEMMA DeleteVolumeBase ==
  ASSUME BaseInv, NEW w \in Workers, DeleteVolume(w)
  PROVE  BaseInv'
<1>0. PICK x : x = job[w].v
  OBVIOUS
<1>1. /\ w \in Busy /\ At(w) = "delete_volume" /\ GoesOn(w, "delete_volume")
      /\ alone' = alone /\ clean' = clean /\ sound' = sound /\ vdb' = vdb /\ job' = job
      /\ (\A u \in Workers : OnPlan(u)')
      /\ todo' \in [Workers -> Seq(PlanStep)]
      /\ x \in Virtances
      /\ file' = [file EXCEPT ![x] = Absent]
      /\ dom' = [dom EXCEPT ![x].holds = FALSE]
      /\ held' = [u \in Workers |-> IF u \in WrittenBy(x) THEN Absent ELSE held[u]]
  BY <1>0, DeleteStep
<1>2. TypeOK /\ HeldSized /\ Writers /\ SnapshotHeld /\ Controlled
  BY DEF BaseInv
<1>3. Absent \in Contents /\ Absent.kind = "absent" /\ Absent.size = NoSize
  BY DEF Absent, File, Contents, Kinds, NoSize, NoFile
<1>4. held' \in [Workers -> Contents] /\ HeldSized'
  BY <1>1, <1>2, <1>3 DEF TypeOK, HeldSized
<1>5. file' \in [Files -> Contents] /\ file'[x] = Absent
      /\ \A y \in Files : y # x => file'[y] = file[y]
  BY <1>1, <1>2, <1>3 DEF TypeOK, Files
<1>6. dom' \in [Virtances -> [defined : BOOLEAN, second : BOOLEAN, holds : BOOLEAN,
                              power : {"shutoff", "running", "paused"}]]
      /\ dom'[x].holds = FALSE /\ \A v \in Virtances : v # x => dom'[v] = dom[v]
  BY <1>1, <1>2 DEF TypeOK
<1>7. TypeOK'
  <2>1. \A v \in Virtances : dom'[v].holds => Active(v)'
    BY <1>2, <1>6 DEF TypeOK, Active
  <2>2. \A y \in Files : Present(y)' <=> file'[y].size # NoSize
    BY <1>2, <1>3, <1>5 DEF TypeOK, Present, Files
  <2>3. QED
    BY <1>1, <1>2, <1>4, <1>5, <1>6, <2>1, <2>2 DEF TypeOK, Files
<1>8. Controlled'
  BY <1>1, <1>2 DEF Controlled
<1>9. At(w)' \notin Closing /\ Busy' = Busy /\ \A u \in Busy : u # w => Current(u)' = Current(u)
  BY <1>1 DEF GoesOn, Then, Closing, Current, Busy
<1>10. \A u \in Busy : u \in Workers
  BY DEF Busy
<1>11. \A u \in Workers : held'[u].kind # "absent" => held'[u] = held[u] /\ u \notin WrittenBy(x)
  BY <1>1, <1>3
<1>12. WrittenBy(x)' = {}
  BY <1>9, <1>10, <1>11 DEF WrittenBy, At, Closing
<1>13. Writers'
  <2> SUFFICES ASSUME NEW y \in Files, WrittenBy(y)' # {}
               PROVE  Present(y)' /\ (y \in Virtances => ~dom'[y].holds)
    BY DEF Writers
  <2>1. WrittenBy(y) # {}
    BY <1>9, <1>10, <1>11 DEF WrittenBy, At, Closing
  <2>2. QED
    BY <1>2, <1>5, <1>6, <1>12, <2>1 DEF Writers, Present
<1>14. SnapshotHeld'
  <2> SUFFICES ASSUME NEW u \in Busy', At(u)' = "copy_close", job'[u].kind = "snapshot"
               PROVE  held'[u].kind # "absent"
    BY DEF SnapshotHeld
  <2>1. u # w /\ u \in Busy /\ At(u) = "copy_close" /\ job[u].kind = "snapshot"
    BY <1>1, <1>9 DEF At, Closing
  <2>2. held[u].kind # "absent"
    BY <1>2, <2>1 DEF SnapshotHeld
  <2>3. Current(u).x = About(job[u], "copy_close") /\ job[u] \in Jobs
    BY <1>2, <2>1, CurrentStep
  <2>4. Current(u).x \in Snapshots
    BY <2>1, <2>3, JobsAssumption DEF About
  <2>5. u \notin WrittenBy(x)
    BY <1>1, <2>4, NamesAssumption DEF WrittenBy
  <2>6. QED
    BY <1>1, <1>10, <2>1, <2>2, <2>5
<1>15. QED
  BY <1>4, <1>7, <1>8, <1>13, <1>14 DEF BaseInv

LEMMA RaiseBase ==
  ASSUME BaseInv, NEW w \in Workers, StepRaises(w)
  PROVE  BaseInv'
<1>1. w \in Busy /\ dom' = dom /\ file' = file /\ vdb' = vdb /\ sound' = sound
  BY DEF StepRaises
<1>2. sound' \in [Workers -> BOOLEAN]
  BY <1>1 DEF BaseInv, Controlled
<1>3. CASE PassAt(w) # {} /\ Skip(w, CHOOSE i \in PassAt(w) : TRUE) /\ held' = held
  <2>1. GoesOn(w, "pass") /\ (\A u \in Workers : OnPlan(u)')
        /\ todo' \in [Workers -> Seq(PlanStep)]
    BY <1>1, <1>3, SkippingToPass DEF BaseInv
  <2>2. alone' \in [Workers -> BOOLEAN] /\ clean' \in [Virtances -> BOOLEAN]
    BY <1>3 DEF Skip, BaseInv, Controlled
  <2>3. TypeOK'
    BY <1>1, <1>3, IdleTyped DEF BaseInv, TypeOK
  <2>4. (\A x \in Files : Present(x) => Present(x)')
        /\ (\A v \in Virtances : dom'[v].holds => dom[v].holds \/ WrittenBy(v) = {})
    BY <1>1 DEF Present
  <2>5. "pass" \notin Opening
    BY DEF Opening
  <2>6. QED
    BY <1>1, <1>2, <1>3, <2>1, <2>2, <2>3, <2>4, <2>5, QuietBase
<1>4. CASE Ends(w) /\ clean' = [clean EXCEPT ![job[w].v] = FALSE] /\ alone' = alone
  <2>1. alone' \in [Workers -> BOOLEAN] /\ clean' \in [Virtances -> BOOLEAN]
    BY <1>4 DEF BaseInv, Controlled
  <2>2. QED
    BY <1>1, <1>2, <1>4, <2>1, EndsBase
<1>5. QED
  BY <1>3, <1>4 DEF StepRaises

LEMMA RespondBase ==
  ASSUME BaseInv, NEW w \in Workers, Respond(w)
  PROVE  BaseInv'
<1>1. w \in Busy /\ Ends(w) /\ dom' = dom /\ file' = file /\ vdb' = vdb
      /\ alone' = alone /\ sound' = sound
  BY DEF Respond, Doing
<1>2. job[w] \in Jobs /\ job[w].v \in Virtances
  BY <1>1, Targets DEF BaseInv
<1>3. clean' \in [Virtances -> BOOLEAN]
  <2>1. PICK b \in BOOLEAN : clean' = [clean EXCEPT ![job[w].v] = b]
    <3>1. clean[job[w].v] \in BOOLEAN /\ alone[w] \in BOOLEAN /\ sound[w] \in BOOLEAN
      BY <1>2 DEF BaseInv, Controlled
    <3> DEFINE b == /\ alone[w] /\ sound[w]
                    /\ clean[job[w].v] \/ job[w].kind \in {"create", "rebuild", "delete"}
    <3>2. b \in BOOLEAN
      BY <3>1, Zenon
    <3>3. clean' = [clean EXCEPT ![job[w].v] = b]
      BY DEF Respond
    <3> HIDE DEF b
    <3>4. QED
      BY <3>2, <3>3
  <2>2. QED
    BY <2>1 DEF BaseInv, Controlled
<1>4. alone' \in [Workers -> BOOLEAN] /\ sound' \in [Workers -> BOOLEAN]
  BY <1>1 DEF BaseInv, Controlled
<1>5. QED
  BY <1>1, <1>3, <1>4, EndsBase

(* A new handler begins at the first step of its plan.                     *)
LEMMA Beginning ==
  ASSUME BaseInv, NEW w \in Workers, NEW j \in Jobs, Request(w, j)
  PROVE  /\ w \notin Busy /\ Busy' = Busy \cup {w}
         /\ job'[w] = j /\ At(w)' = First(j)
         /\ Current(w)'.x = About(j, First(j))
         /\ \A u \in Busy : u # w /\ todo'[u] = todo[u] /\ job'[u] = job[u]
         /\ \A u \in Workers : OnPlan(u)'
         /\ todo' \in [Workers -> Seq(PlanStep)]
         /\ job' \in [Workers -> Jobs \cup {Idle}]
<1> DEFINE p == Plan(j)
<1>1. job' = [job EXCEPT ![w] = j] /\ todo' = [todo EXCEPT ![w] = p] /\ w \notin Busy
  BY DEF Request
<1>2. Follows(p, j)
  BY PlanFollows
<1>3. /\ p \in Seq(PlanStep) /\ Len(p) > 0 /\ p[1].do = First(j)
      /\ p[1].x = About(j, First(j))
  BY <1>2 DEF Follows
<1> HIDE DEF p
<1>4. /\ todo' \in [Workers -> Seq(PlanStep)] /\ job' \in [Workers -> Jobs \cup {Idle}]
      /\ todo'[w] = p /\ job'[w] = j
      /\ \A u \in Workers : u # w => todo'[u] = todo[u] /\ job'[u] = job[u]
  BY <1>1, <1>3 DEF BaseInv, Controlled
<1>5. p # <<>> /\ Head(p) = p[1] /\ 1 \in 1..Len(p) /\ Left(p, p, 1)
  BY <1>3 DEF Left
<1>6. Busy' = Busy \cup {w}
  BY <1>4, <1>5 DEF Busy
<1>7. At(w)' = First(j) /\ Current(w)'.x = About(j, First(j))
  BY <1>3, <1>4, <1>5 DEF At, Current
<1>8. OnPlan(w)'
  BY <1>4, <1>5 DEF OnPlan, p
<1>9. \A u \in Workers : OnPlan(u)'
  BY <1>4, <1>8 DEF OnPlan, BaseInv, Controlled
<1>10. \A u \in Busy : u # w /\ todo'[u] = todo[u] /\ job'[u] = job[u]
  BY <1>1, <1>4 DEF Busy
<1>11. QED
  BY <1>1, <1>4, <1>6, <1>7, <1>9, <1>10

LEMMA RequestBase ==
  ASSUME BaseInv, NEW w \in Workers, NEW j \in Jobs, Request(w, j)
  PROVE  BaseInv'
<1>1. /\ w \notin Busy /\ Busy' = Busy \cup {w} /\ At(w)' = First(j)
      /\ \A u \in Busy : u # w /\ todo'[u] = todo[u] /\ job'[u] = job[u]
      /\ \A u \in Workers : OnPlan(u)'
      /\ todo' \in [Workers -> Seq(PlanStep)]
      /\ job' \in [Workers -> Jobs \cup {Idle}]
  BY Beginning
<1>2. dom' = dom /\ file' = file /\ vdb' = vdb /\ held' = held
  BY DEF Request
<1>3. TypeOK'
  BY <1>2, IdleTyped DEF BaseInv, TypeOK
<1>4. alone' \in [Workers -> BOOLEAN] /\ sound' \in [Workers -> BOOLEAN]
      /\ clean' \in [Virtances -> BOOLEAN]
  <2> DEFINE sharing == {u \in Busy : Uses(u) \cap {j.v, j.s} # {}}
             gone == {j.v} \cup {job[u].v : u \in sharing}
  <2>1. /\ alone' = [u \in Workers |-> IF u = w THEN sharing = {}
                                       ELSE alone[u] /\ u \notin sharing]
        /\ sound' = [sound EXCEPT ![w] = TRUE]
        /\ clean' = [v \in Virtances |-> clean[v] /\ (sharing = {} \/ v \notin gone)]
    BY DEF Request
  <2> HIDE DEF sharing, gone
  <2>2. alone \in [Workers -> BOOLEAN] /\ sound \in [Workers -> BOOLEAN]
        /\ clean \in [Virtances -> BOOLEAN]
    BY DEF BaseInv, Controlled
  <2>3. alone' \in [Workers -> BOOLEAN]
    BY <2>1, <2>2, Zenon
  <2>4. sound' \in [Workers -> BOOLEAN]
    BY <2>1, <2>2
  <2>5. clean' \in [Virtances -> BOOLEAN]
    BY <2>1, <2>2, Zenon
  <2>6. QED
    BY <2>3, <2>4, <2>5
<1>5. Controlled'
  BY <1>1, <1>4 DEF Controlled
<1>6. HeldSized'
  BY <1>2 DEF BaseInv, HeldSized
<1>7. At(w)' \notin Closing
  BY <1>1, JobsAssumption DEF First, JobKinds, Closing
<1>8. \A u \in Busy : u # w /\ Current(u)' = Current(u)
  BY <1>1 DEF Current
<1>9. Writers'
  BY <1>1, <1>2, <1>7, <1>8 DEF BaseInv, Writers, WrittenBy, Present, At, Closing
<1>10. SnapshotHeld'
  BY <1>1, <1>2, <1>7, <1>8 DEF BaseInv, SnapshotHeld, At, Closing
<1>11. QED
  BY <1>3, <1>5, <1>6, <1>9, <1>10 DEF BaseInv

(* A domain that stops.                                                    *)
LEMMA OffTyped ==
  ASSUME TypeOK, NEW v \in Virtances
  PROVE  /\ Off(v) \in [defined : BOOLEAN, second : BOOLEAN, holds : BOOLEAN,
                        power : {"shutoff", "running", "paused"}]
         /\ Off(v).holds = FALSE /\ Off(v).power = "shutoff"
         /\ Off(v).defined = dom[v].defined
  BY DEF TypeOK, Off, NoDomain

LEMMA PowersOffBase ==
  ASSUME BaseInv, NEW v \in Virtances, GuestPowersOff(v)
  PROVE  BaseInv'
<1>1. TypeOK
  BY DEF BaseInv
<1>2. dom' = [dom EXCEPT ![v] = Off(v)] /\ file' = file /\ vdb' = vdb /\ held' = held
      /\ job' = job /\ todo' = todo /\ alone' = alone /\ sound' = sound /\ clean' = clean
  BY DEF GuestPowersOff
<1>3. dom' \in [Virtances -> [defined : BOOLEAN, second : BOOLEAN, holds : BOOLEAN,
                              power : {"shutoff", "running", "paused"}]]
      /\ dom'[v] = Off(v) /\ \A u \in Virtances : u # v => dom'[u] = dom[u]
  BY <1>1, <1>2, OffTyped DEF TypeOK
<1>4. TypeOK' /\ ~dom'[v].holds
  BY <1>1, <1>2, <1>3, OffTyped, DomainTyped
<1>5. Controlled'
  BY <1>2 DEF BaseInv, Controlled, OnPlan
<1>6. Writers' /\ HeldSized' /\ SnapshotHeld'
  BY <1>2, <1>3, <1>4 DEF BaseInv, Writers, HeldSized, SnapshotHeld, WrittenBy, Present,
     Busy, At, Current
<1>7. QED
  BY <1>4, <1>5, <1>6 DEF BaseInv

(* A guest that writes changes what copies of its image hold.              *)
LEMMA GuestWritesStep ==
  ASSUME BaseInv, NEW v \in Virtances, GuestWrites(v)
  PROVE  /\ \A u \in Workers : /\ held'[u].size = held[u].size
                               /\ held'[u].kind = "absent" <=> held[u].kind = "absent"
                               /\ u \notin ReadBy(v) => held'[u] = held[u]
         /\ held' \in [Workers -> Contents]
<1>1. held \in [Workers -> Contents]
  BY DEF BaseInv, TypeOK
<1>2. \A u \in ReadBy(v) : u \in Workers /\ held[u].kind # "absent"
  <2> SUFFICES ASSUME NEW u \in ReadBy(v) PROVE u \in Workers /\ held[u].kind # "absent"
    OBVIOUS
  <2>1. u \in Busy /\ At(u) = "copy_close" /\ Current(u).from \in Virtances
    BY DEF ReadBy, At
  <2>2. job[u].kind = "snapshot"
    BY <2>1, CopiedImage DEF BaseInv
  <2>3. QED
    BY <2>1, <2>2 DEF BaseInv, SnapshotHeld, Busy
<1>3. held' = [u \in Workers |-> IF u \in ReadBy(v) THEN Torn(held[u]) ELSE held[u]]
  BY DEF GuestWrites
<1>4. \A c \in Contents : /\ Torn(c) \in Contents /\ Torn(c).kind = "torn"
                          /\ Torn(c).size = c.size
  BY DEF Torn, Contents, Kinds
<1>5. QED
  BY <1>1, <1>2, <1>3, <1>4

LEMMA GuestWritesBase ==
  ASSUME BaseInv, NEW v \in Virtances, GuestWrites(v)
  PROVE  BaseInv'
<1>1. /\ dom' = dom /\ file' = file /\ vdb' = vdb /\ job' = job /\ todo' = todo
      /\ alone' = alone /\ sound' = sound /\ clean' = clean
  BY DEF GuestWrites
<1>2. TypeOK'
  BY <1>1, GuestWritesStep DEF BaseInv, TypeOK, Present, Active
<1>3. HeldSized'
  BY <1>1, GuestWritesStep DEF BaseInv, HeldSized
<1>4. Controlled'
  BY <1>1 DEF BaseInv, Controlled, OnPlan
<1>5. Busy' = Busy /\ \A u \in Busy : Current(u)' = Current(u) /\ At(u)' = At(u)
  BY <1>1 DEF Busy, Current, At
<1>6. SnapshotHeld'
  BY <1>1, <1>5, GuestWritesStep DEF BaseInv, SnapshotHeld, Busy
<1>7. \A x : WrittenBy(x)' = WrittenBy(x)
  BY <1>1, <1>5, GuestWritesStep DEF WrittenBy, Busy
<1>8. Writers'
  BY <1>1, <1>7 DEF BaseInv, Writers, Present
<1>9. QED
  BY <1>2, <1>3, <1>4, <1>6, <1>8 DEF BaseInv

(* The end of every handler.                                               *)
LEMMA DieBase ==
  ASSUME BaseInv, HandlersDie,
         dom' \in [Virtances -> [defined : BOOLEAN, second : BOOLEAN, holds : BOOLEAN,
                                 power : {"shutoff", "running", "paused"}]],
         \A v \in Virtances : dom'[v].holds => dom'[v].power # "shutoff"
  PROVE  BaseInv'
<1>1. /\ todo' = [w \in Workers |-> <<>>]
      /\ job' = [w \in Workers |-> Idle]
      /\ held' = [w \in Workers |-> Absent]
      /\ file' = file /\ vdb' = vdb /\ alone' = alone /\ sound' = sound
      /\ clean' = [v \in Virtances |-> clean[v] /\ WorkingOn(v) = {}]
  BY DEF HandlersDie, Idle
<1>2. Absent \in Contents /\ Absent.kind = "absent" /\ Absent.size = NoSize
  BY DEF Absent, File, Contents, Kinds, NoSize, NoFile
<1>3. held' \in [Workers -> Contents] /\ HeldSized'
  BY <1>1, <1>2 DEF HeldSized
<1>4. TypeOK'
  BY <1>1, <1>3 DEF BaseInv, TypeOK, Active, Present
<1>5. Busy' = {}
  BY <1>1 DEF Busy
<1>6. clean' \in [Virtances -> BOOLEAN]
  BY <1>1, Zenon DEF BaseInv, Controlled
<1>7. <<>> \in Seq(PlanStep)
  OBVIOUS
<1>8. Controlled'
  <2>1. \A w \in Workers : OnPlan(w)'
    BY <1>1 DEF OnPlan
  <2>2. todo' \in [Workers -> Seq(PlanStep)] /\ job' \in [Workers -> Jobs \cup {Idle}]
    BY <1>1, <1>7
  <2>3. QED
    BY <1>1, <1>6, <2>1, <2>2 DEF BaseInv, Controlled
<1>9. Writers' /\ SnapshotHeld'
  BY <1>5 DEF Writers, SnapshotHeld, WrittenBy
<1>10. QED
  BY <1>3, <1>4, <1>8, <1>9 DEF BaseInv

LEMMA CrashBase ==
  ASSUME BaseInv, Crash
  PROVE  BaseInv'
  BY DieBase DEF Crash, BaseInv, TypeOK, Active

(* What a reboot does to the domain of v.                                  *)
LEMMA RebootStep ==
  ASSUME BaseInv, HostReboot, NEW v \in Virtances
  PROVE  /\ dom'[v] \in [defined : BOOLEAN, second : BOOLEAN, holds : BOOLEAN,
                         power : {"shutoff", "running", "paused"}]
         /\ dom'[v].holds <=> dom'[v].power # "shutoff"
         /\ dom'[v].holds => DisksPresent(v)
         /\ dom'[v].defined <=> dom[v].defined
         /\ dom'[v].power \in {"shutoff", "running"}
         /\ ~dom[v].defined => dom'[v] = NoDomain
<1>0. PICK up \in SUBSET {x \in Virtances : DisksPresent(x)} :
        dom' = [x \in Virtances |->
                  IF ~dom[x].defined THEN NoDomain
                  ELSE IF x \in up
                       THEN [dom[x] EXCEPT !.power = "running", !.holds = TRUE]
                       ELSE Off(x)]
  BY DEF HostReboot
<1>1. dom'[v] = IF ~dom[v].defined THEN NoDomain
                ELSE IF v \in up
                     THEN [dom[v] EXCEPT !.power = "running", !.holds = TRUE]
                     ELSE Off(v)
  BY <1>0
<1>2. dom[v] \in [defined : BOOLEAN, second : BOOLEAN, holds : BOOLEAN,
                  power : {"shutoff", "running", "paused"}]
  BY DEF BaseInv, TypeOK
<1>3. CASE ~dom[v].defined
  <2>1. dom'[v] = NoDomain
    BY <1>1, <1>3
  <2>2. QED
    BY <1>3, <2>1 DEF NoDomain
<1>4. CASE dom[v].defined /\ v \in up
  BY <1>0, <1>1, <1>2, <1>4
<1>5. CASE dom[v].defined /\ v \notin up
  BY <1>1, <1>5, OffTyped DEF BaseInv
<1>6. QED
  BY <1>3, <1>4, <1>5

LEMMA RebootBase ==
  ASSUME BaseInv, HostReboot
  PROVE  BaseInv'
<1>1. HandlersDie
  BY DEF HostReboot
<1>2. \A v \in Virtances : dom'[v] \in [defined : BOOLEAN, second : BOOLEAN, holds : BOOLEAN,
                                        power : {"shutoff", "running", "paused"}]
                           /\ (dom'[v].holds => dom'[v].power # "shutoff")
  BY RebootStep
<1>3. dom' \in [Virtances -> [defined : BOOLEAN, second : BOOLEAN, holds : BOOLEAN,
                              power : {"shutoff", "running", "paused"}]]
  <2>0. PICK up \in SUBSET {v \in Virtances : DisksPresent(v)} :
          dom' = [v \in Virtances |->
                    IF ~dom[v].defined THEN NoDomain
                    ELSE IF v \in up
                         THEN [dom[v] EXCEPT !.power = "running", !.holds = TRUE]
                         ELSE Off(v)]
    BY DEF HostReboot
  <2> DEFINE Booted(v) == IF ~dom[v].defined THEN NoDomain
                          ELSE IF v \in up
                               THEN [dom[v] EXCEPT !.power = "running", !.holds = TRUE]
                               ELSE Off(v)
  <2>1. dom' = [v \in Virtances |-> Booted(v)]
    BY <2>0
  <2> HIDE DEF Booted
  <2>2. \A v \in Virtances : dom'[v] = Booted(v)
    BY <2>1
  <2>3. QED
    BY <1>2, <2>1, <2>2
<1>4. QED
  BY <1>1, <1>2, <1>3, DieBase

LEMMA NextBase == BaseInv /\ [Next]_virtanceVars => BaseInv'
<1> SUFFICES ASSUME BaseInv, [Next]_virtanceVars PROVE BaseInv'
  OBVIOUS
<1>1. CASE UNCHANGED virtanceVars
  <2>1. dom' = dom /\ file' = file /\ vdb' = vdb /\ job' = job /\ todo' = todo /\ held' = held
        /\ alone' = alone /\ sound' = sound /\ clean' = clean
    BY <1>1 DEF virtanceVars, realVars
  <2>2. TypeOK' /\ HeldSized'
    BY <2>1 DEF BaseInv, TypeOK, HeldSized, Present, Active
  <2>3. Controlled'
    BY <2>1 DEF BaseInv, Controlled, OnPlan
  <2>4. Writers' /\ SnapshotHeld'
    BY <2>1 DEF BaseInv, Writers, SnapshotHeld, WrittenBy, Present, Busy, At, Current
  <2>5. QED
    BY <2>2, <2>3, <2>4 DEF BaseInv
<1>2. ASSUME NEW w \in Workers, NEW j \in Jobs, Request(w, j) PROVE BaseInv'
  BY <1>2, RequestBase
<1>3. ASSUME NEW w \in Workers, HandlerStep(w) PROVE BaseInv'
  BY <1>3, RaiseBase, QuietStepBase, DomainStepBase, CopyOpenBase, FileStepBase, GuestOpenBase,
     DeleteVolumeBase, RespondBase DEF HandlerStep
<1>4. ASSUME NEW v \in Virtances, GuestPowersOff(v) PROVE BaseInv'
  BY <1>4, PowersOffBase
<1>5. ASSUME NEW v \in Virtances, GuestWrites(v) PROVE BaseInv'
  BY <1>5, GuestWritesBase
<1>6. QED
  BY <1>1, <1>2, <1>3, <1>4, <1>5, CrashBase, RebootBase DEF Next

LEMMA BaseInvariant == Spec => []BaseInv
<1>1. Init => BaseInv
  BY InitBase
<1>2. QED
  BY <1>1, NextBase, PTL DEF Spec

(* Types; a file is there exactly if it has a size; a domain that has its  *)
(* image open is active.                                                   *)
THEOREM Typing == Spec => []TypeOK
<1>1. BaseInv => TypeOK
  BY DEF BaseInv
<1>2. QED
  BY <1>1, BaseInvariant, PTL

-----------------------------------------------------------------------------
(* Every virtance lives as Lifecycle.tla says.                             *)
LifeStep(v) == [Life(v)!Next]_(Life(v)!lifeVars)

LEMMA LifeInit ==
  ASSUME Init, NEW v \in Virtances
  PROVE  Life(v)!Init
  BY DEF Init, Life!Init, DomainOf, ImageOf, Transient, Active, NoDomain, Present, Absent,
         File, NoFile

(* A step that is not about v, or changes nothing one sees.                *)
LEMMA LifeStutter ==
  ASSUME NEW v \in Virtances, dom'[v] = dom[v], file'[v].kind = file[v].kind
  PROVE  LifeStep(v)
  BY DEF LifeStep, Life!lifeVars, DomainOf, ImageOf, Transient, Active, Present, Finished

LEMMA LifeWrite ==
  ASSUME TypeOK, NEW v \in Virtances, dom'[v] = dom[v], ~dom[v].holds, Present(v)'
  PROVE  LifeStep(v)
<1>1. Life(v)!Write
  BY DEF TypeOK, Life!Write, DomainOf, ImageOf, Transient, Active, Present, Finished
<1>2. QED
  BY <1>1 DEF LifeStep, Life!Next

LEMMA LifeRemove ==
  ASSUME TypeOK, NEW v \in Virtances, dom'[v] = [dom[v] EXCEPT !.holds = FALSE], ~Present(v)'
  PROVE  LifeStep(v)
<1>1. Life(v)!Remove
  BY DEF TypeOK, Life!Remove, DomainOf, ImageOf, Transient, Active, Present, Finished
<1>2. QED
  BY <1>1 DEF LifeStep, Life!Next

LEMMA LifeStop ==
  ASSUME TypeOK, NEW v \in Virtances, dom'[v] = Off(v), file' = file
  PROVE  LifeStep(v)
<1>1. dom[v] \in [defined : BOOLEAN, second : BOOLEAN, holds : BOOLEAN,
                  power : {"shutoff", "running", "paused"}]
      /\ (dom[v].holds => Active(v))
  BY DEF TypeOK
<1>2. dom'[v].power = "shutoff" /\ dom'[v].holds = FALSE /\ (dom'[v].defined <=> dom[v].defined)
  BY OffTyped
<1>3. CASE Active(v)
  <2>1. Life(v)!Stop
    BY <1>1, <1>2, <1>3 DEF Life!Stop, DomainOf, ImageOf, Transient, Active, Present, Finished
  <2>2. QED
    BY <2>1 DEF LifeStep, Life!Next
<1>4. CASE ~Active(v)
  BY <1>1, <1>2, <1>4 DEF LifeStep, Life!lifeVars, DomainOf, ImageOf, Transient, Active,
     Present, Finished
<1>5. QED
  BY <1>3, <1>4

LEMMA LifeUndefine ==
  ASSUME TypeOK, NEW v \in Virtances, dom[v].defined, file' = file,
         dom'[v] = IF Active(v) THEN [dom[v] EXCEPT !.defined = FALSE] ELSE NoDomain
  PROVE  LifeStep(v)
<1>1. dom[v] \in [defined : BOOLEAN, second : BOOLEAN, holds : BOOLEAN,
                  power : {"shutoff", "running", "paused"}]
      /\ (dom[v].holds => Active(v))
  BY DEF TypeOK
<1>2. CASE Active(v)
  <2>1. dom'[v] = [dom[v] EXCEPT !.defined = FALSE]
    BY <1>2
  <2>2. Life(v)!Undefine
    BY <1>1, <1>2, <2>1 DEF Life!Undefine, DomainOf, ImageOf, Transient, Active, Present,
           Finished
  <2>3. QED
    BY <2>2 DEF LifeStep, Life!Next
<1>3. CASE ~Active(v)
  <2>1. dom'[v] = NoDomain /\ dom[v].holds = FALSE /\ NoDomain.holds = FALSE
        /\ NoDomain.defined = FALSE /\ NoDomain.power = "shutoff"
    BY <1>1, <1>3 DEF NoDomain
  <2>2. Life(v)!Undefine
    BY <1>1, <1>3, <2>1 DEF Life!Undefine, DomainOf, ImageOf, Transient, Active, Present,
           Finished
  <2>3. QED
    BY <2>2 DEF LifeStep, Life!Next
<1>4. QED
  BY <1>2, <1>3

LEMMA LifeDefine ==
  ASSUME TypeOK, NEW v \in Virtances, file' = file, NEW b \in BOOLEAN,
         dom'[v] = [dom[v] EXCEPT !.defined = TRUE, !.second = b]
  PROVE  LifeStep(v)
<1>1. dom[v] \in [defined : BOOLEAN, second : BOOLEAN, holds : BOOLEAN,
                  power : {"shutoff", "running", "paused"}]
  BY DEF TypeOK
<1>2. Life(v)!Define
  BY <1>1 DEF Life!Define, DomainOf, ImageOf, Transient, Active, Present, Finished
<1>3. QED
  BY <1>2 DEF LifeStep, Life!Next

(* A domain is started, or started again, from its image.                  *)
LEMMA LifeStart ==
  ASSUME TypeOK, NEW v \in Virtances, file' = file, dom[v].defined, Present(v),
         dom'[v] = [dom[v] EXCEPT !.power = "running", !.holds = TRUE]
  PROVE  LifeStep(v)
<1>1. dom[v] \in [defined : BOOLEAN, second : BOOLEAN, holds : BOOLEAN,
                  power : {"shutoff", "running", "paused"}]
  BY DEF TypeOK
<1>2. Life(v)!Start \/ Life(v)!Restart
  BY <1>1 DEF Life!Start, Life!Restart, DomainOf, ImageOf, Transient, Active, Present, Finished
<1>3. QED
  BY <1>2 DEF LifeStep, Life!Next

(* suspend() and resume(): an active domain stays active.                  *)
LEMMA LifePause ==
  ASSUME TypeOK, NEW v \in Virtances, file' = file, Active(v),
         NEW power \in {"running", "paused"},
         dom'[v] = [dom[v] EXCEPT !.power = power]
  PROVE  LifeStep(v)
<1>1. dom[v] \in [defined : BOOLEAN, second : BOOLEAN, holds : BOOLEAN,
                  power : {"shutoff", "running", "paused"}]
  BY DEF TypeOK
<1>2. QED
  BY <1>1 DEF LifeStep, Life!lifeVars, DomainOf, ImageOf, Transient, Active, Present, Finished

LEMMA LifeDomainStep ==
  ASSUME BaseInv, NEW w \in Workers, NEW v \in Virtances,
         \/ Destroy(w) \/ Undefine(w) \/ Define(w) \/ Start(w) \/ SuspendOrResume(w)
  PROVE  LifeStep(v)
<1> DEFINE x == Current(w).x
<1>1. TypeOK /\ Controlled
  BY DEF BaseInv
<1>2. file' = file /\ w \in Busy /\ x \in Virtances
      /\ \A u \in Virtances : u # x => dom'[u] = dom[u]
  BY DomainStep
<1>3. CASE v # x
  BY <1>2, <1>3, LifeStutter
<1>4. CASE v = x
  <2>1. CASE dom'[x] = Off(x)
    BY <1>1, <1>2, <1>4, <2>1, LifeStop
  <2>2. CASE dom[x].defined
             /\ dom'[x] = IF Active(x) THEN [dom[x] EXCEPT !.defined = FALSE] ELSE NoDomain
    BY <1>1, <1>2, <1>4, <2>2, LifeUndefine
  <2>3. CASE dom'[x] = [dom[x] EXCEPT !.defined = TRUE, !.second = job[w].second]
    <3>1. job[w].second \in BOOLEAN
      BY <1>1, <1>2, Targets
    <3>2. QED
      BY <1>1, <1>2, <1>4, <2>3, <3>1, LifeDefine
  <2>4. CASE Perform(w, "start")
             /\ dom'[x] = [dom[x] EXCEPT !.power = "running", !.holds = TRUE]
    <3>1. Possible(w) /\ At(w) = "start"
      BY <2>4 DEF Perform, Doing, At
    <3>2. dom[x].defined /\ Present(x)
      BY <3>1, StartConditions DEF DisksPresent
    <3>3. QED
      BY <1>1, <1>2, <1>4, <2>4, <3>2, LifeStart
  <2>5. CASE Active(x) /\ dom'[x] = [dom[x] EXCEPT !.power = "paused"]
    BY <1>1, <1>2, <1>4, <2>5, LifePause
  <2>6. CASE Active(x) /\ dom'[x] = [dom[x] EXCEPT !.power = "running"]
    BY <1>1, <1>2, <1>4, <2>6, LifePause
  <2>7. QED
    BY <2>1, <2>2, <2>3, <2>4, <2>5, <2>6, DomainStep
<1>5. QED
  BY <1>3, <1>4

(* A handler begins to write an image that no active domain has open.      *)
LEMMA LifeOpenStep ==
  ASSUME BaseInv, NEW w \in Workers, NEW v \in Virtances, CopyOpen(w) \/ GuestOpen(w)
  PROVE  LifeStep(v)
<1> DEFINE x == Current(w).x
<1>1. PICK d \in Opening : Perform(w, d)
  BY DEF CopyOpen, GuestOpen, Opening
<1>2. dom' = dom /\ w \in Busy /\ At(w) = d /\ Possible(w)
  BY <1>1, Performing DEF CopyOpen, GuestOpen, BaseInv, Opening
<1>3. x \in Files /\ ~InUse(x) /\ TypeOK /\ file \in [Files -> Contents]
  BY <1>2, Targets, Conditions DEF BaseInv, Opening, TypeOK, Files
<1>4. CASE v # x
  <2>1. file'[v] = file[v]
    BY <1>3, <1>4 DEF CopyOpen, GuestOpen, Files
  <2>2. QED
    BY <1>2, <2>1, LifeStutter
<1>5. CASE v = x
  <2>1. ~dom[v].holds
    BY <1>3, <1>5 DEF InUse, TypeOK
  <2>2. Present(v)'
    <3>1. file'[v].kind \in {"torn", "half"}
      <4>1. CASE GuestOpen(w)
        BY <1>3, <1>5, <4>1 DEF GuestOpen, Files, Contents
      <4>2. CASE CopyOpen(w)
        <5>1. Source(Current(w).from) \in Contents
          BY <4>2, CopyOpenBase
        <5>2. file'[x] = Torn(Source(Current(w).from))
          BY <1>3, <4>2 DEF CopyOpen
        <5>3. QED
          BY <1>5, <5>1, <5>2 DEF Torn, Contents
      <4>3. QED
        BY <4>1, <4>2
    <3>2. QED
      BY <3>1 DEF Present
  <2>3. QED
    BY <1>2, <1>3, <2>1, <2>2, LifeWrite
<1>6. QED
  BY <1>4, <1>5

(* A handler ends writing an image, or resizes it.                         *)
LEMMA LifeFileStep ==
  ASSUME BaseInv, NEW w \in Workers, NEW v \in Virtances,
         CopyClose(w) \/ Grow(w) \/ GuestClose(w)
  PROVE  LifeStep(v)
<1> DEFINE x == Current(w).x
<1>1. /\ w \in Busy /\ x \in Files /\ dom' = dom /\ TypeOK
      /\ \A y \in Files : y # x => file'[y] = file[y]
      /\ \A y \in Files : Present(y) => Present(y)'
  BY FileStep DEF BaseInv
<1>2. v \in Files
  BY DEF Files
<1>3. CASE v # x \/ file'[x].kind = file[x].kind
  BY <1>1, <1>2, <1>3, LifeStutter
<1>4. CASE v = x /\ file'[x].kind # file[x].kind
  <2>1. file[x] \in Contents
    BY <1>1, <1>2 DEF TypeOK, Files
  <2>2. At(w) \in Closing /\ held[w].kind # "absent"
    BY <1>4, <2>1, FileStep DEF Perform, Doing, At, Closing, Contents
  <2>3. w \in WrittenBy(x)
    BY <1>1, <2>2, WrittenHeld
  <2>4. Present(x) /\ ~dom[v].holds
    BY <1>1, <1>4, <2>3 DEF BaseInv, Writers
  <2>5. Present(v)'
    BY <1>1, <1>2, <1>4, <2>4
  <2>6. QED
    BY <1>1, <2>4, <2>5, LifeWrite
<1>5. QED
  BY <1>3, <1>4

LEMMA LifeDelete ==
  ASSUME BaseInv, NEW w \in Workers, NEW v \in Virtances, DeleteVolume(w)
  PROVE  LifeStep(v)
<1>1. PICK x : x = job[w].v
  OBVIOUS
<1>2. TypeOK /\ x \in Virtances /\ file' = [file EXCEPT ![x] = Absent]
      /\ dom' = [dom EXCEPT ![x].holds = FALSE]
  BY <1>1, DeleteStep DEF BaseInv
<1>3. CASE v # x
  <2>1. dom'[v] = dom[v] /\ file'[v] = file[v]
    BY <1>2, <1>3 DEF TypeOK
  <2>2. QED
    BY <2>1, LifeStutter
<1>4. CASE v = x
  <2>1. dom'[v] = [dom[v] EXCEPT !.holds = FALSE] /\ file'[v] = Absent
    BY <1>2, <1>4 DEF TypeOK
  <2>2. ~Present(v)'
    BY <2>1 DEF Present, Absent, File
  <2>3. QED
    BY <1>2, <2>1, <2>2, LifeRemove
<1>5. QED
  BY <1>3, <1>4

LEMMA LifeReboot ==
  ASSUME BaseInv, NEW v \in Virtances, HostReboot
  PROVE  LifeStep(v)
<1>1. file' = file /\ TypeOK
  BY DEF HostReboot, HandlersDie, BaseInv
<1>0. PICK up \in SUBSET {x \in Virtances : DisksPresent(x)} :
        dom' = [x \in Virtances |->
                  IF ~dom[x].defined THEN NoDomain
                  ELSE IF x \in up
                       THEN [dom[x] EXCEPT !.power = "running", !.holds = TRUE]
                       ELSE Off(x)]
  BY DEF HostReboot
<1>2. CASE dom[v].defined /\ v \in up
  <2>1. dom'[v] = [dom[v] EXCEPT !.power = "running", !.holds = TRUE]
    BY <1>0, <1>2
  <2>2. Present(v)
    BY <1>2 DEF DisksPresent
  <2>3. QED
    BY <1>1, <1>2, <2>1, <2>2, LifeStart
<1>3. CASE ~(dom[v].defined /\ v \in up)
  <2>1. dom'[v] = Off(v)
    BY <1>0, <1>3 DEF Off
  <2>2. QED
    BY <1>1, <2>1, LifeStop
<1>4. QED
  BY <1>2, <1>3

LEMMA LifeNext ==
  ASSUME BaseInv, NEW v \in Virtances, [Next]_virtanceVars
  PROVE  LifeStep(v)
<1>1. CASE dom' = dom /\ file' = file
  BY <1>1, LifeStutter
<1>2. ASSUME NEW u \in Virtances, GuestPowersOff(u) PROVE LifeStep(v)
  <2>1. dom' = [dom EXCEPT ![u] = Off(u)] /\ file' = file /\ TypeOK
    BY <1>2 DEF GuestPowersOff, BaseInv
  <2>2. CASE u = v
    BY <2>1, <2>2, LifeStop DEF TypeOK
  <2>3. CASE u # v
    BY <2>1, <2>3, LifeStutter DEF TypeOK
  <2>4. QED
    BY <2>2, <2>3
<1>3. ASSUME NEW w \in Workers, HandlerStep(w) PROVE LifeStep(v)
  <2>1. CASE StepRaises(w) \/ Look(w) \/ GetState(w) \/ CreateVolume(w) \/ Respond(w)
    BY <1>1, <2>1 DEF StepRaises, Look, GetState, CreateVolume, Respond
  <2>2. QED
    BY <1>3, <2>1, LifeDomainStep, LifeOpenStep, LifeFileStep, LifeDelete DEF HandlerStep
<1>4. CASE \E w \in Workers, j \in Jobs : Request(w, j)
  BY <1>1, <1>4 DEF Request
<1>5. CASE Crash
  BY <1>1, <1>5 DEF Crash, HandlersDie
<1>6. CASE UNCHANGED virtanceVars
  BY <1>1, <1>6 DEF virtanceVars, realVars
<1>7. CASE \E u \in Virtances : GuestWrites(u)
  BY <1>1, <1>7 DEF GuestWrites
<1>8. QED
  BY <1>2, <1>3, <1>4, <1>5, <1>6, <1>7, LifeReboot DEF Next

(* The handlers of main.py implement Lifecycle.tla for every virtance,     *)
(* however they overlap, fail or die: a domain starts from an image only,  *)
(* and nobody writes an image that an active domain has open.              *)
THEOREM Lives == Spec => ImplementsLifecycle
<1>1. Init => \A v \in Virtances : Life(v)!Init
  BY LifeInit
<1>2. BaseInv /\ [Next]_virtanceVars => \A v \in Virtances : LifeStep(v)
  BY LifeNext
<1>3. BaseInv /\ [Next]_virtanceVars
        => [\A v \in Virtances : [Life(v)!Next]_(Life(v)!lifeVars)]_virtanceVars
  BY <1>2 DEF LifeStep
<1>4. QED
  BY <1>1, <1>3, BaseInvariant, PTL DEF Spec, ImplementsLifecycle

(* The same, one virtance at a time.                                       *)
THEOREM LivesOne == ASSUME NEW v \in Virtances PROVE Spec => Life(v)!Spec
<1>1. Init => Life(v)!Init
  BY LifeInit
<1>2. BaseInv /\ [Next]_virtanceVars => [Life(v)!Next]_(Life(v)!lifeVars)
  BY LifeNext DEF LifeStep
<1>3. QED
  BY <1>1, <1>2, BaseInvariant, PTL DEF Spec, Life!Spec

-----------------------------------------------------------------------------
(* A handler that is alone on its virtance and its snapshot: what it may   *)
(* rely on, step by step, whatever other handlers do meanwhile.            *)
FromTemplate(j) == j.kind = "rebuild" \/ (j.kind = "create" /\ j.s = NoFile)
FromCopy(j) == j.kind = "restore" \/ FromSnapshot(j)

Shared == \A w, u \in Busy : w # u /\ alone[w] => Uses(w) \cap Uses(u) = {}

CleanAlone == \A w \in Busy : clean[job[w].v] => alone[w]

HoldsPresent == \A v \in Virtances : dom[v].holds => Present(v)

Stopped(w) ==
  \/ job[w].kind = "create" /\ At(w) = "undefine"
  \/ job[w].kind = "delete" /\ At(w) \in {"get_disks", "delete_volume", "undefine", "respond"}
  => dom[job[w].v].power # "running"

Opened(w) == At(w) \in Closing => held[w].kind # "absent"

Ready == {"guest_open", "guest_close", "create_volume", "define", "start", "respond"}

Sized(w) ==
  \/ FromTemplate(job[w]) /\ At(w) \in Ready
  \/ FromSnapshot(job[w]) /\ At(w) \in Ready \cup {"resize"}
  \/ job[w].kind = "restore" /\ At(w) \in {"start", "respond"}
  \/ job[w].kind = "resize" /\ job[w].size # NoSize /\ At(w) \in {"start", "respond"}
  => file[job[w].v].size = job[w].size

Written(w) ==
  \/ FromTemplate(job[w]) /\ At(w) \in {"create_volume", "define", "start", "respond"}
  \/ FromCopy(job[w]) /\ sound[w] /\ At(w) \in Ready \cup {"fit", "resize"}
  => Finished(file[job[w].v])

Defined(w) ==
  \/ job[w].kind = "create" /\ At(w) \in {"start", "respond"}
  \/ job[w].kind \in {"rebuild", "restore", "reset_password"} /\ At(w) = "respond"
  => dom[job[w].v].defined

(* Of one size, and of one kind unless a guest disturbed the copy of w.    *)
Alike(w, content, other) ==
  content.size = other.size /\ (w \notin live => content.kind = other.kind)

Copied(w) ==
  job[w].kind = "snapshot" =>
    /\ At(w) = "copy_close" => Alike(w, held[w], file[job[w].v])
    /\ At(w) = "respond" => Alike(w, file[job[w].s], file[job[w].v])

Repassworded(w) ==
  job[w].kind = "reset_password" /\ clean[job[w].v] =>
    /\ At(w) = "guest_close" => held[w].kind = "ready"
    /\ At(w) \in {"start", "respond"} => Finished(file[job[w].v])

Deleted(w) ==
  job[w].kind = "delete" =>
    /\ At(w) \in {"undefine", "respond"} => ~Present(job[w].v)
    /\ At(w) = "respond" => ~dom[job[w].v].defined

Phase(w) ==
  /\ Stopped(w) /\ Opened(w) /\ Sized(w) /\ Written(w) /\ Defined(w)
  /\ Copied(w) /\ Repassworded(w) /\ Deleted(w)

Phases == \A w \in Busy : alone[w] => Phase(w)

(* What is true of a clean virtance while nobody changes its definition or *)
(* its image.                                                              *)
Consistent(v) == /\ dom[v].defined => Finished(file[v])
                 /\ ~dom[v].defined => ~Present(v)

PowerKinds == {"power_on", "power_off", "power_cycle", "shutdown", "suspend", "resume"}

QuietAt(w) ==
  \/ job[w].kind \in PowerKinds \cup {"resize", "snapshot"}
  \/ /\ job[w].kind \in {"restore", "reset_password"}
     /\ At(w) \notin Closing \cup {"fit", "start", "respond"}

Quiet(v) == \A w \in Busy : job[w].v = v => QuietAt(w)

CleanConsistent == \A v \in Virtances : clean[v] /\ Quiet(v) => Consistent(v)

HistoryInv ==
  /\ Shared /\ CleanAlone /\ HoldsPresent /\ Phases
  /\ CleanConsistent /\ RunsOnFinishedImage

(* A handler works on the files it uses.                                   *)
LEMMA UsedFiles ==
  ASSUME Controlled, NEW u \in Busy
  PROVE  /\ Current(u).x \in Uses(u) /\ job[u].v \in Uses(u)
         /\ job[u].s # NoFile => job[u].s \in Uses(u)
         /\ Uses(u) \subseteq Files
         /\ Uses(u) \cap Virtances = {job[u].v}
         /\ At(u) \in {"copy_open", "copy_close"} => Current(u).from \in Uses(u) \cup {Template}
<1>1. job[u].v \in Virtances /\ job[u].s \in Snapshots \cup {NoFile}
      /\ (Current(u).x = job[u].v \/ (Current(u).x = job[u].s /\ job[u].s # NoFile))
  BY Targets
<1>2. job[u].v # NoFile
  BY <1>1, NamesAssumption
<1>3. At(u) \in {"copy_open", "copy_close"} => Current(u).from \in Uses(u) \cup {Template}
  BY <1>2, CopySource DEF Uses
<1>4. QED
  BY <1>1, <1>2, <1>3, NamesAssumption DEF Uses, Files

(* What a step of one handler leaves alone.                                *)
LEMMA Touch ==
  ASSUME BaseInv, NEW u \in Workers, HandlerStep(u)
  PROVE  /\ u \in Busy
         /\ \A y \in Virtances : y # job[u].v => dom'[y] = dom[y] /\ clean'[y] = clean[y]
         /\ \A y \in Files : y \notin Uses(u) => file'[y] = file[y]
         /\ \A w \in Workers : w # u => /\ todo'[w] = todo[w] /\ job'[w] = job[w]
                                        /\ sound'[w] = sound[w]
                                        /\ w \in live' <=> w \in live
                                        /\ \/ held'[w] = held[w]
                                           \/ \E y \in Uses(u) : w \in ReadBy(y) \cup WrittenBy(y)
         /\ alone' = alone
<1>1. TypeOK /\ Controlled
  BY DEF BaseInv
<1>2. u \in Busy
  BY DEF HandlerStep, StepRaises, Look, GetState, Destroy, Undefine, Define, Start,
     SuspendOrResume, CopyOpen, CopyClose, Grow, GuestOpen, GuestClose, CreateVolume,
     DeleteVolume, Respond, Perform, Doing
<1>3. /\ Current(u).x \in Uses(u) /\ job[u].v \in Uses(u) /\ job[u].v \in Virtances
      /\ Uses(u) \subseteq Files
  BY <1>1, <1>2, UsedFiles, Targets
<1>4. alone' = alone
  BY DEF HandlerStep, StepRaises, Look, GetState, Destroy, Undefine, Define, Start,
     SuspendOrResume, CopyOpen, CopyClose, Grow, GuestOpen, GuestClose, CreateVolume,
     DeleteVolume, Respond, Perform, Skip
<1>5. \A w \in Workers : w # u => todo'[w] = todo[w] /\ job'[w] = job[w]
  <2>1. CASE \E n : Skip(u, n)
    <3>1. PICK n : Skip(u, n)
      BY <2>1
    <3>2. QED
      BY <1>1, <3>1 DEF Skip, Controlled
  <2>2. CASE Ends(u)
    BY <1>1, <2>2 DEF Ends, Controlled
  <2>3. (\E n : Skip(u, n)) \/ Ends(u)
    BY DEF HandlerStep, StepRaises, Look, GetState, Destroy, Undefine, Define, Start,
       SuspendOrResume, CopyOpen, CopyClose, Grow, GuestOpen, GuestClose, CreateVolume,
       DeleteVolume, Respond, Perform
  <2>4. QED
    BY <2>1, <2>2, <2>3
<1>6. \A w \in Workers : w # u => sound'[w] = sound[w]
  <2>1. CASE CopyClose(u)
    BY <1>1, <2>1 DEF CopyClose, Controlled
  <2>2. CASE sound' = sound
    BY <2>2
  <2>3. CopyClose(u) \/ sound' = sound
    BY DEF HandlerStep, StepRaises, Look, GetState, Destroy, Undefine, Define, Start,
       SuspendOrResume, CopyOpen, Grow, GuestOpen, GuestClose, CreateVolume,
       DeleteVolume, Respond
  <2>4. QED
    BY <2>1, <2>2, <2>3
<1>7. \A y \in Virtances : y # job[u].v => clean'[y] = clean[y]
  <2>1. CASE clean' = clean
    BY <2>1
  <2>2. CASE \E b : clean' = [clean EXCEPT ![job[u].v] = b]
    BY <1>1, <2>2 DEF Controlled
  <2>3. CASE Respond(u)
    BY <1>1, <2>3 DEF Respond, Controlled
  <2>4. CASE StepRaises(u)
    BY <1>1, <2>4 DEF StepRaises, Skip, Controlled
  <2>5. clean' = clean \/ StepRaises(u) \/ Respond(u)
    BY DEF HandlerStep, Look, GetState, Destroy, Undefine, Define, Start,
       SuspendOrResume, CopyOpen, CopyClose, Grow, GuestOpen, GuestClose, CreateVolume,
       DeleteVolume, Perform, Skip
  <2>6. QED
    BY <2>1, <2>3, <2>4, <2>5
<1>8. \A y \in Virtances : y # job[u].v => dom'[y] = dom[y]
  <2>1. CASE Destroy(u) \/ Undefine(u) \/ Define(u) \/ Start(u) \/ SuspendOrResume(u)
    BY <2>1, DomainStep
  <2>2. CASE DeleteVolume(u)
    BY <1>1, <2>2, DeleteStep DEF TypeOK
  <2>3. CASE dom' = dom
    BY <2>3
  <2>4. QED
    BY <2>1, <2>2, <2>3 DEF HandlerStep, StepRaises, Look, GetState,
       CopyOpen, CopyClose, Grow, GuestOpen, GuestClose, CreateVolume, Respond
<1>9. \A y \in Files : y \notin Uses(u) => file'[y] = file[y]
  <2>1. CASE CopyClose(u) \/ Grow(u) \/ GuestClose(u)
    BY <1>3, <2>1, FileStep
  <2>2. CASE DeleteVolume(u)
    BY <1>1, <1>3, <2>2, DeleteStep DEF TypeOK, Files
  <2>3. CASE CopyOpen(u)
    BY <1>1, <1>3, <2>3 DEF CopyOpen, TypeOK, Files
  <2>4. CASE GuestOpen(u)
    BY <1>1, <1>3, <2>4 DEF GuestOpen, TypeOK, Files
  <2>5. CASE file' = file
    BY <2>5
  <2>6. QED
    BY <2>1, <2>2, <2>3, <2>4, <2>5 DEF HandlerStep, StepRaises, Look, GetState, Destroy,
       Undefine, Define, Start, SuspendOrResume, CreateVolume, Respond
<1>10. \A w \in Workers : w # u =>
         \/ held'[w] = held[w]
         \/ \E y \in Uses(u) : w \in ReadBy(y) \cup WrittenBy(y)
  <2>1. CASE CopyOpen(u) \/ GuestOpen(u)
    <3>1. PICK c : held' = Taking(u, Current(u).x, c)
      BY <2>1 DEF CopyOpen, GuestOpen
    <3>2. \A w \in Workers : w # u => held'[w] = held[w] \/ w \in ReadBy(Current(u).x)
      BY <3>1 DEF Taking
    <3>3. QED
      BY <1>3, <3>2
  <2>2. CASE DeleteVolume(u)
    <3>1. \A w \in Workers : held'[w] = held[w] \/ w \in WrittenBy(Current(u).x)
      BY <2>2 DEF DeleteVolume
    <3>2. QED
      BY <1>3, <3>1
  <2>3. CASE Ends(u)
    BY <1>1, <2>3 DEF Ends, TypeOK
  <2>4. CASE held' = held
    BY <2>4
  <2>5. QED
    BY <2>1, <2>2, <2>3, <2>4 DEF HandlerStep, StepRaises, Look, GetState, Destroy,
       Undefine, Define, Start, SuspendOrResume, CopyClose, Grow, GuestClose, CreateVolume,
       Respond
<1>11. \A w \in Workers : w # u => (w \in live' <=> w \in live)
  BY DEF HandlerStep, StepRaises, Look, GetState, Destroy, Undefine, Define, Start,
     SuspendOrResume, CopyOpen, CopyClose, Grow, GuestOpen, GuestClose, CreateVolume,
     DeleteVolume, Respond, Perform, Skip, Ends
<1>12. QED
  BY <1>2, <1>4, <1>5, <1>6, <1>7, <1>8, <1>9, <1>10, <1>11

(* A handler that is alone is left alone by the steps of the others.       *)
LEMMA OthersKeep ==
  ASSUME BaseInv, Shared, NEW u \in Workers, HandlerStep(u),
         NEW w \in Busy, w # u, alone[w]
  PROVE  /\ w \in Busy' /\ Current(w)' = Current(w)
         /\ job'[w] = job[w] /\ sound'[w] = sound[w] /\ held'[w] = held[w]
         /\ w \in live' <=> w \in live
         /\ dom'[job[w].v] = dom[job[w].v] /\ clean'[job[w].v] = clean[job[w].v]
         /\ file'[job[w].v] = file[job[w].v]
         /\ job[w].s # NoFile => file'[job[w].s] = file[job[w].s]
<1>1. Controlled /\ w \in Workers
  BY DEF BaseInv, Busy
<1>2. /\ u \in Busy
      /\ \A y \in Virtances : y # job[u].v => dom'[y] = dom[y] /\ clean'[y] = clean[y]
      /\ \A y \in Files : y \notin Uses(u) => file'[y] = file[y]
      /\ todo'[w] = todo[w] /\ job'[w] = job[w] /\ sound'[w] = sound[w]
      /\ (w \in live' <=> w \in live)
      /\ (held'[w] = held[w] \/ \E y \in Uses(u) : w \in ReadBy(y) \cup WrittenBy(y))
  BY <1>1, Touch
<1>3. Uses(w) \cap Uses(u) = {}
  BY <1>2 DEF Shared
<1>4. /\ Current(w).x \in Uses(w) /\ job[w].v \in Uses(w)
      /\ (job[w].s # NoFile => job[w].s \in Uses(w))
      /\ Uses(w) \subseteq Files /\ Uses(u) \subseteq Files /\ job[u].v \in Uses(u)
      /\ (At(w) \in {"copy_open", "copy_close"} => Current(w).from \in Uses(w) \cup {Template})
  BY <1>1, <1>2, UsedFiles
<1>5. job[w].v \in Virtances
  BY <1>1, Targets
<1>6. Template \notin Files
  BY NamesAssumption DEF Files
<1>7. held'[w] = held[w]
  BY <1>2, <1>3, <1>4, <1>6 DEF ReadBy, WrittenBy, At
<1>8. w \in Busy' /\ Current(w)' = Current(w)
  BY <1>1, <1>2 DEF Busy, Current
<1>9. QED
  BY <1>2, <1>3, <1>4, <1>5, <1>7, <1>8

LEMMA OthersPhase ==
  ASSUME BaseInv, Shared, NEW u \in Workers, HandlerStep(u),
         NEW w \in Busy, w # u, alone[w], Phase(w)
  PROVE  Phase(w)'
<1>1. /\ Current(w)' = Current(w)
      /\ job'[w] = job[w] /\ sound'[w] = sound[w] /\ held'[w] = held[w]
      /\ (w \in live' <=> w \in live)
      /\ dom'[job[w].v] = dom[job[w].v] /\ clean'[job[w].v] = clean[job[w].v]
      /\ file'[job[w].v] = file[job[w].v]
      /\ (job[w].s # NoFile => file'[job[w].s] = file[job[w].s])
  BY OthersKeep
<1>2. job[w].kind = "snapshot" => job[w].s # NoFile
  BY CurrentStep, JobsAssumption DEF BaseInv
<1>3. At(w)' = At(w)
  BY <1>1 DEF At
<1>4. QED
  BY <1>1, <1>2, <1>3 DEF Phase, Stopped, Opened, Sized, Written, Defined, Copied,
     Repassworded, Deleted, Present, Alike

(* A step of a handler of its own that changes no file, no domain and      *)
(* nothing that is held; destroy() is skipped if the domain is not running.*)
LEMMA QuietPhase ==
  ASSUME BaseInv, NEW w \in Busy, Phase(w), NEW d, GoesOn(w, d),
         d \in {"get_state", "destroy", "pass", "require_shutoff", "resize_resources",
                "get_disks", "find_snapshot", "download", "shutdown", "create_volume"},
         d = "destroy" => dom[job[w].v].power # "running",
         d \notin {"destroy", "pass"} => At(w) = d,
         dom' = dom, file' = file, held' = held, sound' = sound, clean' = clean,
         live' = live
  PROVE  Phase(w)'
<1>1. job' = job /\ Then(job[w], d, At(w)') /\ (d \notin {"destroy", "pass"} => Has(job[w], d))
  BY CurrentStep DEF GoesOn, BaseInv
<1>2. Stopped(w)' /\ Opened(w)' /\ Defined(w)' /\ Deleted(w)'
  BY <1>1 DEF Phase, Stopped, Opened, Defined, Deleted, Then, Has, Imaging, Closing, Present
<1>3. Sized(w)' /\ Written(w)'
  BY <1>1 DEF Phase, Sized, Written, Then, Has, Imaging, Ready, FromTemplate, FromCopy,
         FromSnapshot
<1>4. Copied(w)' /\ Repassworded(w)'
  BY <1>1 DEF Phase, Copied, Repassworded, Then, Has, Imaging, Alike
<1>5. QED
  BY <1>2, <1>3, <1>4 DEF Phase

LEMMA QuietStepPhase ==
  ASSUME BaseInv, NEW w \in Workers, Phase(w), Look(w) \/ GetState(w) \/ CreateVolume(w)
  PROVE  Phase(w)'
<1>1. dom' = dom /\ file' = file /\ held' = held /\ sound' = sound
  BY DEF Look, GetState, CreateVolume
<1>2. CASE \E d \in {"require_shutoff", "resize_resources", "get_disks", "find_snapshot",
                     "download", "shutdown", "pass", "create_volume", "get_state"} : Perform(w, d)
  <2>1. PICK d \in {"require_shutoff", "resize_resources", "get_disks", "find_snapshot",
                    "download", "shutdown", "pass", "create_volume", "get_state"} : Perform(w, d)
    BY <1>2
  <2>2. w \in Busy /\ At(w) = d /\ GoesOn(w, d) /\ clean' = clean /\ live' = live
    BY <2>1, Performing DEF BaseInv, Perform, Skip
  <2>3. QED
    BY <1>1, <2>1, <2>2, QuietPhase
<1>3. CASE GetState(w)
  <2>1. w \in Busy /\ At(w) = "get_state" /\ Possible(w)
        /\ Skip(w, IF get_state(Current(w).x) = "shutoff" THEN 2 ELSE 1)
    BY <1>3 DEF GetState, Doing, At
  <2>2. CASE get_state(Current(w).x) = "shutoff"
    <3>1. Skip(w, 2)
      BY <2>1, <2>2
    <3>2. GoesOn(w, "destroy") /\ clean' = clean /\ live' = live
      BY <2>1, <3>1, SkippingDestroy DEF BaseInv, Skip
    <3>3. Current(w).x = job[w].v
      BY <2>1, Targets DEF BaseInv
    <3>4. dom[job[w].v].power # "running"
      BY <2>2, <3>3 DEF get_state
    <3>5. QED
      BY <1>1, <2>1, <3>2, <3>4, QuietPhase
  <2>3. CASE get_state(Current(w).x) # "shutoff"
    <3>1. Perform(w, "get_state")
      BY <2>1, <2>3 DEF Perform, Doing, At
    <3>2. QED
      BY <1>2, <3>1
  <2>4. QED
    BY <2>2, <2>3
<1>4. QED
  BY <1>2, <1>3 DEF Look, CreateVolume

LEMMA RaisePhase ==
  ASSUME BaseInv, NEW w \in Workers, Phase(w), StepRaises(w), w \in Busy'
  PROVE  Phase(w)'
<1>1. w \in Busy /\ dom' = dom /\ file' = file /\ sound' = sound
  BY DEF StepRaises
<1>2. ~Ends(w)
  BY DEF Ends, Busy, BaseInv, Controlled
<1>3. PassAt(w) # {} /\ Skip(w, CHOOSE i \in PassAt(w) : TRUE) /\ held' = held
  BY <1>2 DEF StepRaises
<1>4. GoesOn(w, "pass") /\ clean' = clean /\ live' = live
  BY <1>1, <1>3, SkippingToPass DEF BaseInv, Skip
<1>5. QED
  BY <1>1, <1>3, <1>4, QuietPhase

(* What a step does to the parts of its domain.                            *)
LEMMA DomainParts ==
  ASSUME BaseInv, NEW w \in Workers,
         \/ Destroy(w) \/ Undefine(w) \/ Define(w) \/ Start(w) \/ SuspendOrResume(w)
  PROVE  \E d \in {"destroy", "undefine", "define", "start", "suspend", "resume"} :
           /\ w \in Busy /\ At(w) = d /\ GoesOn(w, d) /\ Possible(w)
           /\ job' = job /\ alone' = alone /\ clean' = clean
           /\ job[w].v \in Virtances
           /\ \A u \in Virtances : u # job[w].v => dom'[u] = dom[u]
           /\ file' = file /\ held' = held /\ sound' = sound
           /\ d = "destroy" => dom'[job[w].v].power = "shutoff"
           /\ d \notin {"start", "resume"} =>
                (dom'[job[w].v].power = "running" => dom[job[w].v].power = "running")
           /\ d = "define" => dom'[job[w].v].defined
           /\ d = "undefine" => ~dom'[job[w].v].defined
           /\ d \notin {"define", "undefine"} =>
                (dom'[job[w].v].defined <=> dom[job[w].v].defined)
           /\ d # "start" => (dom'[job[w].v].holds => dom[job[w].v].holds)
           /\ d = "start" => dom[job[w].v].defined /\ Present(job[w].v)
<1>1. PICK v : v = job[w].v
  OBVIOUS
<1>2. PICK d \in {"destroy", "undefine", "define", "start", "suspend", "resume"} : Perform(w, d)
  BY DomainStep
<1>3. /\ w \in Busy /\ At(w) = d /\ GoesOn(w, d) /\ Possible(w)
      /\ job' = job /\ alone' = alone /\ clean' = clean
  BY <1>2, Performing DEF BaseInv
<1>4. /\ file' = file /\ held' = held /\ sound' = sound /\ v \in Virtances
      /\ Current(w).x = v /\ TypeOK
      /\ \A u \in Virtances : u # v => dom'[u] = dom[u]
  BY <1>1, DomainStep DEF BaseInv
<1>5. \A e : Perform(w, e) => e = d
  BY <1>2 DEF Perform, Doing
<1>6. dom[v] \in [defined : BOOLEAN, second : BOOLEAN, holds : BOOLEAN,
                  power : {"shutoff", "running", "paused"}]
  BY <1>4 DEF TypeOK
<1>7. d = "start" => dom[v].defined /\ Present(v)
  BY <1>3, <1>4, StartConditions DEF DisksPresent
<1>8. /\ d = "destroy" => dom'[v].power = "shutoff"
      /\ d \notin {"start", "resume"} => (dom'[v].power = "running" => dom[v].power = "running")
      /\ d = "define" => dom'[v].defined
      /\ d = "undefine" => ~dom'[v].defined
      /\ d \notin {"define", "undefine"} => (dom'[v].defined <=> dom[v].defined)
      /\ d # "start" => (dom'[v].holds => dom[v].holds)
  <2>1. CASE Perform(w, "destroy") /\ dom'[v] = Off(v)
    <3>1. d = "destroy"
      BY <1>5, <2>1
    <3>2. QED
      BY <1>4, <2>1, <3>1, OffTyped
  <2>2. CASE Perform(w, "undefine")
             /\ dom'[v] = IF Active(v) THEN [dom[v] EXCEPT !.defined = FALSE] ELSE NoDomain
    <3>1. d = "undefine"
      BY <1>5, <2>2
    <3>2. CASE Active(v)
      <4>1. dom'[v] = [dom[v] EXCEPT !.defined = FALSE]
        BY <2>2, <3>2
      <4>2. QED
        BY <1>6, <3>1, <4>1
    <3>3. CASE ~Active(v)
      <4>1. dom'[v] = NoDomain
        BY <2>2, <3>3
      <4>2. QED
        BY <3>1, <4>1 DEF NoDomain
    <3>4. QED
      BY <3>2, <3>3
  <2>3. CASE Perform(w, "define")
             /\ dom'[v] = [dom[v] EXCEPT !.defined = TRUE, !.second = job[w].second]
    <3>1. d = "define"
      BY <1>5, <2>3
    <3>2. QED
      BY <1>6, <2>3, <3>1
  <2>4. CASE Perform(w, "start")
             /\ dom'[v] = [dom[v] EXCEPT !.power = "running", !.holds = TRUE]
    <3>1. d = "start"
      BY <1>5, <2>4
    <3>2. QED
      BY <1>6, <2>4, <3>1
  <2>5. CASE Perform(w, "suspend") /\ dom'[v] = [dom[v] EXCEPT !.power = "paused"]
    <3>1. d = "suspend"
      BY <1>5, <2>5
    <3>2. QED
      BY <1>6, <2>5, <3>1
  <2>6. CASE Perform(w, "resume") /\ dom'[v] = [dom[v] EXCEPT !.power = "running"]
    <3>1. d = "resume"
      BY <1>5, <2>6
    <3>2. QED
      BY <1>6, <2>6, <3>1
  <2>7. QED
    BY <1>4, <2>1, <2>2, <2>3, <2>4, <2>5, <2>6, DomainStep
<1>9. QED
  BY <1>1, <1>3, <1>4, <1>7, <1>8

LEMMA DomainStepPhase ==
  ASSUME BaseInv, NEW w \in Workers, Phase(w),
         \/ Destroy(w) \/ Undefine(w) \/ Define(w) \/ Start(w) \/ SuspendOrResume(w)
  PROVE  Phase(w)'
<1>1. PICK d \in {"destroy", "undefine", "define", "start", "suspend", "resume"} :
        /\ w \in Busy /\ At(w) = d /\ GoesOn(w, d)
        /\ job' = job /\ clean' = clean
        /\ file' = file /\ held' = held /\ sound' = sound
        /\ d = "destroy" => dom'[job[w].v].power = "shutoff"
        /\ d \notin {"start", "resume"} =>
             (dom'[job[w].v].power = "running" => dom[job[w].v].power = "running")
        /\ d = "define" => dom'[job[w].v].defined
        /\ d = "undefine" => ~dom'[job[w].v].defined
        /\ d \notin {"define", "undefine"} =>
             (dom'[job[w].v].defined <=> dom[job[w].v].defined)
        /\ d = "start" => dom[job[w].v].defined
  BY DomainParts
<1>2. Then(job[w], d, At(w)')
  BY <1>1 DEF GoesOn
<1>3. /\ d = "suspend" => job[w].kind = "suspend"
      /\ d = "resume" => job[w].kind = "resume"
      /\ d = "define" => job[w].kind = "create"
      /\ d = "undefine" => job[w].kind \in {"create", "delete"}
      /\ d = "start" => job[w].kind \notin {"delete", "snapshot"}
      /\ d = "destroy" => job[w].kind \notin {"snapshot", "resize"}
  BY <1>1, CurrentStep DEF BaseInv, Has, Imaging
<1>4. Stopped(w)' /\ Opened(w)'
  BY <1>1, <1>2, <1>3 DEF Phase, Stopped, Opened, Then, Closing
<1>5. Defined(w)' /\ Deleted(w)'
  BY <1>1, <1>2, <1>3 DEF Phase, Defined, Deleted, Then, Present
<1>6. Sized(w)' /\ Written(w)'
  BY <1>1, <1>2, <1>3 DEF Phase, Sized, Written, Then, Ready, FromTemplate, FromCopy,
         FromSnapshot
<1>7. Copied(w)' /\ Repassworded(w)'
  BY <1>1, <1>2, <1>3 DEF Phase, Copied, Repassworded, Then
<1>8. QED
  BY <1>4, <1>5, <1>6, <1>7 DEF Phase

LEMMA DeleteVolumePhase ==
  ASSUME BaseInv, NEW w \in Workers, Phase(w), DeleteVolume(w)
  PROVE  Phase(w)'
<1>1. PICK v : v = job[w].v
  OBVIOUS
<1>2. /\ w \in Busy /\ At(w) = "delete_volume" /\ GoesOn(w, "delete_volume") /\ job' = job
      /\ v \in Virtances /\ file' = [file EXCEPT ![v] = Absent]
      /\ dom' = [dom EXCEPT ![v].holds = FALSE] /\ TypeOK
  BY <1>1, DeleteStep DEF BaseInv
<1>3. job[w].kind = "delete"
  BY <1>2, CurrentStep DEF BaseInv, Has, Imaging
<1>4. At(w)' = "undefine"
  BY <1>2 DEF GoesOn, Then
<1>5. dom'[v].power = dom[v].power /\ file'[v].kind = "absent"
  BY <1>2 DEF TypeOK, Absent, File
<1>6. QED
  BY <1>1, <1>2, <1>3, <1>4, <1>5 DEF Phase, Stopped, Opened, Sized, Written, Defined, Copied,
     Repassworded, Deleted, Closing, FromTemplate, FromCopy, FromSnapshot, Present

(* Nobody else works on the files of a handler that is alone.              *)
LEMMA NotWritten ==
  ASSUME Controlled, Shared, NEW w \in Busy, alone[w], At(w) \notin Closing
  PROVE  WrittenBy(job[w].v) = {}
<1> SUFFICES ASSUME NEW u \in WrittenBy(job[w].v) PROVE FALSE
  OBVIOUS
<1>1. u \in Busy /\ At(u) \in Closing /\ Current(u).x = job[w].v
  BY DEF WrittenBy, At, Closing
<1>2. u # w /\ job[w].v \in Uses(u) /\ job[w].v \in Uses(w)
  BY <1>1, UsedFiles
<1>3. QED
  BY <1>1, <1>2 DEF Shared

LEMMA OnlyOne ==
  ASSUME Controlled, Shared, NEW w \in Busy, alone[w], NEW u \in Busy, job[u].v = job[w].v
  PROVE  u = w
<1>1. job[w].v \in Uses(u) /\ job[w].v \in Uses(w)
  BY UsedFiles
<1>2. QED
  BY <1>1 DEF Shared

LEMMA CopyOpenPhase ==
  ASSUME BaseInv, Shared, NEW w \in Workers, alone[w], CopyOpen(w)
  PROVE  Phase(w)'
<1>1. PICK x : x = Current(w).x
  OBVIOUS
<1>2. PICK c : c = Source(Current(w).from)
  OBVIOUS
<1>3. Perform(w, "copy_open") /\ file' = [file EXCEPT ![x] = Torn(c)]
      /\ held' = Taking(w, x, c) /\ c.kind # "absent" /\ TypeOK /\ Controlled
  BY <1>1, <1>2, CopyOpenBase DEF CopyOpen, BaseInv
<1>4. /\ w \in Busy /\ At(w) = "copy_open" /\ GoesOn(w, "copy_open") /\ job' = job
      /\ x \in Files
  BY <1>1, <1>3, Performing, Targets
<1>5. At(w)' = "copy_close" /\ held'[w] = c
  BY <1>3, <1>4 DEF GoesOn, Then, Taking
<1>6. job[w].kind = "snapshot" => Alike(w, held[w], file[job[w].v])'
  <2> SUFFICES ASSUME job[w].kind = "snapshot" PROVE Alike(w, held[w], file[job[w].v])'
    OBVIOUS
  <2>1. job[w] \in Jobs /\ x = About(job[w], "copy_open")
        /\ Current(w).from = Reads(job[w], "copy_open")
    BY <1>1, <1>3, <1>4, CurrentStep
  <2>2. x = job[w].s /\ Current(w).from = job[w].v
    BY <2>1 DEF About, Reads
  <2>3. job[w].v \in Virtances /\ x \in Snapshots /\ x # job[w].v
    BY <2>1, <2>2, NamesAssumption, JobsAssumption
  <2>4. WrittenBy(job[w].v) = {}
    BY <1>3, <1>4, NotWritten DEF Closing
  <2>5. job[w].v # Template
    BY <2>3, NamesAssumption
  <2>6. c = file[job[w].v]
    BY <1>2, <2>2, <2>4, <2>5 DEF Source
  <2>7. file'[job[w].v] = file[job[w].v]
    BY <1>3, <2>3 DEF TypeOK
  <2>8. QED
    BY <1>4, <1>5, <2>6, <2>7 DEF Alike
<1>7. QED
  BY <1>3, <1>4, <1>5, <1>6 DEF Phase, Stopped, Opened, Sized, Written, Defined, Copied,
     Repassworded, Deleted, Ready

LEMMA CopyClosePhase ==
  ASSUME BaseInv, NEW w \in Workers, alone[w], Phase(w), CopyClose(w)
  PROVE  Phase(w)'
<1>1. PICK x : x = Current(w).x
  OBVIOUS
<1>2. Perform(w, "copy_close") /\ dom' = dom /\ held' = held
      /\ sound' = [sound EXCEPT ![w] = @ /\ (held[w].kind = "ready" \/ Current(w).from \notin Snapshots)]
      /\ file' = IF held[w].kind = "absent" THEN file ELSE [file EXCEPT ![x] = held[w]]
  BY <1>1 DEF CopyClose
<1>3. /\ w \in Busy /\ At(w) = "copy_close" /\ GoesOn(w, "copy_close") /\ job' = job
      /\ clean' = clean /\ live' = live
  BY <1>2, Performing DEF BaseInv, Perform, Skip
<1>4. /\ job[w] \in Jobs /\ x = About(job[w], "copy_close")
      /\ Current(w).from = Reads(job[w], "copy_close") /\ x \in Files
      /\ Has(job[w], "copy_close")
  BY <1>1, <1>3, CurrentStep, Targets DEF BaseInv
<1>5. held[w].kind # "absent"
  BY <1>3 DEF Phase, Opened, Closing
<1>6. file' = [file EXCEPT ![x] = held[w]]
  BY <1>2, <1>5
<1>7. file'[x] = held[w] /\ \A y \in Files : y # x => file'[y] = file[y]
  BY <1>4, <1>6 DEF BaseInv, TypeOK, Files
<1>8. sound'[w] => held[w].kind = "ready" \/ Current(w).from \notin Snapshots
  BY <1>2 DEF BaseInv, Controlled
<1>9. job[w].v \in Virtances /\ job[w].s \in Snapshots \cup {NoFile}
      /\ (job[w].kind \in {"snapshot", "restore"} => job[w].s # NoFile)
  BY <1>4, JobsAssumption
<1>10. CASE job[w].kind = "snapshot"
  <2>1. At(w)' = "respond"
    BY <1>3, <1>10 DEF GoesOn, Then, FromSnapshot
  <2>2. x = job[w].s /\ job[w].v # x /\ job[w].v \in Files
    BY <1>4, <1>9, <1>10, NamesAssumption DEF About, Files
  <2>3. Alike(w, file[job[w].s], file[job[w].v])'
    BY <1>3, <1>7, <1>10, <2>2 DEF Phase, Copied, Alike
  <2>4. QED
    BY <1>3, <1>10, <2>1, <2>3 DEF Phase, Stopped, Opened, Sized, Written, Defined, Copied,
       Repassworded, Deleted, Ready, Closing, FromTemplate, FromCopy, FromSnapshot
<1>11. CASE FromCopy(job[w])
  <2>1. At(w)' = "fit"
    BY <1>3, <1>11 DEF GoesOn, Then, FromSnapshot, FromCopy
  <2>2. x = job[w].v /\ Current(w).from = job[w].s /\ job[w].s \in Snapshots
    BY <1>4, <1>9, <1>11, NamesAssumption DEF About, Reads, FromCopy, FromSnapshot
  <2>3. sound'[w] => Finished(file'[job[w].v])
    BY <1>7, <1>8, <2>2 DEF Finished
  <2>4. QED
    BY <1>3, <1>11, <2>1, <2>3 DEF Phase, Stopped, Opened, Sized, Written, Defined, Copied,
       Repassworded, Deleted, Ready, Closing, FromTemplate, FromCopy, FromSnapshot
<1>12. CASE FromTemplate(job[w])
  <2>1. At(w)' = "resize"
    BY <1>3, <1>12 DEF GoesOn, Then, FromSnapshot, FromTemplate
  <2>2. QED
    BY <1>3, <1>12, <2>1 DEF Phase, Stopped, Opened, Sized, Written, Defined, Copied,
       Repassworded, Deleted, Ready, Closing, FromTemplate, FromCopy, FromSnapshot
<1>13. QED
  BY <1>4, <1>10, <1>11, <1>12 DEF Has, Imaging, FromTemplate, FromCopy, FromSnapshot

LEMMA GrowPhase ==
  ASSUME BaseInv, NEW w \in Workers, Phase(w), Grow(w)
  PROVE  Phase(w)'
<1>1. PICK x : x = Current(w).x
  OBVIOUS
<1>2. PICK d \in {"fit", "resize"} : Perform(w, d)
  BY DEF Grow
<1>3. /\ w \in Busy /\ At(w) = d /\ GoesOn(w, d) /\ job' = job /\ clean' = clean
  BY <1>2, Performing DEF BaseInv
<1>4. /\ job[w] \in Jobs /\ x = About(job[w], d) /\ x \in Files /\ Has(job[w], d)
  BY <1>1, <1>3, CurrentStep, Targets DEF BaseInv
<1>5. dom' = dom /\ held' = held /\ sound' = sound
      /\ file' = [file EXCEPT ![x].size = job[w].size]
  BY <1>1 DEF Grow
<1>6. /\ file'[x].size = job[w].size /\ file'[x].kind = file[x].kind
      /\ \A y \in Files : y # x => file'[y] = file[y]
  BY <1>4, <1>5 DEF BaseInv, TypeOK, Files, Contents
<1>7. job[w].v \in Virtances /\ job[w].v \in Files
      /\ (FromSnapshot(job[w]) => job[w].s # job[w].v)
  BY <1>4, JobsAssumption, NamesAssumption DEF Files, FromSnapshot
<1>8. file'[job[w].v].kind = file[job[w].v].kind
  BY <1>6, <1>7
<1>9. d = "fit" \/ ~FromSnapshot(job[w]) => file'[job[w].v].size = job[w].size
  BY <1>3, <1>4, <1>6 DEF About
<1>10. d = "resize" /\ FromSnapshot(job[w]) => file'[job[w].v].size = file[job[w].v].size
  BY <1>4, <1>6, <1>7 DEF About
<1>11. Then(job[w], d, At(w)')
  BY <1>3 DEF GoesOn
<1>12. Sized(w)'
  BY <1>3, <1>4, <1>9, <1>10, <1>11 DEF Phase, Sized, Then, Has, Imaging, Ready,
         FromTemplate, FromCopy, FromSnapshot
<1>13. Written(w)'
  BY <1>3, <1>4, <1>5, <1>8, <1>11 DEF Phase, Written, Finished, Then, Has, Imaging,
         Ready, FromTemplate, FromCopy, FromSnapshot
<1>14. Stopped(w)' /\ Opened(w)' /\ Defined(w)'
  BY <1>3, <1>4, <1>11 DEF Stopped, Opened, Defined, Then, Has, Imaging, Closing, FromSnapshot
<1>15. Copied(w)' /\ Repassworded(w)' /\ Deleted(w)'
  BY <1>3, <1>4, <1>11 DEF Copied, Repassworded, Deleted, Has, Imaging, FromSnapshot
<1>16. QED
  BY <1>12, <1>13, <1>14, <1>15 DEF Phase

LEMMA GuestOpenPhase ==
  ASSUME BaseInv, NEW w \in Workers, alone[w], Phase(w), GuestOpen(w),
         job[w].kind = "reset_password" /\ clean[job[w].v] => Consistent(job[w].v)
  PROVE  Phase(w)'
<1>1. PICK x : x = Current(w).x
  OBVIOUS
<1>2. Perform(w, "guest_open") /\ dom' = dom /\ sound' = sound
      /\ file' = [file EXCEPT ![x].kind = "half"] /\ held' = Taking(w, x, file[x])
  BY <1>1 DEF GuestOpen
<1>3. /\ w \in Busy /\ At(w) = "guest_open" /\ GoesOn(w, "guest_open") /\ job' = job
      /\ clean' = clean /\ Possible(w)
  BY <1>2, Performing DEF BaseInv
<1>4. /\ job[w] \in Jobs /\ x = About(job[w], "guest_open") /\ x \in Files /\ Present(x)
      /\ Has(job[w], "guest_open")
  BY <1>1, <1>3, CurrentStep, Targets, Conditions DEF BaseInv
<1>5. At(w)' = "guest_close" /\ held'[w] = file[x]
  BY <1>2, <1>3 DEF GoesOn, Then, Taking
<1>6. file'[x].size = file[x].size /\ \A y \in Files : y # x => file'[y] = file[y]
  BY <1>2, <1>4 DEF BaseInv, TypeOK, Files, Contents
<1>7. job[w].v \in Files /\ (FromSnapshot(job[w]) => job[w].s # job[w].v)
  BY <1>4, JobsAssumption, NamesAssumption DEF Files, FromSnapshot
<1>8. file'[job[w].v].size = file[job[w].v].size
  BY <1>6, <1>7
<1>9. FromSnapshot(job[w]) => file'[job[w].v] = file[job[w].v]
  BY <1>4, <1>6, <1>7 DEF About
<1>10. job[w].kind = "reset_password" /\ clean[job[w].v] => file[x].kind = "ready"
  BY <1>4 DEF About, FromSnapshot, Consistent, Finished
<1>11. Sized(w)' /\ Written(w)'
  BY <1>2, <1>3, <1>4, <1>5, <1>8, <1>9 DEF Phase, Sized, Written, Has, Imaging, Ready,
         FromTemplate, FromCopy, FromSnapshot
<1>12. Stopped(w)' /\ Opened(w)' /\ Defined(w)' /\ Copied(w)' /\ Repassworded(w)' /\ Deleted(w)'
  BY <1>3, <1>4, <1>5, <1>10 DEF Stopped, Opened, Defined, Copied, Repassworded, Deleted,
         Present
<1>13. QED
  BY <1>11, <1>12 DEF Phase

LEMMA GuestClosePhase ==
  ASSUME BaseInv, NEW w \in Workers, Phase(w), GuestClose(w)
  PROVE  Phase(w)'
<1>1. PICK x : x = Current(w).x
  OBVIOUS
<1>2. Perform(w, "guest_close") /\ dom' = dom /\ sound' = sound /\ held' = held
  BY DEF GuestClose
<1>3. /\ w \in Busy /\ At(w) = "guest_close" /\ GoesOn(w, "guest_close") /\ job' = job
      /\ clean' = clean
  BY <1>2, Performing DEF BaseInv
<1>4. /\ job[w] \in Jobs /\ x = About(job[w], "guest_close") /\ x \in Files
      /\ Has(job[w], "guest_close")
  BY <1>1, <1>3, CurrentStep, Targets DEF BaseInv
<1>5. held[w].kind # "absent"
  BY <1>3 DEF Phase, Opened, Closing
<1>6. /\ file'[x].kind = IF job[w].kind = "reset_password" THEN held[w].kind ELSE "ready"
      /\ file'[x].size = file[x].size
      /\ \A y \in Files : y # x => file'[y] = file[y]
  <2>1. file \in [Files -> Contents] /\ file[x] \in Contents
    BY <1>4 DEF BaseInv, TypeOK, Files
  <2>2. CASE job[w].kind = "reset_password"
    <3>1. file' = [file EXCEPT ![x].kind = held[w].kind]
      BY <1>1, <1>5, <2>2 DEF GuestClose
    <3>2. QED
      BY <1>4, <2>1, <2>2, <3>1 DEF Contents
  <2>3. CASE job[w].kind # "reset_password"
    <3>1. file' = [file EXCEPT ![x].kind = "ready", ![x].owner = job[w].v]
      BY <1>1, <1>5, <2>3 DEF GuestClose
    <3>2. file' = [file EXCEPT ![x] = [file[x] EXCEPT !.kind = "ready", !.owner = job[w].v]]
      BY <1>4, <2>1, <3>1
    <3>3. QED
      BY <1>4, <2>1, <2>3, <3>2 DEF Contents
  <2>4. QED
    BY <2>2, <2>3
<1>7. job[w].v \in Files /\ (FromSnapshot(job[w]) => job[w].s # job[w].v)
  BY <1>4, JobsAssumption, NamesAssumption DEF Files, FromSnapshot
<1>8. file'[job[w].v].size = file[job[w].v].size
  BY <1>6, <1>7
<1>9. FromSnapshot(job[w]) => file'[job[w].v] = file[job[w].v]
  BY <1>4, <1>6, <1>7 DEF About
<1>10. FromTemplate(job[w]) => file'[job[w].v].kind = "ready"
  BY <1>4, <1>6 DEF About, FromTemplate, FromSnapshot
<1>11. job[w].kind = "reset_password" /\ clean[job[w].v] => file'[job[w].v].kind = "ready"
  BY <1>3, <1>4, <1>6 DEF About, FromSnapshot, Phase, Repassworded
<1>12. Then(job[w], "guest_close", At(w)')
  BY <1>3 DEF GoesOn
<1>13. Sized(w)' /\ Written(w)'
  BY <1>2, <1>3, <1>4, <1>8, <1>9, <1>10, <1>12
     DEF Phase, Sized, Written, Finished, Then, Has, Imaging, Ready, FromTemplate,
         FromCopy, FromSnapshot
<1>14. Stopped(w)' /\ Opened(w)' /\ Defined(w)'
  BY <1>2, <1>3, <1>4, <1>12 DEF Stopped, Opened, Defined, Then, Has, Imaging, Closing,
         FromSnapshot
<1>15. Copied(w)' /\ Repassworded(w)' /\ Deleted(w)'
  BY <1>2, <1>3, <1>4, <1>11, <1>12 DEF Copied, Repassworded, Deleted, Has, Imaging,
         FromSnapshot, Then, Finished
<1>16. QED
  BY <1>13, <1>14, <1>15 DEF Phase

(* The handlers that are busy after a step of one of them.                 *)
LEMMA StaysBusy ==
  ASSUME BaseInv, NEW u \in Workers, HandlerStep(u)
  PROVE  /\ \A w \in Busy' : w \in Busy /\ job'[w] = job[w]
         /\ \A w \in Busy : w # u => w \in Busy' /\ Current(w)' = Current(w)
         /\ u \in Busy' => clean' = clean
<1>1. Controlled
  BY DEF BaseInv
<1>2. u \in Busy /\ \A w \in Workers : w # u => todo'[w] = todo[w] /\ job'[w] = job[w]
  BY Touch
<1>3. \A w \in Busy : w # u => w \in Busy' /\ Current(w)' = Current(w)
  BY <1>2 DEF Busy, Current
<1>4. CASE u \in Busy'
  <2>1. ~Ends(u)
    BY <1>1, <1>4 DEF Ends, Busy, Controlled
  <2>2. job' = job /\ clean' = clean
    BY <2>1 DEF HandlerStep, StepRaises, Look, GetState, Destroy, Undefine, Define, Start,
       SuspendOrResume, CopyOpen, CopyClose, Grow, GuestOpen, GuestClose, CreateVolume,
       DeleteVolume, Respond, Perform, Skip
  <2>3. \A w \in Busy' : w \in Busy
    BY <1>2 DEF Busy
  <2>4. QED
    BY <1>3, <2>2, <2>3
<1>5. CASE u \notin Busy'
  BY <1>2, <1>3, <1>5 DEF Busy
<1>6. QED
  BY <1>4, <1>5

(* How a step changes the history.                                         *)
LEMMA CleanSteps ==
  ASSUME BaseInv, NEW u \in Workers, HandlerStep(u), NEW v \in Virtances, clean'[v], ~clean[v]
  PROVE  /\ Respond(u) /\ v = job[u].v /\ alone[u] /\ sound[u]
         /\ job[u].kind \in {"create", "rebuild", "delete"}
<1>1. Controlled
  BY DEF BaseInv
<1>2. v = job[u].v
  BY Touch
<1>3. CASE Respond(u)
  BY <1>1, <1>2, <1>3 DEF Respond, Controlled
<1>4. CASE StepRaises(u)
  BY <1>1, <1>4 DEF StepRaises, Skip, Controlled
<1>5. CASE clean' = clean
  BY <1>5
<1>6. QED
  BY <1>3, <1>4, <1>5 DEF HandlerStep, Look, GetState, Destroy, Undefine, Define, Start,
       SuspendOrResume, CopyOpen, CopyClose, Grow, GuestOpen, GuestClose, CreateVolume,
       DeleteVolume, Perform, Skip

(* No step but delete_volume() makes an image disappear.                   *)
LEMMA StaysPresent ==
  ASSUME BaseInv, NEW u \in Workers, HandlerStep(u), ~DeleteVolume(u), NEW y \in Files, Present(y)
  PROVE  Present(y)'
<1>1. TypeOK /\ y \in Files
  BY DEF BaseInv
<1>2. CASE file' = file
  BY <1>2 DEF Present
<1>3. CASE CopyOpen(u)
  <2>1. PICK x : x = Current(u).x
    OBVIOUS
  <2>2. PICK c : c = Source(Current(u).from)
    OBVIOUS
  <2>3. c \in Contents /\ file' = [file EXCEPT ![x] = Torn(c)]
    BY <1>3, <2>1, <2>2, CopyOpenBase DEF CopyOpen
  <2>4. file'[y] = Torn(c) \/ file'[y] = file[y]
    BY <1>1, <2>3 DEF TypeOK, Files
  <2>5. QED
    BY <2>3, <2>4 DEF Torn, Contents, Present
<1>4. CASE GuestOpen(u)
  BY <1>1, <1>4 DEF GuestOpen, TypeOK, Files, Contents, Present
<1>5. CASE CopyClose(u) \/ Grow(u) \/ GuestClose(u)
  BY <1>5, FileStep
<1>6. QED
  BY <1>2, <1>3, <1>4, <1>5 DEF HandlerStep, StepRaises, Look, GetState, Destroy,
       Undefine, Define, Start, SuspendOrResume, CreateVolume, Respond

LEMMA HoldsNext ==
  ASSUME BaseInv, HoldsPresent, NEW u \in Workers, HandlerStep(u)
  PROVE  HoldsPresent'
<1> SUFFICES ASSUME NEW v \in Virtances, dom'[v].holds PROVE Present(v)'
  BY DEF HoldsPresent
<1>1. v \in Files
  BY DEF Files
<1>2. CASE DeleteVolume(u)
  <2>1. PICK x : x = job[u].v
    OBVIOUS
  <2>2. file' = [file EXCEPT ![x] = Absent] /\ dom' = [dom EXCEPT ![x].holds = FALSE]
    BY <1>2, <2>1, DeleteStep
  <2>3. v # x /\ dom[v].holds
    BY <2>2 DEF BaseInv, TypeOK
  <2>4. QED
    BY <1>1, <2>2, <2>3 DEF BaseInv, TypeOK, HoldsPresent, Present
<1>3. CASE ~DeleteVolume(u)
  <2>1. CASE Destroy(u) \/ Undefine(u) \/ Define(u) \/ Start(u) \/ SuspendOrResume(u)
    <3>1. dom[v].holds \/ Present(v)
      BY <2>1, DomainParts
    <3>2. QED
      BY <1>1, <1>3, <3>1, StaysPresent DEF HoldsPresent
  <2>2. CASE dom' = dom
    BY <1>1, <1>3, <2>2, StaysPresent DEF HoldsPresent
  <2>3. QED
    BY <1>3, <2>1, <2>2 DEF HandlerStep, StepRaises, Look, GetState,
       CopyOpen, CopyClose, Grow, GuestOpen, GuestClose, CreateVolume, Respond
<1>4. QED
  BY <1>2, <1>3

(* What a handler that is alone on a clean virtance does to it as long as  *)
(* it goes on: the virtance stays consistent in the quiet phases, and its  *)
(* domain runs on a finished image unless what was copied was not.         *)
OwnEffect(u) ==
  /\ QuietAt(u)' => /\ QuietAt(u)
                    /\ dom'[job[u].v].defined <=> dom[job[u].v].defined
                    /\ file'[job[u].v].kind = file[job[u].v].kind
  /\ dom'[job[u].v].holds => Finished(file'[job[u].v]) \/ ~sound'[u]

(* A step from a phase that is not quiet to one that is: there is none.    *)
LEMMA QuietBack ==
  ASSUME Controlled, NEW u \in Busy, NEW d, GoesOn(u, d), QuietAt(u)',
         At(u) = d \/ (d = "pass" /\ job[u].kind = "create")
         \/ (d = "destroy" /\ At(u) = "get_state")
  PROVE  QuietAt(u)
<1>1. job' = job /\ Then(job[u], d, At(u)') /\ Has(job[u], At(u))
  BY CurrentStep DEF GoesOn
<1>2. QED
  BY <1>1 DEF QuietAt, Then, Has, Imaging, FromSnapshot, PowerKinds, Closing

LEMMA RunsHere ==
  ASSUME Controlled, Shared, RunsOnFinishedImage, TypeOK, NEW u \in Busy, alone[u],
         clean[job[u].v], dom[job[u].v].holds
  PROVE  Finished(file[job[u].v]) \/ ~sound[u]
<1>1. job[u].v \in Virtances
  BY Targets
<1>2. Active(job[u].v)
  BY <1>1 DEF TypeOK
<1>3. Finished(file[job[u].v]) \/ \E w \in WorkingOn(job[u].v) : ~sound[w]
  BY <1>1, <1>2 DEF RunsOnFinishedImage
<1>4. \A w \in WorkingOn(job[u].v) : w = u
  BY <1>1, UsedFiles DEF WorkingOn, Shared
<1>5. QED
  BY <1>3, <1>4

LEMMA QuietHere ==
  ASSUME Controlled, Shared, CleanConsistent, NEW u \in Busy, alone[u], clean[job[u].v], QuietAt(u)
  PROVE  Consistent(job[u].v)
<1>1. job[u].v \in Virtances
  BY Targets
<1>2. Quiet(job[u].v)
  BY OnlyOne DEF Quiet
<1>3. QED
  BY <1>1, <1>2 DEF CleanConsistent


(* The effects, one kind of step at a time.                                *)
LEMMA QuietEffect ==
  ASSUME BaseInv, Shared, RunsOnFinishedImage, NEW u \in Workers, u \in Busy, alone[u],
         clean[job[u].v],
         u \in Busy', Look(u) \/ GetState(u) \/ CreateVolume(u) \/ StepRaises(u)
  PROVE  OwnEffect(u)
<1>1. Controlled /\ TypeOK
  BY DEF BaseInv
<1>2. dom' = dom /\ file' = file /\ sound' = sound
  BY DEF Look, GetState, CreateVolume, StepRaises
<1>3. \E d : /\ GoesOn(u, d)
              /\ \/ At(u) = d \/ (d = "pass" /\ job[u].kind = "create")
                 \/ (d = "destroy" /\ At(u) = "get_state")
  <2>1. ASSUME NEW d, d # "respond", Perform(u, d)
        PROVE  GoesOn(u, d) /\ At(u) = d
    BY <1>1, <2>1, Performing
  <2>2. CASE \E d \in {"require_shutoff", "resize_resources", "get_disks", "find_snapshot",
                       "download", "shutdown", "pass", "create_volume"} : Perform(u, d)
    BY <2>1, <2>2
  <2>3. CASE GetState(u)
    <3>1. At(u) = "get_state" /\ (Skip(u, 1) \/ Skip(u, 2)) /\ Possible(u)
      BY <2>3 DEF GetState, Doing, At
    <3>2. CASE Skip(u, 1)
      <4>1. Perform(u, "get_state")
        BY <3>1, <3>2 DEF Perform, Doing, At
      <4>2. QED
        BY <2>1, <4>1
    <3>3. CASE Skip(u, 2)
      BY <1>1, <3>1, <3>3, SkippingDestroy
    <3>4. QED
      BY <3>1, <3>2, <3>3
  <2>4. CASE StepRaises(u)
    <3>1. ~Ends(u)
      BY <1>1 DEF Ends, Busy, Controlled
    <3>2. PassAt(u) # {} /\ Skip(u, CHOOSE i \in PassAt(u) : TRUE)
      BY <2>4, <3>1 DEF StepRaises
    <3>3. QED
      BY <1>1, <3>2, SkippingToPass
  <2>5. QED
    BY <2>2, <2>3, <2>4 DEF Look, CreateVolume
<1>4. QuietAt(u)' => QuietAt(u)
  BY <1>1, <1>3, QuietBack
<1>5. dom[job[u].v].holds => Finished(file[job[u].v]) \/ ~sound[u]
  BY <1>1, RunsHere
<1>6. QED
  BY <1>2, <1>4, <1>5 DEF OwnEffect

LEMMA DomainEffect ==
  ASSUME BaseInv, Shared, CleanConsistent, RunsOnFinishedImage,
         NEW u \in Workers, alone[u], clean[job[u].v], Phase(u),
         \/ Destroy(u) \/ Undefine(u) \/ Define(u) \/ Start(u) \/ SuspendOrResume(u)
  PROVE  OwnEffect(u)
<1>1. Controlled /\ TypeOK
  BY DEF BaseInv
<1>2. PICK d \in {"destroy", "undefine", "define", "start", "suspend", "resume"} :
        /\ u \in Busy /\ At(u) = d /\ GoesOn(u, d)
        /\ file' = file /\ sound' = sound
        /\ d \notin {"define", "undefine"} =>
             (dom'[job[u].v].defined <=> dom[job[u].v].defined)
        /\ d # "start" => (dom'[job[u].v].holds => dom[job[u].v].holds)
        /\ d = "start" => dom[job[u].v].defined
  BY DomainParts
<1>3. Has(job[u], d)
  BY <1>1, <1>2, CurrentStep
<1>4. QuietAt(u)' => QuietAt(u)
  BY <1>1, <1>2, QuietBack
<1>5. QuietAt(u) => d \notin {"define", "undefine"}
  BY <1>3 DEF QuietAt, Has, Imaging, PowerKinds
<1>6. dom'[job[u].v].holds => Finished(file[job[u].v]) \/ ~sound[u]
  <2>1. CASE d # "start"
    BY <1>1, <1>2, <2>1, RunsHere
  <2>2. CASE d = "start" /\ QuietAt(u)
    BY <1>1, <1>2, <2>2, QuietHere DEF Consistent
  <2>3. CASE d = "start" /\ ~QuietAt(u)
    <3>1. FromTemplate(job[u]) \/ FromCopy(job[u]) \/ job[u].kind = "reset_password"
      BY <1>2, <1>3, <2>3 DEF QuietAt, Has, Imaging, PowerKinds, FromTemplate, FromCopy,
             FromSnapshot
    <3>2. QED
      BY <1>2, <2>3, <3>1 DEF Phase, Written, Repassworded, Ready
  <2>4. QED
    BY <2>1, <2>2, <2>3
<1>7. QED
  BY <1>2, <1>4, <1>5, <1>6 DEF OwnEffect

LEMMA OpenEffect ==
  ASSUME BaseInv, Shared, RunsOnFinishedImage,
         NEW u \in Workers, alone[u], clean[job[u].v], CopyOpen(u) \/ GuestOpen(u)
  PROVE  OwnEffect(u)
<1>1. Controlled /\ TypeOK
  BY DEF BaseInv
<1>2. PICK x : x = Current(u).x
  OBVIOUS
<1>3. PICK d \in Opening : Perform(u, d)
  BY DEF CopyOpen, GuestOpen, Opening
<1>4. u \in Busy /\ At(u) = d /\ GoesOn(u, d) /\ Possible(u) /\ job' = job
  BY <1>1, <1>3, Performing DEF Opening
<1>5. dom' = dom /\ sound' = sound /\ \E f : file' = [file EXCEPT ![x] = f]
  BY <1>2 DEF CopyOpen, GuestOpen
<1>6. /\ job[u].v \in Virtances /\ x \in Files /\ ~InUse(x) /\ job[u] \in Jobs
      /\ Has(job[u], d) /\ x = About(job[u], d)
  BY <1>1, <1>2, <1>4, Targets, CurrentStep, Conditions DEF Opening
<1>7. CASE x = job[u].v
  <2>1. ~dom[job[u].v].holds
    BY <1>1, <1>6, <1>7 DEF InUse, TypeOK
  <2>2. job[u].kind \notin PowerKinds \cup {"resize", "snapshot"}
    <3>1. job[u].kind = "snapshot" => job[u].s # job[u].v
      BY <1>6, JobsAssumption, NamesAssumption
    <3>2. QED
      BY <1>6, <1>7, <3>1 DEF Has, Imaging, PowerKinds, Opening, About
  <2>3. At(u)' \in Closing
    BY <1>4 DEF GoesOn, Then, Opening, Closing
  <2>4. ~QuietAt(u)'
    BY <1>4, <2>2, <2>3 DEF QuietAt
  <2>5. QED
    BY <1>5, <2>1, <2>4 DEF OwnEffect
<1>8. CASE x # job[u].v
  <2>1. file'[job[u].v] = file[job[u].v]
    BY <1>1, <1>5, <1>6, <1>8 DEF TypeOK
  <2>2. QuietAt(u)' => QuietAt(u)
    BY <1>1, <1>4, QuietBack
  <2>3. dom[job[u].v].holds => Finished(file[job[u].v]) \/ ~sound[u]
    BY <1>1, <1>4, RunsHere
  <2>4. QED
    BY <1>5, <2>1, <2>2, <2>3 DEF OwnEffect
<1>9. QED
  BY <1>7, <1>8

LEMMA FileEffect ==
  ASSUME BaseInv, Shared, RunsOnFinishedImage,
         NEW u \in Workers, alone[u], clean[job[u].v], Phase(u),
         CopyClose(u) \/ Grow(u) \/ GuestClose(u)
  PROVE  OwnEffect(u)
<1>1. Controlled /\ TypeOK
  BY DEF BaseInv
<1>2. PICK x : x = Current(u).x
  OBVIOUS
<1>3. PICK d \in {"copy_close", "fit", "resize", "guest_close"} : Perform(u, d)
  BY DEF CopyClose, Grow, GuestClose
<1>4. u \in Busy /\ At(u) = d /\ GoesOn(u, d) /\ job' = job
  BY <1>1, <1>3, Performing
<1>5. dom' = dom /\ x \in Files /\ \A y \in Files : y # x => file'[y] = file[y]
  BY <1>2, FileStep
<1>6. /\ job[u].v \in Virtances /\ job[u].v \in Files /\ job[u] \in Jobs
      /\ Has(job[u], d) /\ x = About(job[u], d)
  BY <1>1, <1>2, <1>4, Targets, CurrentStep DEF Files
<1>7. QuietAt(u)' => QuietAt(u)
  BY <1>1, <1>4, QuietBack
<1>8. dom[job[u].v].holds => Finished(file[job[u].v]) \/ ~sound[u]
  BY <1>1, <1>4, RunsHere
<1>9. CASE Grow(u)
  <2>1. sound' = sound /\ file' = [file EXCEPT ![x].size = job[u].size]
    BY <1>2, <1>9 DEF Grow
  <2>2. file'[job[u].v].kind = file[job[u].v].kind
    BY <1>1, <1>5, <1>6, <2>1 DEF TypeOK, Files, Contents
  <2>3. QED
    BY <1>5, <1>7, <1>8, <2>1, <2>2 DEF OwnEffect, Finished
<1>10. CASE (CopyClose(u) \/ GuestClose(u)) /\ x = job[u].v
  <2>1. At(u) \in Closing
    BY <1>10 DEF CopyClose, GuestClose, Perform, Doing, At, Closing
  <2>2. held[u].kind # "absent"
    BY <2>1 DEF Phase, Opened
  <2>3. WrittenBy(x) # {}
    BY <1>2, <1>4, <2>1, <2>2, WrittenHeld
  <2>4. ~dom[job[u].v].holds
    BY <1>5, <1>6, <1>10, <2>3 DEF BaseInv, Writers
  <2>5. ~QuietAt(u)
    <3>1. job[u].kind = "snapshot" => job[u].s # job[u].v
      BY <1>6, JobsAssumption, NamesAssumption
    <3>2. QED
      BY <1>4, <1>6, <1>10, <2>1, <3>1 DEF QuietAt, Has, Imaging, PowerKinds, Closing, About
  <2>6. QED
    BY <1>5, <1>7, <2>4, <2>5 DEF OwnEffect
<1>11. CASE CopyClose(u) /\ x # job[u].v
  <2>1. d = "copy_close" /\ sound' = [sound EXCEPT ![u] = @ /\ (held[u].kind = "ready"
                                                         \/ Current(u).from \notin Snapshots)]
    BY <1>3, <1>11 DEF CopyClose, Perform, Doing
  <2>2. sound'[u] => sound[u]
    BY <1>1, <2>1 DEF Controlled
  <2>6. file'[job[u].v] = file[job[u].v]
    BY <1>5, <1>6, <1>11
  <2>7. QED
    BY <1>5, <1>7, <1>8, <2>2, <2>6 DEF OwnEffect
<1>12. CASE GuestClose(u) /\ x # job[u].v
  <2>1. sound' = sound /\ file'[job[u].v] = file[job[u].v]
    BY <1>5, <1>6, <1>12 DEF GuestClose
  <2>2. QED
    BY <1>5, <1>7, <1>8, <2>1 DEF OwnEffect
<1>13. QED
  BY <1>9, <1>10, <1>11, <1>12

LEMMA DeleteEffect ==
  ASSUME BaseInv, NEW u \in Workers, DeleteVolume(u)
  PROVE  OwnEffect(u)
<1>1. PICK v : v = job[u].v
  OBVIOUS
<1>2. /\ u \in Busy /\ At(u) = "delete_volume" /\ job' = job /\ v \in Virtances
      /\ dom' = [dom EXCEPT ![v].holds = FALSE]
  BY <1>1, DeleteStep
<1>3. job[u].kind = "delete"
  BY <1>2, CurrentStep DEF BaseInv, Has, Imaging
<1>4. dom'[v].holds = FALSE
  BY <1>2 DEF BaseInv, TypeOK
<1>5. ~QuietAt(u)'
  BY <1>2, <1>3 DEF QuietAt, PowerKinds
<1>6. QED
  BY <1>1, <1>4, <1>5 DEF OwnEffect


-----------------------------------------------------------------------------
(* A step of a handler keeps all of it.  First the handler itself, as long *)
(* as it goes on.                                                          *)
LEMMA OwnStep ==
  ASSUME BaseInv, HistoryInv, NEW u \in Workers, HandlerStep(u), u \in Busy', alone[u]
  PROVE  Phase(u)' /\ (clean[job[u].v] => OwnEffect(u))
<1>1. /\ Controlled /\ Shared /\ CleanAlone /\ CleanConsistent /\ RunsOnFinishedImage
      /\ u \in Busy
  BY Touch DEF BaseInv, HistoryInv
<1>2. Phase(u)
  BY <1>1 DEF HistoryInv, Phases
<1>3. CASE Look(u) \/ GetState(u) \/ CreateVolume(u)
  BY <1>1, <1>2, <1>3, QuietStepPhase, QuietEffect
<1>4. CASE StepRaises(u)
  BY <1>1, <1>2, <1>4, RaisePhase, QuietEffect
<1>5. CASE \/ Destroy(u) \/ Undefine(u) \/ Define(u) \/ Start(u) \/ SuspendOrResume(u)
  BY <1>1, <1>2, <1>5, DomainStepPhase, DomainEffect
<1>6. CASE CopyOpen(u)
  BY <1>1, <1>6, CopyOpenPhase, OpenEffect
<1>7. CASE GuestOpen(u)
  <2>1. At(u) = "guest_open"
    BY <1>7 DEF GuestOpen, Perform, Doing, At
  <2>2. job[u].kind = "reset_password" => QuietAt(u)
    BY <2>1 DEF QuietAt, Closing
  <2>3. job[u].kind = "reset_password" /\ clean[job[u].v] => Consistent(job[u].v)
    BY <1>1, <2>2, QuietHere
  <2>4. QED
    BY <1>1, <1>2, <1>7, <2>3, GuestOpenPhase, OpenEffect
<1>8. CASE CopyClose(u)
  BY <1>1, <1>2, <1>8, CopyClosePhase, FileEffect
<1>9. CASE Grow(u)
  BY <1>1, <1>2, <1>9, GrowPhase, FileEffect
<1>10. CASE GuestClose(u)
  BY <1>1, <1>2, <1>10, GuestClosePhase, FileEffect
<1>11. CASE DeleteVolume(u)
  BY <1>1, <1>2, <1>11, DeleteVolumePhase, DeleteEffect
<1>12. ~Respond(u)
  BY <1>1 DEF Respond, Ends, Busy, Controlled
<1>13. QED
  BY <1>3, <1>4, <1>5, <1>6, <1>7, <1>8, <1>9, <1>10, <1>11, <1>12 DEF HandlerStep

(* A handler that answers leaves a clean virtance consistent.              *)
LEMMA RespondConsistent ==
  ASSUME BaseInv, HistoryInv, NEW u \in Workers, Respond(u), clean'[job[u].v]
  PROVE  Consistent(job[u].v)
<1>1. /\ Controlled /\ Shared /\ CleanAlone /\ CleanConsistent
      /\ u \in Busy /\ At(u) = "respond"
  BY DEF BaseInv, HistoryInv, Respond, Doing, At
<1>2. job[u].v \in Virtances /\ job[u] \in Jobs
  BY <1>1, Targets
<1>3. /\ alone[u] /\ sound[u]
      /\ clean[job[u].v] \/ job[u].kind \in {"create", "rebuild", "delete"}
  BY <1>1, <1>2 DEF Respond, Controlled
<1>4. Phase(u)
  BY <1>1, <1>3 DEF HistoryInv, Phases
<1>5. CASE job[u].kind \in {"create", "rebuild"}
  BY <1>1, <1>3, <1>4, <1>5 DEF Phase, Defined, Written, FromTemplate, FromCopy,
         FromSnapshot, Ready, Consistent
<1>6. CASE job[u].kind = "delete"
  BY <1>1, <1>4, <1>6 DEF Phase, Deleted, Consistent
<1>7. CASE job[u].kind = "restore"
  BY <1>1, <1>3, <1>4, <1>7 DEF Phase, Defined, Written, FromCopy, Ready, Consistent
<1>8. CASE job[u].kind = "reset_password"
  BY <1>1, <1>3, <1>4, <1>8 DEF Phase, Defined, Repassworded, Consistent
<1>9. CASE job[u].kind \in PowerKinds \cup {"resize", "snapshot"}
  <2>1. clean[job[u].v] /\ QuietAt(u)
    BY <1>3, <1>9 DEF PowerKinds, QuietAt
  <2>2. QED
    BY <1>1, <1>3, <2>1, QuietHere
<1>10. QED
  BY <1>2, <1>5, <1>6, <1>7, <1>8, <1>9, JobsAssumption DEF JobKinds, PowerKinds

(* A handler that ends and leaves its virtance clean has answered.         *)
LEMMA EndingStep ==
  ASSUME BaseInv, NEW u \in Workers, HandlerStep(u), u \notin Busy', clean'[job[u].v]
  PROVE  Respond(u)
<1>1. Controlled /\ u \in Busy
  BY Touch DEF BaseInv
<1>2. job[u].v \in Virtances
  BY <1>1, Targets
<1>3. ASSUME NEW d, d # "respond", Perform(u, d)
      PROVE  FALSE
  <2>1. GoesOn(u, d)
    BY <1>1, <1>3, Performing
  <2>2. QED
    BY <2>1 DEF GoesOn
<1>4. CASE StepRaises(u)
  <2>1. CASE PassAt(u) # {} /\ Skip(u, CHOOSE i \in PassAt(u) : TRUE)
    <3>1. GoesOn(u, "pass")
      BY <1>1, <2>1, SkippingToPass
    <3>2. QED
      BY <3>1 DEF GoesOn
  <2>2. CASE clean' = [clean EXCEPT ![job[u].v] = FALSE]
    BY <1>1, <1>2, <2>2 DEF Controlled
  <2>3. QED
    BY <1>4, <2>1, <2>2 DEF StepRaises
<1>5. CASE GetState(u)
  <2>1. At(u) = "get_state" /\ (Skip(u, 1) \/ Skip(u, 2)) /\ Possible(u)
    BY <1>5 DEF GetState, Doing, At
  <2>2. CASE Skip(u, 1)
    <3>1. Perform(u, "get_state")
      BY <1>1, <2>1, <2>2 DEF Perform, Doing, At
    <3>2. QED
      BY <1>3, <3>1
  <2>3. CASE Skip(u, 2)
    <3>1. GoesOn(u, "destroy")
      BY <1>1, <2>1, <2>3, SkippingDestroy
    <3>2. QED
      BY <3>1 DEF GoesOn
  <2>4. QED
    BY <2>1, <2>2, <2>3
<1>6. QED
  BY <1>3, <1>4, <1>5 DEF HandlerStep, Look, Destroy, Undefine, Define, Start, SuspendOrResume,
     CopyOpen, CopyClose, Grow, GuestOpen, GuestClose, CreateVolume, DeleteVolume

LEMMA SharedStep ==
  ASSUME BaseInv, HistoryInv, NEW u \in Workers, HandlerStep(u)
  PROVE  Shared' /\ CleanAlone' /\ Phases'
<1>1. Controlled /\ Shared /\ CleanAlone /\ Phases
  BY DEF BaseInv, HistoryInv
<1>2. u \in Busy /\ alone' = alone
  BY Touch
<1>3. \A w \in Busy' : w \in Busy /\ job'[w] = job[w]
  BY StaysBusy
<1>4. Shared'
  BY <1>1, <1>2, <1>3 DEF Shared, Uses
<1>5. ASSUME NEW w \in Busy', clean'[job'[w].v]
      PROVE  alone'[w]
  <2>1. w \in Busy /\ job'[w] = job[w] /\ job[w].v \in Virtances
    BY <1>1, <1>3, <1>5, Targets
  <2>2. CASE clean[job[w].v]
    BY <1>1, <1>2, <2>1, <2>2 DEF CleanAlone
  <2>3. CASE ~clean[job[w].v]
    <3>1. Respond(u) /\ job[w].v = job[u].v /\ alone[u]
      BY <1>5, <2>1, <2>3, CleanSteps
    <3>2. w = u
      BY <1>1, <1>2, <2>1, <3>1, OnlyOne
    <3>3. u \notin Busy'
      BY <1>1, <3>1 DEF Respond, Ends, Busy, Controlled
    <3>4. QED
      BY <1>5, <3>2, <3>3
  <2>4. QED
    BY <2>2, <2>3
<1>6. ASSUME NEW w \in Busy', alone'[w]
      PROVE  Phase(w)'
  <2>1. w \in Busy /\ alone[w] /\ w \in Workers
    BY <1>2, <1>3, <1>6 DEF Busy
  <2>2. CASE w = u
    BY <1>6, <2>1, <2>2, OwnStep
  <2>3. CASE w # u
    BY <1>1, <2>1, <2>3, OthersPhase DEF Phases
  <2>4. QED
    BY <2>2, <2>3
<1>7. CleanAlone'
  BY <1>5 DEF CleanAlone
<1>8. Phases'
  BY <1>6 DEF Phases
<1>9. QED
  BY <1>4, <1>7, <1>8

(* What a step does to a virtance its handler does not serve.              *)
LEMMA ElsewhereSame ==
  ASSUME BaseInv, NEW u \in Workers, HandlerStep(u), NEW v \in Virtances, v # job[u].v
  PROVE  /\ dom'[v] = dom[v] /\ clean'[v] = clean[v] /\ file'[v] = file[v]
         /\ \A w \in Busy : job[w].v = v => w \in Busy' /\ At(w)' = At(w) /\ job'[w] = job[w]
<1>1. Controlled
  BY DEF BaseInv
<1>2. u \in Busy /\ dom'[v] = dom[v] /\ clean'[v] = clean[v]
  BY Touch
<1>3. v \in Files /\ v \notin Uses(u)
  BY <1>1, <1>2, UsedFiles DEF Files
<1>4. file'[v] = file[v]
  BY <1>3, Touch
<1>5. ASSUME NEW w \in Busy, job[w].v = v
      PROVE  w \in Busy' /\ At(w)' = At(w) /\ job'[w] = job[w]
  BY <1>5, StaysBusy DEF At
<1>6. QED
  BY <1>2, <1>4, <1>5

LEMMA ConsistentStep ==
  ASSUME BaseInv, HistoryInv, NEW u \in Workers, HandlerStep(u)
  PROVE  CleanConsistent'
<1>1. Controlled /\ Shared /\ CleanAlone /\ CleanConsistent
  BY DEF BaseInv, HistoryInv
<1>2. u \in Busy
  BY Touch
<1> SUFFICES ASSUME NEW v \in Virtances, clean'[v], Quiet(v)'
             PROVE  Consistent(v)'
  BY DEF CleanConsistent
<1>3. CASE v # job[u].v
  <2>1. /\ dom'[v] = dom[v] /\ clean'[v] = clean[v] /\ file'[v] = file[v]
        /\ \A w \in Busy : job[w].v = v => w \in Busy' /\ At(w)' = At(w) /\ job'[w] = job[w]
    BY <1>3, ElsewhereSame
  <2>2. ASSUME NEW w \in Busy, job[w].v = v
        PROVE  QuietAt(w)
    <3>1. w \in Busy' /\ At(w)' = At(w) /\ job'[w] = job[w]
      BY <2>1, <2>2
    <3>2. QuietAt(w)'
      BY <2>2, <3>1 DEF Quiet
    <3>3. QED
      BY <3>1, <3>2 DEF QuietAt
  <2>3. Consistent(v)
    BY <1>1, <2>1, <2>2 DEF CleanConsistent, Quiet
  <2>4. QED
    BY <2>1, <2>3 DEF Consistent, Present
<1>4. CASE v = job[u].v /\ u \in Busy'
  <2>1. clean[v] /\ job'[u] = job[u]
    BY <1>4, StaysBusy
  <2>2. alone[u] /\ QuietAt(u)'
    BY <1>1, <1>2, <1>4, <2>1 DEF CleanAlone, Quiet
  <2>3. OwnEffect(u)
    BY <1>4, <2>1, <2>2, OwnStep
  <2>4. Consistent(v)
    BY <1>1, <1>2, <1>4, <2>1, <2>2, <2>3, QuietHere DEF OwnEffect
  <2>5. /\ dom'[v].defined <=> dom[v].defined
        /\ file'[v].kind = file[v].kind
    BY <1>4, <2>2, <2>3 DEF OwnEffect
  <2>6. QED
    BY <2>4, <2>5 DEF Consistent, Present, Finished
<1>5. CASE v = job[u].v /\ u \notin Busy'
  <2>1. Respond(u)
    BY <1>5, EndingStep
  <2>2. Consistent(v)
    BY <1>5, <2>1, RespondConsistent
  <2>3. dom' = dom /\ file' = file
    BY <2>1 DEF Respond
  <2>4. QED
    BY <2>2, <2>3 DEF Consistent, Present
<1>6. QED
  BY <1>3, <1>4, <1>5

LEMMA RunsStep ==
  ASSUME BaseInv, HistoryInv, NEW u \in Workers, HandlerStep(u)
  PROVE  RunsOnFinishedImage'
<1>1. /\ Controlled /\ TypeOK /\ Shared /\ CleanAlone /\ HoldsPresent /\ RunsOnFinishedImage
  BY DEF BaseInv, HistoryInv
<1>2. u \in Busy
  BY Touch
<1> SUFFICES ASSUME NEW v \in Virtances, clean'[v], Active(v)', dom'[v].holds
             PROVE  Finished(file[v])' \/ \E w \in WorkingOn(v)' : ~sound'[w]
  BY DEF RunsOnFinishedImage
<1>3. CASE v # job[u].v
  <2>1. dom'[v] = dom[v] /\ clean'[v] = clean[v] /\ file'[v] = file[v]
    BY <1>3, ElsewhereSame
  <2>2. Finished(file[v]) \/ \E w \in WorkingOn(v) : ~sound[w]
    BY <1>1, <2>1 DEF RunsOnFinishedImage, Active
  <2>3. ASSUME NEW w \in WorkingOn(v), ~sound[w]
        PROVE  w \in WorkingOn(v)' /\ ~sound'[w]
    <3>1. w \in Busy /\ w \in Workers /\ v \in Uses(w)
      BY DEF WorkingOn, Busy
    <3>2. w # u
      BY <1>1, <1>3, <3>1, UsedFiles
    <3>3. w \in Busy' /\ job'[w] = job[w] /\ sound'[w] = sound[w]
      BY <3>1, <3>2, StaysBusy, Touch
    <3>4. QED
      BY <2>3, <3>1, <3>3 DEF WorkingOn, Uses
  <2>4. QED
    BY <2>1, <2>2, <2>3 DEF Finished
<1>4. CASE v = job[u].v /\ u \in Busy'
  <2>1. clean[v] /\ job'[u] = job[u]
    BY <1>4, StaysBusy
  <2>2. alone[u]
    BY <1>1, <1>2, <1>4, <2>1 DEF CleanAlone
  <2>3. OwnEffect(u)
    BY <1>4, <2>1, <2>2, OwnStep
  <2>4. Finished(file'[v]) \/ ~sound'[u]
    BY <1>4, <2>3 DEF OwnEffect
  <2>5. v \in Uses(u)
    BY <1>1, <1>2, <1>4, UsedFiles
  <2>6. u \in WorkingOn(v)'
    BY <1>4, <2>1, <2>5 DEF WorkingOn, Uses
  <2>7. QED
    BY <2>4, <2>6 DEF Finished
<1>5. CASE v = job[u].v /\ u \notin Busy'
  <2>1. Respond(u)
    BY <1>5, EndingStep
  <2>2. Consistent(v)
    BY <1>5, <2>1, RespondConsistent
  <2>3. dom' = dom /\ file' = file
    BY <2>1 DEF Respond
  <2>4. Present(v)
    BY <1>1, <2>3 DEF HoldsPresent
  <2>5. QED
    BY <2>2, <2>3, <2>4 DEF Consistent
<1>6. QED
  BY <1>3, <1>4, <1>5

(* The start of a handler: whoever shares a file with it is not alone any  *)
(* more.                                                                   *)
LEMMA Joining ==
  ASSUME BaseInv, NEW w \in Workers, NEW j \in Jobs, Request(w, j)
  PROVE  /\ dom' = dom /\ file' = file /\ held' = held /\ live' = live
         /\ \A u \in Busy : sound'[u] = sound[u]
         /\ Uses(w)' = {j.v, j.s} \ {NoFile}
         /\ \A u \in Busy : Uses(u)' = Uses(u)
         /\ \A u \in Busy : alone'[w] => Uses(u) \cap Uses(w)' = {}
         /\ \A u \in Busy : alone'[u] => alone[u] /\ Uses(u) \cap Uses(w)' = {}
         /\ \A v \in Virtances : clean'[v] => clean[v]
         /\ clean'[j.v] => alone'[w]
         /\ \A u \in Busy : clean'[job[u].v] /\ alone[u] => alone'[u]
<1> DEFINE sharing == {u \in Busy : Uses(u) \cap {j.v, j.s} # {}}
           gone == {j.v} \cup {job[u].v : u \in sharing}
<1>1. /\ w \notin Busy /\ job'[w] = j
      /\ \A u \in Busy : u # w /\ job'[u] = job[u]
  BY Beginning
<1>2. /\ alone' = [u \in Workers |-> IF u = w THEN sharing = {}
                                     ELSE alone[u] /\ u \notin sharing]
      /\ sound' = [sound EXCEPT ![w] = TRUE]
      /\ clean' = [v \in Virtances |-> clean[v] /\ (sharing = {} \/ v \notin gone)]
      /\ dom' = dom /\ file' = file /\ held' = held /\ live' = live
  BY DEF Request
<1>3. \A u \in Busy : u \in Workers /\ job[u].v \in Virtances
  BY Targets DEF BaseInv
<1>4. j.v \in Virtances
  BY JobsAssumption
<1>5. Uses(w)' = {j.v, j.s} \ {NoFile} /\ \A u \in Busy : Uses(u)' = Uses(u)
  BY <1>1 DEF Uses
<1>6. \A u \in Busy : Uses(u) \cap Uses(w)' # {} => u \in sharing
  BY <1>5
<1>7. \A u \in sharing : u \in Busy /\ job[u].v \in gone
  OBVIOUS
<1>8. j.v \in gone
  OBVIOUS
<1> HIDE DEF sharing, gone
<1>9. alone'[w] <=> sharing = {}
  BY <1>2
<1>10. \A u \in Busy : alone'[u] <=> alone[u] /\ u \notin sharing
  BY <1>1, <1>2, <1>3
<1>11. \A v \in Virtances : clean'[v] <=> clean[v] /\ (sharing = {} \/ v \notin gone)
  BY <1>2
<1>12. \A u \in Busy : sound'[u] = sound[u]
  BY <1>1, <1>2, <1>3 DEF BaseInv, Controlled
<1>13. \A u \in Busy : alone'[w] => Uses(u) \cap Uses(w)' = {}
  BY <1>6, <1>9
<1>14. \A u \in Busy : alone'[u] => alone[u] /\ Uses(u) \cap Uses(w)' = {}
  BY <1>6, <1>10
<1>15. clean'[j.v] => alone'[w]
  BY <1>4, <1>8, <1>9, <1>11
<1>16. \A u \in Busy : clean'[job[u].v] /\ alone[u] => alone'[u]
  BY <1>3, <1>7, <1>10, <1>11
<1>17. QED
  BY <1>2, <1>5, <1>11, <1>12, <1>13, <1>14, <1>15, <1>16

LEMMA RequestHistory ==
  ASSUME BaseInv, HistoryInv, NEW w \in Workers, NEW j \in Jobs, Request(w, j)
  PROVE  HistoryInv'
<1>1. /\ Controlled /\ Shared /\ CleanAlone /\ HoldsPresent /\ Phases
      /\ CleanConsistent /\ RunsOnFinishedImage
  BY DEF BaseInv, HistoryInv
<1>2. /\ w \notin Busy /\ Busy' = Busy \cup {w} /\ job'[w] = j /\ At(w)' = First(j)
      /\ \A u \in Busy : u # w /\ todo'[u] = todo[u] /\ job'[u] = job[u]
  BY Beginning
<1>3. /\ dom' = dom /\ file' = file /\ held' = held /\ live' = live
      /\ \A u \in Busy : sound'[u] = sound[u]
      /\ \A u \in Busy : Uses(u)' = Uses(u)
      /\ \A u \in Busy : alone'[w] => Uses(u) \cap Uses(w)' = {}
      /\ \A u \in Busy : alone'[u] => alone[u] /\ Uses(u) \cap Uses(w)' = {}
      /\ \A v \in Virtances : clean'[v] => clean[v]
      /\ clean'[j.v] => alone'[w]
      /\ \A u \in Busy : clean'[job[u].v] /\ alone[u] => alone'[u]
  BY Joining
<1>4. \A u \in Busy : job[u].v \in Virtances
  BY <1>1, Targets
<1>5. \A u \in Busy : At(u)' = At(u)
  BY <1>2 DEF At, Current
<1>6. Shared'
  <2>1. ASSUME NEW a \in Busy', NEW b \in Busy', a # b, alone'[a]
        PROVE  Uses(a)' \cap Uses(b)' = {}
    <3>1. CASE a = w
      BY <1>2, <1>3, <2>1, <3>1
    <3>2. CASE b = w
      BY <1>2, <1>3, <2>1, <3>2
    <3>3. CASE a # w /\ b # w
      BY <1>1, <1>2, <1>3, <2>1, <3>3 DEF Shared
    <3>4. QED
      BY <3>1, <3>2, <3>3
  <2>2. QED
    BY <2>1 DEF Shared
<1>7. CleanAlone'
  <2>1. ASSUME NEW u \in Busy, clean'[job'[u].v]
        PROVE  alone'[u]
    BY <1>1, <1>2, <1>3, <1>4, <2>1 DEF CleanAlone
  <2>2. QED
    BY <1>2, <1>3, <2>1 DEF CleanAlone
<1>8. HoldsPresent'
  BY <1>1, <1>3 DEF HoldsPresent, Present
<1>9. Phase(w)'
  <2>1. j.kind \in JobKinds
    BY JobsAssumption
  <2>2. QED
    BY <1>2, <2>1 DEF JobKinds, First, Phase, Stopped, Opened, Sized, Written, Defined,
       Copied, Repassworded, Deleted, Closing, Ready, FromTemplate, FromCopy, FromSnapshot
<1>10. ASSUME NEW u \in Busy, alone'[u]
       PROVE  Phase(u)'
  <2>1. Phase(u)
    BY <1>1, <1>3, <1>10 DEF Phases
  <2>2. /\ job'[u] = job[u] /\ At(u)' = At(u) /\ held'[u] = held[u] /\ sound'[u] = sound[u]
        /\ clean'[job[u].v] => clean[job[u].v]
    BY <1>2, <1>3, <1>4, <1>5
  <2>3. Stopped(u)' /\ Opened(u)' /\ Sized(u)' /\ Written(u)' /\ Defined(u)'
    BY <1>3, <2>1, <2>2 DEF Phase, Stopped, Opened, Sized, Written, Defined
  <2>4. Copied(u)' /\ Repassworded(u)' /\ Deleted(u)'
    BY <1>3, <2>1, <2>2 DEF Phase, Copied, Repassworded, Deleted, Present, Alike
  <2>5. QED
    BY <2>3, <2>4 DEF Phase
<1>11. Phases'
  BY <1>2, <1>9, <1>10 DEF Phases
<1>12. CleanConsistent'
  <2>1. ASSUME NEW v \in Virtances, clean'[v], Quiet(v)'
        PROVE  Consistent(v)'
    <3>1. ASSUME NEW u \in Busy, job[u].v = v
          PROVE  QuietAt(u)
      <4>1. u \in Busy' /\ job'[u] = job[u] /\ At(u)' = At(u)
        BY <1>2, <1>5
      <4>2. QuietAt(u)'
        BY <2>1, <3>1, <4>1 DEF Quiet
      <4>3. QED
        BY <4>1, <4>2 DEF QuietAt
    <3>2. Consistent(v)
      BY <1>1, <1>3, <2>1, <3>1 DEF CleanConsistent, Quiet
    <3>3. QED
      BY <1>3, <3>2 DEF Consistent, Present
  <2>2. QED
    BY <2>1 DEF CleanConsistent
<1>13. RunsOnFinishedImage'
  <2>1. ASSUME NEW v \in Virtances, clean'[v], Active(v)', dom'[v].holds
        PROVE  Finished(file[v])' \/ \E u \in WorkingOn(v)' : ~sound'[u]
    <3>1. Finished(file[v]) \/ \E u \in WorkingOn(v) : ~sound[u]
      BY <1>1, <1>3, <2>1 DEF RunsOnFinishedImage, Active
    <3>2. \A u \in WorkingOn(v) : u \in WorkingOn(v)' /\ sound'[u] = sound[u]
      BY <1>2, <1>3 DEF WorkingOn
    <3>3. QED
      BY <1>3, <3>1, <3>2
  <2>2. QED
    BY <2>1 DEF RunsOnFinishedImage
<1>14. QED
  BY <1>6, <1>7, <1>8, <1>11, <1>12, <1>13 DEF HistoryInv

LEMMA PowersOffHistory ==
  ASSUME BaseInv, HistoryInv, NEW v \in Virtances, GuestPowersOff(v)
  PROVE  HistoryInv'
<1>1. /\ Controlled /\ TypeOK /\ Shared /\ CleanAlone /\ HoldsPresent /\ Phases
      /\ CleanConsistent /\ RunsOnFinishedImage
  BY DEF BaseInv, HistoryInv
<1>2. dom' = [dom EXCEPT ![v] = Off(v)] /\ file' = file /\ held' = held
      /\ job' = job /\ todo' = todo /\ alone' = alone /\ sound' = sound /\ clean' = clean
      /\ live' = live
  BY DEF GuestPowersOff
<1>3. \A x \in Virtances : /\ dom'[x].defined <=> dom[x].defined
                           /\ dom'[x].holds => dom[x].holds
                           /\ dom'[x].power = "running" => dom[x].power = "running"
  BY <1>1, <1>2, OffTyped DEF TypeOK
<1>4. /\ Busy' = Busy /\ \A w \in Busy : At(w)' = At(w)
      /\ \A w \in Busy : job[w].v \in Virtances
  BY <1>1, <1>2, Targets DEF Busy, At, Current
<1>5. Shared' /\ CleanAlone' /\ HoldsPresent'
  BY <1>1, <1>2, <1>3, <1>4 DEF Shared, CleanAlone, HoldsPresent, Uses, Present
<1>6. ASSUME NEW w \in Busy, alone[w]
      PROVE  Phase(w)'
  <2>1. Phase(w)
    BY <1>1, <1>6 DEF Phases
  <2>2. /\ At(w)' = At(w)
        /\ dom'[job[w].v].defined <=> dom[job[w].v].defined
        /\ dom'[job[w].v].power = "running" => dom[job[w].v].power = "running"
    BY <1>3, <1>4
  <2>3. Stopped(w)' /\ Opened(w)' /\ Sized(w)' /\ Written(w)' /\ Defined(w)'
    BY <1>2, <2>1, <2>2 DEF Phase, Stopped, Opened, Sized, Written, Defined
  <2>4. Copied(w)' /\ Repassworded(w)' /\ Deleted(w)'
    BY <1>2, <2>1, <2>2 DEF Phase, Copied, Repassworded, Deleted, Present, Alike
  <2>5. QED
    BY <2>3, <2>4 DEF Phase
<1>7. Phases'
  BY <1>2, <1>4, <1>6 DEF Phases
<1>8. CleanConsistent'
  BY <1>1, <1>2, <1>3, <1>4 DEF CleanConsistent, Quiet, QuietAt, Consistent, Present
<1>9. RunsOnFinishedImage'
  <2>1. ASSUME NEW x \in Virtances, clean'[x], Active(x)', dom'[x].holds
        PROVE  Finished(file[x])' \/ \E w \in WorkingOn(x)' : ~sound'[w]
    <3>1. Active(x) /\ dom[x].holds /\ clean[x]
      BY <1>1, <1>2, <1>3, <2>1 DEF TypeOK
    <3>2. WorkingOn(x)' = WorkingOn(x)
      BY <1>2, <1>4 DEF WorkingOn, Uses
    <3>3. QED
      BY <1>1, <1>2, <3>1, <3>2 DEF RunsOnFinishedImage
  <2>2. QED
    BY <2>1 DEF RunsOnFinishedImage
<1>10. QED
  BY <1>5, <1>7, <1>8, <1>9 DEF HistoryInv

LEMMA GuestWritesHistory ==
  ASSUME BaseInv, HistoryInv, NEW v \in Virtances, GuestWrites(v)
  PROVE  HistoryInv'
<1>1. /\ dom' = dom /\ file' = file /\ job' = job /\ todo' = todo
      /\ alone' = alone /\ sound' = sound /\ clean' = clean
      /\ live' = live \cup ReadBy(v)
  BY DEF GuestWrites
<1>2. Busy' = Busy /\ \A w \in Busy : At(w)' = At(w)
  BY <1>1 DEF Busy, At, Current
<1>3. Shared' /\ CleanAlone' /\ HoldsPresent'
  BY <1>1, <1>2 DEF HistoryInv, Shared, CleanAlone, HoldsPresent, Uses, Present
<1>4. ASSUME NEW w \in Busy, alone[w]
      PROVE  Phase(w)'
  <2>1. Phase(w) /\ w \in Workers
    BY <1>4 DEF HistoryInv, Phases, Busy
  <2>2. At(w)' = At(w)
    BY <1>2
  <2>3. Stopped(w)' /\ Sized(w)' /\ Written(w)' /\ Defined(w)' /\ Deleted(w)'
    BY <1>1, <2>1, <2>2 DEF Phase, Stopped, Sized, Written, Defined, Deleted, Present
  <2>4. Opened(w)'
    BY <2>1, <2>2, GuestWritesStep DEF Phase, Opened
  <2>5. CASE w \in ReadBy(v)
    <3>1. At(w) = "copy_close" /\ Current(w).from \in Virtances
      BY <2>5 DEF ReadBy, At
    <3>2. job[w].kind = "snapshot"
      BY <3>1, CopiedImage DEF BaseInv
    <3>3. Alike(w, held[w], file[job[w].v])'
      BY <1>1, <2>1, <2>5, <3>1, <3>2, GuestWritesStep DEF Phase, Copied, Alike
    <3>4. QED
      BY <1>1, <2>2, <2>3, <2>4, <3>1, <3>2, <3>3 DEF Phase, Copied, Repassworded
  <2>6. CASE w \notin ReadBy(v)
    <3>1. held'[w] = held[w] /\ (w \in live' <=> w \in live)
      BY <1>1, <2>1, <2>6, GuestWritesStep
    <3>2. Copied(w)' /\ Repassworded(w)'
      BY <1>1, <2>1, <2>2, <3>1 DEF Phase, Copied, Repassworded, Alike
    <3>3. QED
      BY <2>3, <2>4, <3>2 DEF Phase
  <2>7. QED
    BY <2>5, <2>6
<1>5. Phases'
  BY <1>1, <1>2, <1>4 DEF Phases
<1>6. CleanConsistent'
  BY <1>1, <1>2 DEF HistoryInv, CleanConsistent, Quiet, QuietAt, Consistent, Present
<1>7. RunsOnFinishedImage'
  BY <1>1, <1>2 DEF HistoryInv, RunsOnFinishedImage, WorkingOn, Uses, Active
<1>8. QED
  BY <1>3, <1>5, <1>6, <1>7 DEF HistoryInv

(* When all handlers die, only a virtance that none worked on stays clean. *)
LEMMA DieHistory ==
  ASSUME BaseInv, HistoryInv, HandlersDie,
         \A v \in Virtances : /\ dom'[v].defined <=> dom[v].defined
                              /\ dom'[v].holds => Present(v)
  PROVE  HistoryInv'
<1>1. Controlled /\ CleanConsistent
  BY DEF BaseInv, HistoryInv
<1>2. /\ todo' = [w \in Workers |-> <<>>] /\ file' = file
      /\ clean' = [v \in Virtances |-> clean[v] /\ WorkingOn(v) = {}]
  BY DEF HandlersDie
<1>3. Busy' = {}
  BY <1>2 DEF Busy
<1>4. ASSUME NEW v \in Virtances, clean'[v]
      PROVE  Consistent(v)
  <2>1. clean[v] /\ WorkingOn(v) = {}
    BY <1>2, <1>4
  <2>2. \A w \in Busy : job[w].v # v
    BY <1>1, <2>1, UsedFiles DEF WorkingOn
  <2>3. QED
    BY <1>1, <2>1, <2>2 DEF CleanConsistent, Quiet
<1>5. Shared' /\ CleanAlone' /\ Phases'
  BY <1>3 DEF Shared, CleanAlone, Phases
<1>6. HoldsPresent'
  BY <1>2 DEF HoldsPresent, Present
<1>7. CleanConsistent'
  BY <1>2, <1>4 DEF CleanConsistent, Consistent, Present
<1>8. RunsOnFinishedImage'
  BY <1>2, <1>4 DEF RunsOnFinishedImage, Consistent
<1>9. QED
  BY <1>5, <1>6, <1>7, <1>8 DEF HistoryInv

LEMMA InitHistory == Init => HistoryInv
<1> SUFFICES ASSUME Init PROVE HistoryInv
  OBVIOUS
<1>1. Busy = {}
  BY DEF Init, Busy
<1>2. Shared /\ CleanAlone /\ Phases
  BY <1>1 DEF Shared, CleanAlone, Phases
<1>3. \A v \in Virtances : ~dom[v].defined /\ ~dom[v].holds /\ ~Present(v)
  BY DEF Init, NoDomain, Present, Absent, File
<1>4. HoldsPresent /\ CleanConsistent /\ RunsOnFinishedImage
  BY <1>3 DEF HoldsPresent, CleanConsistent, Consistent, RunsOnFinishedImage
<1>5. QED
  BY <1>2, <1>4 DEF HistoryInv

LEMMA NextHistory == BaseInv /\ HistoryInv /\ [Next]_virtanceVars => HistoryInv'
<1> SUFFICES ASSUME BaseInv, HistoryInv, [Next]_virtanceVars PROVE HistoryInv'
  OBVIOUS
<1>1. CASE UNCHANGED virtanceVars
  <2>1. dom' = dom /\ file' = file /\ job' = job /\ todo' = todo /\ held' = held
        /\ alone' = alone /\ sound' = sound /\ clean' = clean /\ live' = live
    BY <1>1 DEF virtanceVars, realVars
  <2>2. Busy' = Busy /\ \A w \in Busy : At(w)' = At(w)
    BY <2>1 DEF Busy, At, Current
  <2>3. Shared' /\ CleanAlone' /\ HoldsPresent'
    BY <2>1, <2>2 DEF HistoryInv, Shared, CleanAlone, HoldsPresent, Uses, Present
  <2>4. ASSUME NEW w \in Busy, alone[w] PROVE Phase(w)'
    BY <2>1, <2>2, <2>4 DEF HistoryInv, Phases, Phase, Stopped, Opened, Sized, Written,
       Defined, Copied, Repassworded, Deleted, Present, Alike
  <2>5. Phases'
    BY <2>1, <2>2, <2>4 DEF Phases
  <2>6. CleanConsistent'
    BY <2>1, <2>2 DEF HistoryInv, CleanConsistent, Quiet, QuietAt, Consistent, Present
  <2>7. RunsOnFinishedImage'
    BY <2>1, <2>2 DEF HistoryInv, RunsOnFinishedImage, WorkingOn, Uses, Active
  <2>8. QED
    BY <2>3, <2>5, <2>6, <2>7 DEF HistoryInv
<1>2. ASSUME NEW w \in Workers, NEW j \in Jobs, Request(w, j) PROVE HistoryInv'
  BY <1>2, RequestHistory
<1>3. ASSUME NEW w \in Workers, HandlerStep(w) PROVE HistoryInv'
  BY <1>3, SharedStep, HoldsNext, ConsistentStep, RunsStep DEF HistoryInv
<1>4. ASSUME NEW v \in Virtances, GuestPowersOff(v) PROVE HistoryInv'
  BY <1>4, PowersOffHistory
<1>8. ASSUME NEW v \in Virtances, GuestWrites(v) PROVE HistoryInv'
  BY <1>8, GuestWritesHistory
<1>5. CASE Crash
  BY <1>5, DieHistory DEF Crash, HistoryInv, HoldsPresent
<1>6. CASE HostReboot
  <2>1. \A v \in Virtances : /\ dom'[v].defined <=> dom[v].defined
                             /\ dom'[v].holds => Present(v)
    BY <1>6, RebootStep DEF DisksPresent
  <2>2. QED
    BY <1>6, <2>1, DieHistory DEF HostReboot
<1>7. QED
  BY <1>1, <1>2, <1>3, <1>4, <1>5, <1>6, <1>8 DEF Next

LEMMA HistoryInvariant == Spec => [](BaseInv /\ HistoryInv)
<1>1. Init => BaseInv /\ HistoryInv
  BY InitBase, InitHistory
<1>2. BaseInv /\ HistoryInv /\ [Next]_virtanceVars => (BaseInv /\ HistoryInv)'
  BY NextBase, NextHistory
<1>3. QED
  BY <1>1, <1>2, PTL DEF Spec

(* A virtance that no failed, dead or overlapping handler touched since it *)
(* was made has a finished image if it has a definition, and no image left *)
(* if it has none, whenever no handler works on it.                        *)
THEOREM CleanStays == Spec => []CleanIsConsistent
<1>1. BaseInv /\ HistoryInv => CleanIsConsistent
  <2> SUFFICES ASSUME BaseInv, HistoryInv, NEW v \in Virtances, clean[v], WorkingOn(v) = {}
               PROVE  /\ dom[v].defined => Finished(file[v])
                      /\ ~Exists(v) => ~Present(v)
    BY DEF CleanIsConsistent
  <2>1. \A w \in Busy : job[w].v # v
    BY UsedFiles DEF WorkingOn, BaseInv
  <2>2. Consistent(v)
    BY <2>1 DEF HistoryInv, CleanConsistent, Quiet
  <2>3. QED
    BY <2>2 DEF Consistent, Exists
<1>2. QED
  BY <1>1, HistoryInvariant, PTL

(* Its domain runs on a finished image only, unless a handler that copied  *)
(* an unfinished snapshot is still at work on it.                          *)
THEOREM RunsFinished == Spec => []RunsOnFinishedImage
<1>1. HistoryInv => RunsOnFinishedImage
  BY DEF HistoryInv
<1>2. QED
  BY <1>1, HistoryInvariant, PTL

(* A handler that had its virtance and its snapshot to itself has done     *)
(* what was asked when it answers without an error, whatever handlers      *)
(* failed, died or overlapped before and whatever others do meanwhile.     *)
THEOREM AnswersTrue == Spec => []DoneAsReported
<1>1. BaseInv /\ HistoryInv => DoneAsReported
  <2> SUFFICES ASSUME BaseInv, HistoryInv, NEW w \in Workers, Doing(w, "respond"), alone[w]
               PROVE  LET j == job[w]
                          v == j.v
                      IN CASE j.kind \in {"create", "rebuild", "restore"} ->
                                /\ dom[v].defined
                                /\ sound[w] => Finished(file[v])
                                /\ file[v].size = j.size
                           [] j.kind = "reset_password" ->
                                dom[v].defined /\ (clean[v] => Finished(file[v]))
                           [] j.kind = "snapshot" ->
                                /\ file[j.s].size = file[v].size
                                /\ w \notin live => file[j.s].kind = file[v].kind
                           [] j.kind = "delete" ->
                                /\ ~Present(v) /\ ~dom[v].defined
                                /\ dom[v].power # "running"
                           [] j.kind = "resize" -> j.size # NoSize => file[v].size = j.size
                           [] OTHER -> TRUE
    BY DEF DoneAsReported
  <2> DEFINE j == job[w]
             v == j.v
  <2>1. w \in Busy /\ At(w) = "respond" /\ Phase(w)
    BY DEF Doing, At, HistoryInv, Phases
  <2>2. j.kind \in {"create", "rebuild", "restore"} =>
          dom[v].defined /\ (sound[w] => Finished(file[v])) /\ file[v].size = j.size
    BY <2>1 DEF Phase, Defined, Written, Sized, FromTemplate, FromCopy, FromSnapshot, Ready
  <2>3. j.kind = "reset_password" => dom[v].defined /\ (clean[v] => Finished(file[v]))
    BY <2>1 DEF Phase, Defined, Repassworded
  <2>4. j.kind = "snapshot" => /\ file[j.s].size = file[v].size
                               /\ w \notin live => file[j.s].kind = file[v].kind
    BY <2>1 DEF Phase, Copied, Alike
  <2>5. j.kind = "delete" => ~Present(v) /\ ~dom[v].defined /\ dom[v].power # "running"
    BY <2>1 DEF Phase, Deleted, Stopped
  <2>6. j.kind = "resize" => (j.size # NoSize => file[v].size = j.size)
    BY <2>1 DEF Phase, Sized
  <2> HIDE DEF v
  <2>7. CASE j.kind \in {"create", "rebuild", "restore"}
    BY <2>2, <2>7 DEF v
  <2>8. CASE j.kind = "reset_password"
    BY <2>3, <2>8 DEF v
  <2>9. CASE j.kind = "snapshot"
    BY <2>4, <2>9 DEF v
  <2>10. CASE j.kind = "delete"
    BY <2>5, <2>10 DEF v
  <2>11. CASE j.kind = "resize"
    BY <2>6, <2>11 DEF v
  <2>12. CASE j.kind \notin {"create", "rebuild", "restore", "reset_password", "snapshot",
                             "delete", "resize"}
    BY <2>12
  <2>13. QED
    BY <2>7, <2>8, <2>9, <2>10, <2>11, <2>12
<1>2. QED
  BY <1>1, HistoryInvariant, PTL

(* A handler alone on its virtance takes the definition from an active     *)
(* domain only if that is paused.                                          *)
THEOREM OnlyPausedLeft == Spec => LeftRunningOnlyPaused
<1>1. BaseInv /\ HistoryInv /\ [Next]_virtanceVars
        => [\A w \in Workers, v \in Virtances :
              Undefine(w) /\ alone[w] /\ job[w].v = v /\ Transient(v)'
                => dom[v].power = "paused"]_virtanceVars
  <2> SUFFICES ASSUME BaseInv, HistoryInv, NEW w \in Workers, NEW v \in Virtances,
                      Undefine(w), alone[w], job[w].v = v, Transient(v)'
               PROVE  dom[v].power = "paused"
    OBVIOUS
  <2>1. w \in Busy /\ At(w) = "undefine" /\ Phase(w)
    BY DEF Undefine, Perform, Doing, At, HistoryInv, Phases
  <2>2. job[w].kind \in {"create", "delete"}
    BY <2>1, CurrentStep DEF BaseInv, Has, Imaging
  <2>3. dom[v].power # "running"
    BY <2>1, <2>2 DEF Phase, Stopped
  <2>4. Active(v)
    <3>1. TypeOK /\ Current(w).x = v
      BY <2>1, Targets DEF BaseInv
    <3>2. ~Active(v) => dom'[v] = NoDomain
      BY <3>1 DEF Undefine, TypeOK
    <3>3. QED
      BY <3>2 DEF Transient, Active, NoDomain
  <2>5. QED
    BY <2>3, <2>4 DEF BaseInv, TypeOK, Active
<1>2. QED
  BY <1>1, HistoryInvariant, PTL DEF Spec, LeftRunningOnlyPaused
=============================================================================
