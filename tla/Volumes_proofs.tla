----------------------------- MODULE Volumes_proofs -----------------------------
(***************************************************************************)
(* Proofs about the module Volumes, for any handlers, names and requests.  *)
(***************************************************************************)
EXTENDS Volumes, TLAPS

(* Types, and the call a handler is at fits the request it serves.         *)
Written == {"building", "blank", "image", "torn"}
Steps == {"idle", "create", "get_volume", "build", "raise", "clone", "resize", "delete",
          "refresh_list", "list", "ask", "refresh_copy", "convert", "converting",
          "refresh_copied", "get_copied", "stop", "start", "respond"}

TypeOK ==
  /\ active \in BOOLEAN
  /\ files \in [Names -> {NoFile} \cup [size : Nat, data : Workers \cup Written]]
  /\ known \subseteq Names
  /\ builds \subseteq [to : Names, from : Names \cup {NoName}, size : Nat, torn : BOOLEAN]
  /\ job \in [Workers -> Jobs \cup {NoJob}]
  /\ step \in [Workers -> Steps]
  /\ shown \in [Workers -> SUBSET Names] /\ DOMAIN count = Workers
  /\ seen \in [Workers -> SUBSET Names] /\ stale \in [Workers -> BOOLEAN]
  /\ alone \in [Workers -> BOOLEAN] /\ together \in BOOLEAN

ListSteps == {"refresh_list", "list", "ask"}
CopySteps == {"refresh_copy", "convert", "converting", "refresh_copied", "get_copied"}

Fits(s, j) ==
  /\ s # "idle" => j \in Jobs
  /\ s = "create" => j.kind = "create"
  /\ s \in {"clone", "resize", "delete", "stop", "start"} => j.kind = s
  /\ s = "get_volume" => j.kind \in {"clone", "resize", "delete"}
  /\ s \in {"build", "raise"} => j.kind \in {"create", "clone"}
  /\ s \in ListSteps => j.kind \in {"list", "storages"}
  /\ s \in CopySteps => j.kind = "copy"
Control == \A w \in Workers : Fits(step[w], job[w])

(* What libvirt knows exists; what it builds it knows, once, in an active  *)
(* pool, and the volume it clones is not itself being built.               *)
Listed ==
  /\ known \subseteq Present
  /\ \A w \in Workers : seen[w] \subseteq Present
  /\ \A b \in builds : /\ active /\ b.to \in known
                       /\ b.from # NoName => b.from \in known /\ ~Building(b.from)
  /\ \A b, c \in builds : b.to = c.to => b = c

(* Who writes a file: the snapshot being taken, or the build.              *)
Writers ==
  /\ \A f \in Names : files[f].data \in Workers =>
       step[files[f].data] = "converting" /\ Target(job[files[f].data]) = f
  /\ \A f \in Names : files[f].data = "building" => Building(f)

Told ==
  \A w \in Workers : job[w].kind \in {"list", "storages"} =>
    /\ step[w] = "list" => stale[w] \/ ~active \/ seen[w] \subseteq known
    /\ step[w] \in {"ask", "respond"} =>
         \/ seen[w] \subseteq shown[w] /\ count[w] = Cardinality(shown[w])
         \/ stale[w]
         \/ shown[w] = {} /\ count[w] = OtherVolumes

(* A snapshot and a build at the same time are on record.                  *)
OnRecord ==
  /\ \A u, w \in Busy :
       job[u].kind = "copy" /\ job[w].kind \in {"create", "clone"} => together
  /\ \A u \in Busy : job[u].kind = "copy" /\ builds # {} => together

Explained == together \/ cut \cap {"copy", "create", "clone"} # {}

Whole ==
  /\ \A f \in Names : files[f].data = "torn" => Explained
  /\ \A b \in builds :
       /\ b.torn => Explained
       /\ files[b.to].data # "building" => together
       /\ ~b.torn /\ b.from # NoName => files[b.from].data \notin Workers \cup {"torn"}

Copying(w, f) == step[w] \in {"converting", "refresh_copied"} /\ Target(job[w]) = f
Unknown ==
  active => \A f \in Present \ known :
              "copy" \in cut \/ \E w \in Workers : Copying(w, f)

(* A handler that has the pool to itself, with libvirt's work for it only. *)
Solitude ==
  \A w \in Busy : alone[w] => /\ \A u \in Busy : u = w
                              /\ step[w] # "build" => builds = {}

Promise(w) ==
  LET j == job[w]
      f == Target(job[w])
  IN
  /\ step[w] = "build" =>
       \A b \in builds :
         /\ b.to = f /\ files[f].data = "building"
         /\ j.kind = "create" => b.from = NoName /\ b.size = j.size /\ ~b.torn
         /\ j.kind = "clone" =>
              /\ b.from = j.name /\ b.size = files[j.name].size
              /\ b.torn => files[j.name].data = "torn"
  /\ step[w] = "converting" => files[f] = [size |-> j.size, data |-> w]
  /\ step[w] \in {"refresh_copied", "get_copied"} =>
       files[f] = [size |-> j.size, data |-> "image"]
  /\ step[w] = "get_copied" => f \in known
  /\ step[w] = "respond" =>
       /\ j.kind = "create" => files[f] = [size |-> j.size, data |-> "blank"]
       /\ j.kind = "clone" => files[f] = files[j.name]
       /\ j.kind = "resize" => files[j.name].size = j.size
       /\ j.kind = "delete" => j.name \notin Present
       /\ j.kind = "copy" => files[f] = [size |-> j.size, data |-> "image"] /\ f \in known
Promises == \A w \in Busy : alone[w] => Promise(w)

-----------------------------------------------------------------------------
TInv == TypeOK /\ Control

LEMMA TargetOf ==
  ASSUME NEW j \in Jobs
  PROVE  /\ j.kind \in Kinds /\ j.size \in Nat /\ j.name \in Names /\ Target(j) \in Names
         /\ j.kind = "create" => Target(j) = WithImg(j.name)
         /\ j.kind = "clone" => Target(j) = WithImg(j.to)
         /\ j.kind = "copy" => Target(j) = Image(j.name)
  BY JobsAssumption DEF Target

LEMMA FirstOf ==
  ASSUME NEW j \in Jobs, NEW s, s = IF j.kind = "create" THEN "create" ELSE First(j)
  PROVE  /\ s \in {"create", "get_volume", "refresh_list", "refresh_copy", "stop", "start"}
         /\ Fits(s, j)
<1>1. j.kind \in Kinds
  BY JobsAssumption
<1>2. s \in {"create", "get_volume", "refresh_list", "refresh_copy", "stop", "start"}
  BY <1>1 DEF First, Kinds
<1>3. QED
  BY <1>1, <1>2 DEF First, Kinds, Fits, ListSteps, CopySteps

LEMMA InitTInv == Init => TInv
  BY DEF Init, TInv, TypeOK, Control, Fits, ListSteps, CopySteps, Steps

LEMMA RequestTInv ==
  ASSUME TInv, NEW w \in Workers, NEW j \in Jobs, Request(w, j)
  PROVE  TInv'
<1>1. /\ job' = [job EXCEPT ![w] = j]
      /\ \E s \in Steps : step' = [step EXCEPT ![w] = s] /\ Fits(s, j)
  BY FirstOf DEF Request, Steps
<1>2. job' \in [Workers -> Jobs \cup {NoJob}] /\ step' \in [Workers -> Steps]
  BY <1>1 DEF TInv, TypeOK
<1>3. Control'
  BY <1>1 DEF TInv, TypeOK, Control, Fits
<1>4. alone' \in [Workers -> BOOLEAN]
  <2>1. alone' = [u \in Workers |-> IF u \in Busy \cup {w}
                                    THEN Busy = {} /\ builds = {} ELSE TRUE]
    BY DEF Request
  <2>2. \A u \in Workers : (IF u \in Busy \cup {w} THEN Busy = {} /\ builds = {} ELSE TRUE)
                             \in BOOLEAN
    OBVIOUS
  <2>3. QED
    BY <2>1, <2>2, Zenon
<1>5. together' \in BOOLEAN
  BY Zenon DEF Request
<1>6. seen' \in [Workers -> SUBSET Names]
  BY DEF Request, TInv, TypeOK, Present
<1>7. QED
  BY <1>2, <1>3, <1>4, <1>5, <1>6 DEF Request, TInv, TypeOK

(* A handler that goes on to a call that fits its request.                 *)
LEMMA GoesTInv ==
  ASSUME TInv, NEW w \in Workers, NEW s \in Steps, Goes(w, s), Fits(s, job[w]),
         active' \in BOOLEAN,
         files' \in [Names -> {NoFile} \cup [size : Nat, data : Workers \cup Written]],
         known' \subseteq Names,
         builds' \subseteq [to : Names, from : Names \cup {NoName}, size : Nat, torn : BOOLEAN],
         shown' \in [Workers -> SUBSET Names], DOMAIN count' = Workers,
         seen' \in [Workers -> SUBSET Names], stale' \in [Workers -> BOOLEAN]
  PROVE  TInv'
  BY DEF TInv, TypeOK, Control, Fits, Goes

LEMMA PutType ==
  ASSUME TypeOK, NEW f \in Names, NEW content, Put(f, content),
         content \in {NoFile} \cup [size : Nat, data : Workers \cup Written]
  PROVE  /\ files' \in [Names -> {NoFile} \cup [size : Nat, data : Workers \cup Written]]
         /\ seen' \in [Workers -> SUBSET Names]
         /\ files'[f] = content /\ \A g \in Names : g # f => files'[g] = files[g]
         /\ content = NoFile => \A w \in Workers : seen'[w] = seen[w] \ {f}
         /\ content # NoFile => \A w \in Workers : seen'[w] = seen[w]
  BY DEF Put, TypeOK

LEMMA BeginType ==
  ASSUME TInv, NEW w \in Workers, NEW f \in Names, NEW from \in Names \cup {NoName},
         NEW size \in Nat, BeginBuild(w, f, from, size),
         job[w].kind \in {"create", "clone"}, job[w] \in Jobs
  PROVE  TInv'
<1>1. [size |-> size, data |-> "building"] \in [size : Nat, data : Workers \cup Written]
  BY DEF Written
<1>2. /\ files' \in [Names -> {NoFile} \cup [size : Nat, data : Workers \cup Written]]
      /\ seen' \in [Workers -> SUBSET Names]
  BY <1>1, PutType DEF BeginBuild, TInv
<1>3. PICK torn \in BOOLEAN :
        builds' = builds \cup {[to |-> f, from |-> from, size |-> size, torn |-> torn]}
  BY DEF BeginBuild
<1>4. builds' \subseteq [to : Names, from : Names \cup {NoName}, size : Nat, torn : BOOLEAN]
  BY <1>3 DEF TInv, TypeOK
<1>5. Goes(w, "build") /\ "build" \in Steps /\ Fits("build", job[w])
  BY DEF BeginBuild, Steps, Fits, ListSteps, CopySteps
<1>6. known' \subseteq Names /\ UNCHANGED <<active, shown, count, stale>>
  BY DEF BeginBuild, TInv, TypeOK
<1>7. QED
  BY <1>2, <1>4, <1>5, <1>6, GoesTInv DEF TInv, TypeOK

(* A build whose source is written over.                                   *)
Tasks == [to : Names, from : Names \cup {NoName}, size : Nat, torn : BOOLEAN]
Touched(b, f) == IF b.from = f THEN [b EXCEPT !.torn = TRUE] ELSE b

LEMMA TouchedOf ==
  ASSUME NEW b \in Tasks, NEW f
  PROVE  /\ Touched(b, f) \in Tasks /\ Touched(b, f).to = b.to
         /\ Touched(b, f).from = b.from /\ Touched(b, f).size = b.size
         /\ Touched(b, f).torn <=> (b.torn \/ b.from = f)
  BY DEF Touched, Tasks

LEMMA StepTInv ==
  ASSUME TInv, Listed, NEW w \in Workers,
         \/ Create(w) \/ GetVolume(w) \/ Clone(w) \/ Resize(w) \/ Delete(w)
         \/ RefreshList(w) \/ List(w) \/ Ask(w)
         \/ RefreshCopy(w) \/ Convert(w) \/ Converted(w) \/ GetCopied(w)
         \/ Stop(w) \/ Start(w)
  PROVE  TInv'
<1>0. /\ step[w] # "idle" => /\ job[w] \in Jobs
                             /\ job[w].size \in Nat /\ job[w].name \in Names
                             /\ Target(job[w]) \in Names
      /\ Fits(step[w], job[w]) /\ TypeOK
  BY TargetOf DEF TInv, Control, Fits
<1>1. CASE Create(w)
  <2>1. job[w] \in Jobs /\ job[w].kind \in {"create", "clone"}
    BY <1>0, <1>1 DEF Create, At, Fits
  <2>2. BeginBuild(w, Target(job[w]), NoName, job[w].size) /\ step[w] # "idle"
    BY <1>1 DEF Create, At
  <2>3. QED
    BY <1>0, <2>1, <2>2, BeginType
<1>2. CASE Clone(w)
  <2>1. job[w] \in Jobs /\ job[w].kind \in {"create", "clone"} /\ job[w].name \in Names
    BY <1>0, <1>2 DEF Clone, At, Fits
  <2>2. BeginBuild(w, Target(job[w]), job[w].name, files[job[w].name].size) /\ step[w] # "idle"
    BY <1>2 DEF Clone, At
  <2>3. files[job[w].name].size \in Nat
    BY <1>0, <2>1 DEF TypeOK, NoFile
  <2>4. QED
    BY <1>0, <2>1, <2>2, <2>3, BeginType
<1>3. CASE GetVolume(w) \/ Ask(w) \/ GetCopied(w)
  <2>1. PICK s \in Steps : Goes(w, s) /\ Fits(s, job[w])
    BY <1>0, <1>3 DEF GetVolume, Ask, GetCopied, At, Fits, ListSteps, CopySteps, Steps
  <2>2. Same
    BY <1>3 DEF GetVolume, Ask, GetCopied
  <2>3. QED
    BY <1>0, <2>1, <2>2, GoesTInv DEF Same, TypeOK
<1>4. CASE RefreshList(w) \/ RefreshCopy(w)
  <2>1. PICK s \in Steps : Goes(w, s) /\ Fits(s, job[w])
    BY <1>0, <1>4 DEF RefreshList, RefreshCopy, At, Fits, ListSteps, CopySteps, Steps
  <2>2. known' \subseteq Names /\ stale' \in [Workers -> BOOLEAN]
    BY <1>0, <1>4 DEF RefreshList, RefreshCopy, Refreshed, Present, TypeOK
  <2>3. UNCHANGED <<active, files, builds, shown, count, seen>>
    BY <1>4 DEF RefreshList, RefreshCopy
  <2>4. QED
    BY <1>0, <2>1, <2>2, <2>3, GoesTInv DEF TypeOK
<1>5. CASE List(w)
  <2>1. PICK s \in Steps : Goes(w, s) /\ Fits(s, job[w])
    BY <1>0, <1>5 DEF List, At, Fits, ListSteps, CopySteps, Steps
  <2>2. shown' \in [Workers -> SUBSET Names] /\ DOMAIN count' = Workers
    BY <1>0, <1>5 DEF List, TypeOK
  <2>3. UNCHANGED <<active, files, known, builds, seen, stale>>
    BY <1>5 DEF List
  <2>4. QED
    BY <1>0, <2>1, <2>2, <2>3, GoesTInv DEF TypeOK
<1>6. CASE Resize(w) \/ Delete(w) \/ Convert(w) \/ Converted(w)
  <2>0. step[w] # "idle"
    BY <1>6 DEF Resize, Delete, Convert, Converted, At
  <2>1. PICK s \in Steps : Goes(w, s) /\ Fits(s, job[w])
    BY <1>0, <1>6 DEF Resize, Delete, Convert, Converted, At, Fits, ListSteps, CopySteps, Steps
  <2>2. PICK f \in Names, content \in {NoFile} \cup [size : Nat, data : Workers \cup Written] :
          Put(f, content)
    <3>1. CASE Resize(w)
      <4>1. Put(job[w].name, [files[job[w].name] EXCEPT !.size = job[w].size])
            /\ files[job[w].name] # NoFile
        BY <3>1 DEF Resize, Untouched, Listed, Present
      <4>2. QED
        BY <1>0, <2>0, <4>1 DEF TypeOK
    <3>2. CASE Delete(w)
      BY <1>0, <2>0, <3>2 DEF Delete
    <3>3. CASE Convert(w)
      BY <1>0, <2>0, <3>3 DEF Convert
    <3>4. CASE Converted(w)
      <4>1. DEFINE f == Target(job[w])
      <4>2. files[f] \in {NoFile} \cup [size : Nat, data : Workers \cup Written]
        BY <1>0, <2>0 DEF TypeOK
      <4>3. files[f].data = w => [files[f] EXCEPT !.data = "image"] \in [size : Nat, data : Workers \cup Written]
        BY <4>2, NamesApart DEF NoFile, Written
      <4>4. Put(f, IF files[f].data = w THEN [files[f] EXCEPT !.data = "image"] ELSE files[f])
        BY <3>4 DEF Converted
      <4>5. QED
        BY <1>0, <2>0, <4>2, <4>3, <4>4
    <3>5. QED
      BY <1>6, <3>1, <3>2, <3>3, <3>4
  <2>3. known' \subseteq Names /\ UNCHANGED <<active, shown, count, stale>>
    BY <1>0, <1>6 DEF Resize, Delete, Convert, Converted, TypeOK
  <2>4. builds' \subseteq [to : Names, from : Names \cup {NoName}, size : Nat, torn : BOOLEAN]
    <3>1. CASE Convert(w)
      <4>1. builds' = {Touched(b, Target(job[w])) : b \in builds}
        BY <3>1 DEF Convert, Touched
      <4>2. \A b \in builds : Touched(b, Target(job[w])) \in Tasks
        BY <1>0, TouchedOf DEF TypeOK, Tasks
      <4>3. QED
        BY <4>1, <4>2 DEF Tasks
    <3>2. CASE ~Convert(w)
      BY <1>0, <1>6, <3>2 DEF Resize, Delete, Converted, TypeOK
    <3>3. QED
      BY <3>1, <3>2
  <2>5. QED
    BY <1>0, <2>1, <2>2, <2>3, <2>4, PutType, GoesTInv DEF TypeOK
<1>7. CASE Stop(w) \/ Start(w)
  <2>1. PICK s \in Steps : Goes(w, s) /\ Fits(s, job[w])
    BY <1>0, <1>7 DEF Stop, Start, At, Fits, ListSteps, CopySteps, Steps
  <2>2. known' \subseteq Names /\ active' \in BOOLEAN
    BY <1>0, <1>7 DEF Stop, Start, Present, TypeOK
  <2>3. UNCHANGED <<files, builds, shown, count, seen, stale>>
    BY <1>7 DEF Stop, Start
  <2>4. QED
    BY <1>0, <2>1, <2>2, <2>3, GoesTInv DEF TypeOK
<1>8. QED
  BY <1>1, <1>2, <1>3, <1>4, <1>5, <1>6, <1>7

LEMMA EndBuildTInv ==
  ASSUME TInv, Listed, NEW b \in builds, EndBuild(b)
  PROVE  TInv'
<1>1. PICK content \in {NoFile} \cup [size : Nat, data : Workers \cup Written] :
        Put(b.to, content) /\ known' \subseteq Names
  <2>1. b.to \in Names /\ b.size \in Nat /\ b.from \in Names \cup {NoName}
    BY DEF TInv, TypeOK
  <2>2. CASE Put(b.to, NoFile) /\ known' = known \ {b.to}
    BY <2>2 DEF TInv, TypeOK
  <2>3. CASE UNCHANGED known /\
             Put(b.to, [size |-> b.size,
                      data |-> IF b.torn \/ files[b.to].data # "building" THEN "torn"
                               ELSE IF b.from = NoName THEN "blank"
                                              ELSE files[b.from].data])
    <3>1. CASE b.torn \/ files[b.to].data # "building" \/ b.from = NoName
      BY <2>1, <2>3, <3>1 DEF TInv, TypeOK, Written
    <3>2. CASE ~(b.torn \/ files[b.to].data # "building" \/ b.from = NoName)
      <4>1. b.from \in Names /\ files[b.from] # NoFile
        BY <2>1, <3>2 DEF Listed, Present
      <4>2. files[b.from].data \in Workers \cup Written
        BY <4>1 DEF TInv, TypeOK
      <4>3. Put(b.to, [size |-> b.size, data |-> files[b.from].data])
        BY <2>3, <3>2
      <4>4. QED
        BY <2>1, <2>3, <4>2, <4>3 DEF TInv, TypeOK
    <3>3. QED
      BY <3>1, <3>2
  <2>4. QED
    BY <2>2, <2>3 DEF EndBuild
<1>2. b.to \in Names
  BY DEF TInv, TypeOK
<1>3. /\ files' \in [Names -> {NoFile} \cup [size : Nat, data : Workers \cup Written]]
      /\ seen' \in [Workers -> SUBSET Names]
  BY <1>1, <1>2, PutType DEF TInv
<1>4. step' \in [Workers -> Steps] /\ Control'
  <2>1. step' = [w \in Workers |->
                IF At(w, "build") /\ Target(job[w]) = b.to
                THEN IF files'[b.to] = NoFile THEN "raise" ELSE "respond"
                ELSE step[w]] /\ job' = job
    BY DEF EndBuild
  <2>2. \A w \in Workers : step'[w] = step[w]
                           \/ (step[w] = "build" /\ step'[w] \in {"raise", "respond"})
    BY <2>1 DEF At
  <2>3. QED
    BY <2>1, <2>2 DEF TInv, TypeOK, Control, Fits, Steps, ListSteps, CopySteps
<1>5. QED
  BY <1>1, <1>3, <1>4 DEF EndBuild, TInv, TypeOK

LEMMA ForgetTInv ==
  ASSUME TInv, NEW W, Forget(W), active' \in BOOLEAN, known' \subseteq Names,
         builds' \subseteq builds,
         files' \in [Names -> {NoFile} \cup [size : Nat, data : Workers \cup Written]]
  PROVE  TInv'
<1>1. job' \in [Workers -> Jobs \cup {NoJob}] /\ step' \in [Workers -> Steps]
  BY DEF Forget, TInv, TypeOK, Steps
<1>2. Control'
  BY DEF Forget, TInv, TypeOK, Control, Fits, ListSteps, CopySteps
<1>3. QED
  BY <1>1, <1>2 DEF Forget, TInv, TypeOK

(* What the end of a qemu-img or of libvirt does to the files.             *)
LEMMA TornType ==
  ASSUME TInv, NEW W,
         files' = [f \in Names |-> IF files[f].data \in W
                                   THEN [files[f] EXCEPT !.data = "torn"] ELSE files[f]],
         "none" \notin W
  PROVE  /\ files' \in [Names -> {NoFile} \cup [size : Nat, data : Workers \cup Written]]
         /\ Present' = Present
         /\ \A f \in Names : IF files[f].data \in W THEN files'[f].data = "torn"
                             ELSE files'[f] = files[f]
<1>1. \A f \in Names : files[f] = NoFile \/ files[f] \in [size : Nat, data : Workers \cup Written]
  BY DEF TInv, TypeOK
<1>2. \A f \in Names : files[f].data \in W => files[f] # NoFile
  BY DEF NoFile
<1>3. \A f \in Names : files[f].data \in W =>
        /\ [files[f] EXCEPT !.data = "torn"] \in [size : Nat, data : Workers \cup Written]
        /\ [files[f] EXCEPT !.data = "torn"].data = "torn"
  BY <1>1, <1>2 DEF Written
<1>4. \A f \in Names : files[f].data \in W => files'[f] # NoFile
  BY <1>3 DEF NoFile
<1>5. QED
  BY <1>1, <1>2, <1>3, <1>4 DEF Present

(* The end of the handlers W: what D was writing is torn, and what failed  *)
(* is on record.                                                           *)
Ends == \/ \E w \in Workers : Respond(w) \/ Raises(w)
        \/ Crash \/ HostReboot

Ended(W, D) ==
  /\ Forget(W) /\ W \subseteq Busy
  /\ files' = [f \in Names |-> IF files[f].data \in D
                               THEN [files[f] EXCEPT !.data = "torn"] ELSE files[f]]
  /\ cut \subseteq cut'
  /\ \/ UNCHANGED <<active, known, builds>> /\ D \subseteq W
     \/ /\ active' = TRUE /\ known' = Present /\ builds' = {}
        /\ builds # {} => "clone" \in cut'
        /\ W = Busy /\ D = Busy \cup {"building"}
  /\ \/ D = {} /\ \E w \in Workers : W = {w} /\ step[w] = "respond"
     \/ W \subseteq D /\ \A w \in W : job[w].kind \in cut'

LEMMA EndsOf ==
  ASSUME TypeOK, Ends
  PROVE  \E W \in SUBSET Workers : \E D : Ended(W, D)
<1>1. ASSUME NEW w \in Workers, Respond(w) PROVE Ended({w}, {})
  <2>1. files = [f \in Names |-> files[f]]
    BY DEF TypeOK
  <2>2. files' = [f \in Names |-> IF files[f].data \in {}
                                  THEN [files[f] EXCEPT !.data = "torn"] ELSE files[f]]
    BY <1>1, <2>1 DEF Respond
  <2>3. /\ Forget({w}) /\ step[w] = "respond" /\ w \in Busy
        /\ UNCHANGED <<active, known, builds, cut>>
    BY <1>1 DEF Respond, At, Busy
  <2>4. QED
    BY <2>2, <2>3 DEF Ended
<1>2. ASSUME NEW w \in Workers, Raises(w) PROVE Ended({w}, {w})
  <2>1. /\ Forget({w}) /\ Torn({w}) /\ cut' = cut \cup {job[w].kind} /\ w \in Busy
        /\ UNCHANGED <<active, known, builds>>
    BY <1>2 DEF Raises
  <2>2. \A u \in {w} : job[u].kind \in cut'
    BY <2>1
  <2>3. QED
    BY <2>1, <2>2 DEF Torn, Ended
<1>3. ASSUME NEW W \in SUBSET Workers, NEW D, Ended(W, D)
      PROVE  \E V \in SUBSET Workers : \E E : Ended(V, E)
  BY <1>3
<1>4. Busy \in SUBSET Workers
  BY DEF Busy
<1>5. CASE Crash
  <2>1. /\ Forget(Busy) /\ Torn(Busy) /\ UNCHANGED <<active, known, builds>>
        /\ cut' = cut \cup {job[w].kind : w \in Busy}
    BY <1>5 DEF Crash
  <2>2. cut \subseteq cut' /\ \A u \in Busy : job[u].kind \in cut'
    BY <2>1
  <2>3. Ended(Busy, Busy)
    BY <2>1, <2>2 DEF Torn, Ended
  <2>4. QED
    BY <2>3, <1>3, <1>4
<1>6. CASE HostReboot
  <2>1. /\ Forget(Busy) /\ active' = TRUE /\ known' = Present /\ builds' = {}
        /\ files' = [f \in Names |-> IF files[f].data \in Busy \cup {"building"}
                               THEN [files[f] EXCEPT !.data = "torn"] ELSE files[f]]
        /\ cut' = (cut \cup {job[w].kind : w \in Busy})
                    \cup (IF builds # {} THEN {"clone"} ELSE {})
    BY <1>6 DEF HostReboot
  <2>2. /\ cut \subseteq cut' /\ \A u \in Busy : job[u].kind \in cut'
        /\ builds # {} => "clone" \in cut'
    BY <2>1
  <2>3. Ended(Busy, Busy \cup {"building"})
    BY <2>1, <2>2 DEF Ended
  <2>4. QED
    BY <2>3, <1>3, <1>4
<1>7. QED
  BY <1>1, <1>2, <1>5, <1>6, <1>3, <1>4 DEF Ends

LEMMA EndsTInv ==
  ASSUME TInv, NEW W \in SUBSET Workers, NEW D, Ended(W, D)
  PROVE  /\ TInv' /\ Present' = Present
         /\ \A f \in Names : IF files[f].data \in D THEN files'[f].data = "torn"
                             ELSE files'[f] = files[f]
<1>1. "none" \notin D
  BY NamesApart DEF Ended, Busy
<1>2. /\ files' \in [Names -> {NoFile} \cup [size : Nat, data : Workers \cup Written]]
      /\ Present' = Present
      /\ \A f \in Names : IF files[f].data \in D THEN files'[f].data = "torn"
                          ELSE files'[f] = files[f]
  BY <1>1, TornType DEF Ended
<1>3. TInv'
  BY <1>2, ForgetTInv DEF Ended, TInv, TypeOK, Present
<1>4. QED
  BY <1>2, <1>3

LEMMA StutterTInv == TInv /\ UNCHANGED volumeVars => TInv'
  BY DEF volumeVars, TInv, TypeOK, Control

-----------------------------------------------------------------------------
(* Listed: each step that changes files, the list or the builds.           *)
HandlerMove(w) ==
  \/ Create(w) \/ GetVolume(w) \/ Clone(w) \/ Resize(w) \/ Delete(w)
  \/ RefreshList(w) \/ List(w) \/ Ask(w)
  \/ RefreshCopy(w) \/ Convert(w) \/ Converted(w) \/ GetCopied(w)
  \/ Stop(w) \/ Start(w)

Base == TInv /\ Listed

(* Changes of one file.                                                    *)
Fills(f, content) ==
  /\ f \in Names /\ content \in [size : Nat, data : Workers \cup Written]
  /\ files' = [files EXCEPT ![f] = content] /\ seen' = seen
Empties(f) ==
  /\ f \in Names /\ files' = [files EXCEPT ![f] = NoFile]
  /\ \A w \in Workers : seen'[w] = seen[w] \ {f}

LEMMA PutOf ==
  ASSUME TypeOK, NEW f \in Names, NEW content, Put(f, content)
  PROVE  /\ content \in [size : Nat, data : Workers \cup Written] => Fills(f, content)
         /\ content = NoFile => Empties(f)
<1>1. ASSUME content \in [size : Nat, data : Workers \cup Written] PROVE seen' = seen
  <2>1. content # NoFile
    BY <1>1, NamesApart DEF NoFile, Written
  <2>2. QED
    BY <2>1 DEF Put, TypeOK
<1>2. QED
  BY <1>1 DEF Put, Fills, Empties, TypeOK

(* A file that is filled is there afterwards, one that is emptied is not.  *)
LEMMA FillsPresent ==
  ASSUME TypeOK, NEW f, NEW content, Fills(f, content)
  PROVE  /\ Present' = Present \cup {f} /\ files'[f] = content
         /\ \A g \in Names \ {f} : files'[g] = files[g]
<1>1. content # NoFile
  BY NamesApart DEF Fills, NoFile, Written
<1>2. QED
  BY <1>1 DEF Fills, Present, TypeOK

LEMMA EmptiesPresent ==
  ASSUME TypeOK, NEW f, Empties(f)
  PROVE  /\ Present' = Present \ {f} /\ files'[f] = NoFile
         /\ \A g \in Names \ {f} : files'[g] = files[g]
  BY DEF Empties, Present, TypeOK

(* What a handler that moves leaves alone.                                 *)
LEMMA MoveOf ==
  ASSUME TInv, NEW w \in Workers, HandlerMove(w)
  PROVE  /\ UNCHANGED <<job, alone, together, cut>> /\ step[w] # "idle" /\ step'[w] # "idle"
         /\ step'[w] \in Steps
         /\ \A u \in Workers \ {w} : step'[u] = step[u]
         /\ job[w] \in Jobs /\ w \in Busy /\ Busy' = Busy
<1>1. step[w] # "idle"
  BY DEF HandlerMove, Create, GetVolume, Clone, Resize, Delete, RefreshList, List, Ask,
         RefreshCopy, Convert, Converted, GetCopied, Stop, Start, At
<1>2. job[w] \in Jobs
  BY <1>1 DEF TInv, Control, Fits
<1>3. PICK s \in Steps : Goes(w, s) /\ s # "idle"
  <2>1. step[w] = "get_volume" => job[w].kind \in {"clone", "resize", "delete"}
    BY DEF TInv, Control, Fits
  <2>2. QED
    BY <2>1 DEF HandlerMove, Create, GetVolume, Clone, Resize, Delete, RefreshList, List, Ask,
         RefreshCopy, Convert, Converted, GetCopied, Stop, Start, BeginBuild, Steps, At
<1>4. QED
  BY <1>1, <1>2, <1>3 DEF Goes, TInv, TypeOK, Busy

Builds(w, b) ==
  /\ active /\ b \in Tasks /\ b.to = Target(job[w]) /\ b.to \notin known \cup Present
  /\ Fills(b.to, [size |-> b.size, data |-> "building"])
  /\ known' = known \cup {b.to} /\ builds' = builds \cup {b}
  /\ UNCHANGED <<active, shown, count, stale>>
  /\ step'[w] = "build"
  /\ IF b.from = NoName
     THEN job[w].kind = "create" /\ b.size = job[w].size /\ ~b.torn
     ELSE /\ job[w].kind = "clone" /\ b.from = job[w].name /\ b.from \in known
          /\ b.from \in Names /\ ~Building(b.from) /\ b.size = files[b.from].size
          /\ b.torn <=> files[b.from].data \in Workers \cup {"torn"}

LEMMA BuildsOf ==
  ASSUME TInv, NEW w \in Workers, Create(w) \/ Clone(w)
  PROVE  \E b \in Tasks : Builds(w, b)
<1>0. /\ step[w] # "idle" /\ job[w] \in Jobs /\ Target(job[w]) \in Names
      /\ job[w].size \in Nat /\ job[w].name \in Names /\ Fits(step[w], job[w])
      /\ files[job[w].name].size \in Nat /\ TypeOK
  <2>1. step[w] # "idle" /\ job[w] \in Jobs /\ Fits(step[w], job[w])
    BY DEF Create, Clone, At, TInv, Control, Fits
  <2>2. job[w].name \in Names
    BY <2>1, TargetOf
  <2>3. files[job[w].name].size \in Nat
    BY <2>2 DEF TInv, TypeOK, NoFile
  <2>4. QED
    BY <2>1, <2>2, <2>3, TargetOf DEF TInv
<1>1. ASSUME NEW from \in Names \cup {NoName}, NEW size \in Nat,
             BeginBuild(w, Target(job[w]), from, size),
             IF from = NoName
             THEN job[w].kind = "create" /\ size = job[w].size
             ELSE /\ job[w].kind = "clone" /\ from = job[w].name /\ from \in known
                  /\ from \in Names /\ ~Building(from) /\ size = files[from].size
      PROVE  \E b \in Tasks : Builds(w, b)
  <2>1. PICK torn \in BOOLEAN :
          /\ builds' = builds \cup
               {[to |-> Target(job[w]), from |-> from, size |-> size, torn |-> torn]}
          /\ torn <=> from # NoName /\ files[from].data \in Workers \cup {"torn"}
    BY <1>1, Zenon DEF BeginBuild
  <2>2. PICK b : b = [to |-> Target(job[w]), from |-> from, size |-> size, torn |-> torn]
    OBVIOUS
  <2>3. /\ b \in Tasks /\ b.to = Target(job[w]) /\ b.from = from /\ b.size = size
        /\ b.torn = torn
    BY <1>0, <2>2 DEF Tasks
  <2>4. Fills(Target(job[w]), [size |-> size, data |-> "building"])
    <3>1. Put(Target(job[w]), [size |-> size, data |-> "building"])
      BY <1>1 DEF BeginBuild
    <3>2. [size |-> size, data |-> "building"] \in [size : Nat, data : Workers \cup Written]
      BY DEF Written
    <3>3. QED
      BY <1>0, <3>1, <3>2, PutOf
  <2>5. step'[w] = "build"
    BY <1>0, <1>1 DEF BeginBuild, Goes, TypeOK
  <2>6. /\ active /\ Target(job[w]) \notin known \cup Present
        /\ known' = known \cup {Target(job[w])}
        /\ UNCHANGED <<active, shown, count, stale>>
    BY <1>1 DEF BeginBuild
  <2>7. Builds(w, b)
    BY <1>0, <1>1, <2>1, <2>2, <2>3, <2>4, <2>5, <2>6 DEF Builds
  <2>8. QED
    BY <2>3, <2>7
<1>2. CASE Create(w)
  <2>1. BeginBuild(w, Target(job[w]), NoName, job[w].size) /\ job[w].kind = "create"
    BY <1>0, <1>2 DEF Create, At, Fits
  <2>2. QED
    BY <1>0, <1>1, <2>1
<1>3. CASE Clone(w)
  <2>1. /\ BeginBuild(w, Target(job[w]), job[w].name, files[job[w].name].size)
        /\ job[w].kind = "clone" /\ job[w].name \in known /\ ~Building(job[w].name)
    BY <1>0, <1>3 DEF Clone, At, Fits
  <2>2. job[w].name # NoName
    BY <1>0, NamesApart
  <2>3. QED
    BY <1>0, <1>1, <2>1, <2>2
<1>4. QED
  BY <1>2, <1>3

(* The other changes of a file by a handler.                               *)
LEMMA ResizeOf ==
  ASSUME Base, NEW w \in Workers, Resize(w)
  PROVE  LET f == job[w].name IN
         /\ Untouched(f) /\ files[f].data \notin Workers /\ f \in Names
         /\ Fills(f, [files[f] EXCEPT !.size = job[w].size])
         /\ [files[f] EXCEPT !.size = job[w].size].data = files[f].data
         /\ [files[f] EXCEPT !.size = job[w].size].size = job[w].size
         /\ step[w] = "resize" /\ step'[w] = "respond" /\ job[w].kind = "resize"
         /\ UNCHANGED <<active, known, builds, shown, count, stale>>
<1> DEFINE f == job[w].name
<1>1. /\ step[w] = "resize" /\ job[w] \in Jobs /\ job[w].kind = "resize"
      /\ f \in Names /\ job[w].size \in Nat /\ TypeOK
  BY TargetOf DEF Resize, At, Base, TInv, Control, Fits
<1>2. /\ Untouched(f) /\ files[f].data \notin Workers
      /\ Put(f, [files[f] EXCEPT !.size = job[w].size])
      /\ UNCHANGED <<active, known, builds, shown, count, stale>> /\ Goes(w, "respond")
  BY DEF Resize
<1>3. files[f] \in [size : Nat, data : Workers \cup Written]
  BY <1>1, <1>2 DEF TypeOK, Untouched, Base, Listed, Present
<1>4. PICK c : c = [files[f] EXCEPT !.size = job[w].size]
  OBVIOUS
<1>5. /\ c \in [size : Nat, data : Workers \cup Written]
      /\ c.data = files[f].data /\ c.size = job[w].size
  BY <1>1, <1>3, <1>4
<1>6. Fills(f, c)
  BY <1>1, <1>2, <1>4, <1>5, PutOf
<1>7. step'[w] = "respond"
  BY <1>1, <1>2 DEF Goes, TypeOK
<1>8. QED
  BY <1>1, <1>2, <1>4, <1>5, <1>6, <1>7

LEMMA DeleteOf ==
  ASSUME Base, NEW w \in Workers, Delete(w)
  PROVE  /\ Untouched(job[w].name) /\ Empties(job[w].name)
         /\ known' = known \ {job[w].name}
         /\ step[w] = "delete" /\ step'[w] = "respond" /\ job[w].kind = "delete"
         /\ UNCHANGED <<active, builds, shown, count, stale>>
<1>1. /\ step[w] = "delete" /\ job[w] \in Jobs /\ job[w].kind = "delete"
      /\ job[w].name \in Names /\ TypeOK
  BY TargetOf DEF Delete, At, Base, TInv, Control, Fits
<1>2. Empties(job[w].name)
  BY <1>1, PutOf DEF Delete
<1>3. QED
  BY <1>1, <1>2 DEF Delete, Goes, TypeOK

LEMMA ConvertOf ==
  ASSUME TInv, NEW w \in Workers, Convert(w)
  PROVE  LET f == Target(job[w]) IN
         /\ f \in Names /\ files[f].data \notin Workers
         /\ Fills(f, [size |-> job[w].size, data |-> w])
         /\ builds' = {Touched(b, f) : b \in builds}
         /\ step[w] = "convert" /\ step'[w] = "converting" /\ job[w].kind = "copy"
         /\ UNCHANGED <<active, known, shown, count, stale>>
<1> DEFINE f == Target(job[w])
<1>1. /\ step[w] = "convert" /\ job[w] \in Jobs /\ job[w].kind = "copy"
      /\ f \in Names /\ job[w].size \in Nat /\ TypeOK
  BY TargetOf DEF Convert, At, TInv, Control, Fits, CopySteps
<1>2. /\ files[f].data \notin Workers /\ Put(f, [size |-> job[w].size, data |-> w])
      /\ builds' = {IF b.from = f THEN [b EXCEPT !.torn = TRUE] ELSE b : b \in builds}
      /\ UNCHANGED <<active, known, shown, count, stale>> /\ Goes(w, "converting")
  BY DEF Convert
<1>3. [size |-> job[w].size, data |-> w] \in [size : Nat, data : Workers \cup Written]
  BY <1>1
<1>4. Fills(f, [size |-> job[w].size, data |-> w])
  BY <1>1, <1>2, <1>3, PutOf
<1>5. step'[w] = "converting"
  BY <1>1, <1>2 DEF Goes, TypeOK
<1>6. builds' = {Touched(b, f) : b \in builds}
  BY <1>2 DEF Touched
<1>7. QED
  BY <1>1, <1>2, <1>4, <1>5, <1>6

(* The snapshot is complete, unless it was deleted or built over.          *)
LEMMA ConvertedOf ==
  ASSUME Base, NEW w \in Workers, Converted(w)
  PROVE  LET f == Target(job[w]) IN
         /\ f \in Names /\ step[w] = "converting" /\ step'[w] = "refresh_copied"
         /\ job[w].kind = "copy"
         /\ UNCHANGED <<active, known, builds, shown, count, stale>>
         /\ \/ /\ files[f].data = w
               /\ Fills(f, [size |-> files[f].size, data |-> "image"])
            \/ files[f].data # w /\ files' = files /\ seen' = seen
<1> DEFINE f == Target(job[w])
<1>1. /\ step[w] = "converting" /\ job[w] \in Jobs /\ job[w].kind = "copy"
      /\ f \in Names /\ TypeOK
  BY TargetOf DEF Converted, At, Base, TInv, Control, Fits, CopySteps
<1>2. /\ Put(f, IF files[f].data = w THEN [files[f] EXCEPT !.data = "image"] ELSE files[f])
      /\ UNCHANGED <<active, known, builds, shown, count, stale>> /\ Goes(w, "refresh_copied")
  BY DEF Converted
<1>3. step'[w] = "refresh_copied"
  BY <1>1, <1>2 DEF Goes, TypeOK
<1>4. CASE files[f].data = w
  <2>1. files[f] \in [size : Nat, data : Workers \cup Written]
    BY <1>1, <1>4, NamesApart DEF TypeOK, NoFile
  <2>2. PICK c : c = [size |-> files[f].size, data |-> "image"]
    OBVIOUS
  <2>3. [files[f] EXCEPT !.data = "image"] = c
    BY <2>1, <2>2
  <2>4. c \in [size : Nat, data : Workers \cup Written]
    BY <2>1, <2>2 DEF Written
  <2>5. Put(f, c)
    BY <1>2, <1>4, <2>3
  <2>6. Fills(f, c)
    BY <1>1, <2>4, <2>5, PutOf
  <2>7. QED
    BY <1>1, <1>2, <1>3, <1>4, <2>2, <2>6
<1>5. CASE files[f].data # w
  <2>1. Put(f, files[f])
    BY <1>2, <1>5
  <2>2. files' = files
    BY <1>1, <2>1 DEF Put, TypeOK
  <2>3. \A u \in Workers : seen'[u] = seen[u]
    BY <1>1, <2>1 DEF Put, Base, Listed, Present
  <2>4. seen' \in [Workers -> SUBSET Names]
    BY <1>1, <2>1 DEF Put, TypeOK
  <2>5. seen' = seen
    BY <1>1, <2>3, <2>4 DEF TypeOK
  <2>6. QED
    BY <1>1, <1>2, <1>3, <1>5, <2>2, <2>5
<1>6. QED
  BY <1>4, <1>5

(* The steps that change no file.                                          *)
LEMMA QuietOf ==
  ASSUME Base, NEW w \in Workers,
         \/ GetVolume(w) \/ RefreshList(w) \/ List(w) \/ Ask(w)
         \/ RefreshCopy(w) \/ GetCopied(w) \/ Stop(w) \/ Start(w)
  PROVE  /\ UNCHANGED <<files, builds, seen>>
         /\ \/ active' = active /\ known' = known
            \/ builds = {} /\ known' = Present /\ active' = TRUE
            \/ builds = {} /\ known' = {} /\ active' = FALSE
         /\ step[w] \notin {"create", "clone", "build", "convert", "converting"}
         /\ step'[w] \notin {"converting", "build"}
<1>1. /\ UNCHANGED <<files, builds, seen>>
      /\ \/ active' = active /\ known' = known
         \/ builds = {} /\ known' = Present /\ active' = TRUE
         \/ builds = {} /\ known' = {} /\ active' = FALSE
  <2>1. CASE GetVolume(w) \/ Ask(w) \/ GetCopied(w) \/ List(w)
    BY <2>1 DEF GetVolume, Ask, GetCopied, List, Same
  <2>2. CASE RefreshList(w) \/ RefreshCopy(w)
    <3>1. UNCHANGED <<files, builds, seen, active>>
      BY <2>2 DEF RefreshList, RefreshCopy
    <3>2. active = TRUE \/ active = FALSE
      BY DEF Base, TInv, TypeOK
    <3>3. known' = known \/ (active = TRUE /\ builds = {} /\ known' = Present)
      BY <2>2, <3>2 DEF RefreshList, Refreshed, RefreshCopy
    <3>4. QED
      BY <3>1, <3>2, <3>3
  <2>3. CASE Stop(w) \/ Start(w)
    <3>1. ~active => builds = {}
      BY DEF Base, Listed
    <3>2. QED
      BY <2>3, <3>1 DEF Stop, Start
  <2>4. QED
    BY <2>1, <2>2, <2>3
<1>2. step[w] = "get_volume" => job[w].kind \in {"clone", "resize", "delete"}
  BY DEF Base, TInv, Control, Fits
<1>3. /\ step[w] \notin {"create", "clone", "build", "convert", "converting"}
      /\ \E s : Goes(w, s) /\ s \notin {"converting", "build"}
  <2>1. CASE GetVolume(w)
    BY <1>2, <2>1 DEF GetVolume, At
  <2>2. CASE RefreshCopy(w)
    BY <2>2 DEF RefreshCopy, At
  <2>3. CASE \/ RefreshList(w) \/ List(w) \/ Ask(w)
             \/ GetCopied(w) \/ Stop(w) \/ Start(w)
    BY <2>3 DEF RefreshList, List, Ask, GetCopied, Stop, Start, At
  <2>4. QED
    BY <2>1, <2>2, <2>3
<1>4. QED
  BY <1>1, <1>3 DEF Goes, Base, TInv, TypeOK

(* The end of a build.                                                     *)
LEMMA EndBuildOf ==
  ASSUME Base, NEW b \in builds, EndBuild(b)
  PROVE  /\ b \in Tasks /\ builds' = builds \ {b}
         /\ UNCHANGED <<active, job, shown, count, stale, alone, cut, together>>
         /\ \/ Empties(b.to) /\ known' = known \ {b.to}
            \/ /\ known' = known
               /\ Fills(b.to, [size |-> b.size,
                      data |-> IF b.torn \/ files[b.to].data # "building" THEN "torn"
                               ELSE IF b.from = NoName THEN "blank"
                                              ELSE files[b.from].data])
         /\ \A w \in Workers :
              IF step[w] = "build" /\ Target(job[w]) = b.to
              THEN step'[w] = IF files'[b.to] = NoFile THEN "raise" ELSE "respond"
              ELSE step'[w] = step[w]
<1>1. b \in Tasks /\ b.to \in Names /\ TypeOK
  BY DEF Base, TInv, TypeOK, Tasks
<1>2. PICK d : d = IF b.torn \/ files[b.to].data # "building" THEN "torn"
                   ELSE IF b.from = NoName THEN "blank" ELSE files[b.from].data
  OBVIOUS
<1>3. d \in Workers \cup Written
  <2>1. CASE b.torn \/ files[b.to].data # "building" \/ b.from = NoName
    BY <1>2, <2>1 DEF Written
  <2>2. CASE ~(b.torn \/ files[b.to].data # "building" \/ b.from = NoName)
    <3>1. b.from \in Names /\ files[b.from] # NoFile
      BY <1>1, <2>2 DEF Base, Listed, Present, Tasks
    <3>2. QED
      BY <1>1, <1>2, <2>2, <3>1 DEF TypeOK
  <2>3. QED
    BY <2>1, <2>2
<1>4. PICK c : c = [size |-> b.size, data |-> d]
  OBVIOUS
<1>5. c \in [size : Nat, data : Workers \cup Written]
  BY <1>1, <1>3, <1>4 DEF Tasks
<1>6. \/ Put(b.to, c) /\ known' = known
      \/ Put(b.to, NoFile) /\ known' = known \ {b.to}
  BY <1>2, <1>4 DEF EndBuild
<1>7. \/ Empties(b.to) /\ known' = known \ {b.to}
      \/ known' = known /\ Fills(b.to, c)
  BY <1>1, <1>5, <1>6, PutOf
<1>8. /\ builds' = builds \ {b}
      /\ UNCHANGED <<active, job, shown, count, stale, alone, cut, together>>
      /\ step' = [w \in Workers |->
                IF At(w, "build") /\ Target(job[w]) = b.to
                THEN IF files'[b.to] = NoFile THEN "raise" ELSE "respond"
                ELSE step[w]]
  BY DEF EndBuild
<1>9. QED
  BY <1>1, <1>2, <1>4, <1>7, <1>8 DEF At

-----------------------------------------------------------------------------
LEMMA MoveListed ==
  ASSUME Base, NEW w \in Workers, HandlerMove(w)
  PROVE  Listed'
<1>0. TypeOK /\ TInv
  BY DEF Base, TInv
<1>1. CASE \/ GetVolume(w) \/ RefreshList(w) \/ List(w) \/ Ask(w)
           \/ RefreshCopy(w) \/ GetCopied(w) \/ Stop(w) \/ Start(w)
  <2>1. Present' = Present
    BY <1>1, QuietOf DEF Present
  <2>2. /\ builds' = builds /\ seen' = seen
        /\ \/ active' = active /\ known' = known
           \/ builds = {} /\ known' \subseteq Present
    BY <1>1, QuietOf
  <2>3. QED
    BY <2>1, <2>2 DEF Base, Listed, Building
<1>2. CASE Create(w) \/ Clone(w)
  <2>1. PICK b \in Tasks : Builds(w, b)
    BY <1>0, <1>2, BuildsOf
  <2>2. /\ Present' = Present \cup {b.to} /\ known' = known \cup {b.to} /\ seen' = seen
        /\ builds' = builds \cup {b} /\ active /\ active' = active /\ b.to \notin known
        /\ b.from # NoName => b.from \in known /\ ~Building(b.from)
    BY <1>0, <2>1, FillsPresent DEF Builds, Fills
  <2>3. \A c \in builds : c.to # b.to /\ c.to \in known
    BY <2>2 DEF Base, Listed
  <2>4. \A c \in builds' : c.from # NoName => c.from \in known /\ ~Building(c.from)'
    BY <2>2, <2>3 DEF Base, Listed, Building
  <2>5. known' \subseteq Present' /\ \A u \in Workers : seen'[u] \subseteq Present'
    BY <2>2 DEF Base, Listed
  <2>6. \A c \in builds' : active' /\ c.to \in known'
    BY <2>2, <2>3
  <2>7. \A c, d \in builds' : c.to = d.to => c = d
    BY <2>2, <2>3 DEF Base, Listed
  <2>8. QED
    BY <2>2, <2>4, <2>5, <2>6, <2>7 DEF Listed
<1>3. CASE Resize(w)
  <2>1. PICK f, c : Fills(f, c) /\ UNCHANGED <<active, known, builds>>
    BY <1>3, ResizeOf
  <2>2. Present \subseteq Present' /\ seen' = seen
    BY <1>0, <2>1, FillsPresent DEF Fills
  <2>3. QED
    BY <2>1, <2>2 DEF Base, Listed, Building
<1>4. CASE Delete(w)
  <2>1. PICK f : f = job[w].name
    OBVIOUS
  <2>2. Untouched(f) /\ Empties(f) /\ known' = known \ {f} /\ UNCHANGED <<active, builds>>
    BY <1>4, <2>1, DeleteOf
  <2>3. Present' = Present \ {f} /\ \A u \in Workers : seen'[u] = seen[u] \ {f}
    BY <1>0, <2>2, EmptiesPresent DEF Empties
  <2>4. QED
    BY <2>2, <2>3 DEF Base, Listed, Building, Untouched, InUse
<1>5. CASE Convert(w)
  <2>1. PICK f \in Names : /\ UNCHANGED <<active, known>>
                           /\ builds' = {Touched(b, f) : b \in builds}
                           /\ \E c : Fills(f, c)
    BY <1>0, <1>5, ConvertOf
  <2>2. Present \subseteq Present' /\ seen' = seen
    BY <1>0, <2>1, FillsPresent DEF Fills
  <2>3. \A b \in builds : Touched(b, f).to = b.to /\ Touched(b, f).from = b.from
    BY <1>0, TouchedOf DEF TypeOK, Tasks
  <2>4. \A b \in builds' : \E c \in builds : b = Touched(c, f) /\ b.to = c.to /\ b.from = c.from
    BY <2>1, <2>3
  <2>5. \A g : Building(g)' => Building(g)
    BY <2>4 DEF Building
  <2>6. \A b \in builds' : /\ active' /\ b.to \in known'
                           /\ b.from # NoName => b.from \in known' /\ ~Building(b.from)'
    BY <2>1, <2>4, <2>5 DEF Base, Listed
  <2>7. \A b, c \in builds' : b.to = c.to => b = c
    BY <2>4 DEF Base, Listed
  <2>8. QED
    BY <2>1, <2>2, <2>6, <2>7 DEF Base, Listed
<1>6. CASE Converted(w)
  <2>1. UNCHANGED <<active, known, builds>> /\ seen' = seen
    BY <1>6, ConvertedOf DEF Fills
  <2>2. Present \subseteq Present'
    <3>1. CASE files' = files
      BY <3>1 DEF Present
    <3>2. CASE \E f, c : Fills(f, c)
      BY <1>0, <3>2, FillsPresent
    <3>3. QED
      BY <1>6, <3>1, <3>2, ConvertedOf
  <2>3. QED
    BY <2>1, <2>2 DEF Base, Listed, Building
<1>7. QED
  BY <1>1, <1>2, <1>3, <1>4, <1>5, <1>6 DEF HandlerMove

LEMMA EndBuildListed ==
  ASSUME Base, NEW b \in builds, EndBuild(b)
  PROVE  Listed'
<1>0. TypeOK
  BY DEF Base, TInv
<1>1. active' = active /\ builds' = builds \ {b}
  BY EndBuildOf
<1>2. \A c \in builds' : /\ (c.from # b.to \/ c.from = NoName)
                         /\ c.to # b.to
  BY <1>1 DEF Base, Listed, Building
<1>3. \A g : Building(g)' => Building(g)
  BY <1>1 DEF Building
<1>4. \/ /\ Present' = Present \ {b.to} /\ known' = known \ {b.to}
         /\ \A w \in Workers : seen'[w] = seen[w] \ {b.to}
      \/ Present' = Present \cup {b.to} /\ known' = known /\ seen' = seen
  <2>1. CASE Empties(b.to) /\ known' = known \ {b.to}
    BY <1>0, <2>1, EmptiesPresent DEF Empties
  <2>2. CASE known' = known /\ \E c : Fills(b.to, c)
    BY <1>0, <2>2, FillsPresent DEF Fills
  <2>3. QED
    BY <2>1, <2>2, EndBuildOf
<1>5. known' \subseteq Present' /\ \A w \in Workers : seen'[w] \subseteq Present'
  BY <1>4 DEF Base, Listed
<1>6. \A c \in builds' : /\ active' /\ c.to \in known'
                         /\ c.from # NoName => c.from \in known' /\ ~Building(c.from)'
  BY <1>1, <1>2, <1>3, <1>4 DEF Base, Listed
<1>7. \A c, d \in builds' : c.to = d.to => c = d
  BY <1>1 DEF Base, Listed
<1>8. QED
  BY <1>5, <1>6, <1>7 DEF Listed

LEMMA RestListed ==
  ASSUME Base, \/ \E w \in Workers, j \in Jobs : Request(w, j)
               \/ UNCHANGED volumeVars
  PROVE  Listed'
<1>1. /\ UNCHANGED <<active, files, known, builds>>
      /\ \A u \in Workers : seen'[u] = seen[u] \/ seen'[u] = Present
  BY DEF Request, volumeVars, Base, TInv, TypeOK
<1>2. Present' = Present
  BY <1>1 DEF Present
<1>3. QED
  BY <1>1, <1>2 DEF Base, Listed, Building

LEMMA EndsListed ==
  ASSUME Base, NEW W \in SUBSET Workers, NEW D, Ended(W, D)
  PROVE  Listed'
<1>1. Present' = Present
  BY EndsTInv DEF Base
<1>2. \A u \in Workers : seen'[u] = {} \/ seen'[u] = seen[u]
  BY DEF Ended, Forget
<1>3. (UNCHANGED <<active, known, builds>>) \/ (known' = Present /\ builds' = {})
  BY DEF Ended
<1>4. QED
  BY <1>1, <1>2, <1>3 DEF Base, Listed, Building

LEMMA StepBase ==
  ASSUME Base, \/ \E w \in Workers : HandlerMove(w)
               \/ \E b \in builds : EndBuild(b)
               \/ \E w \in Workers, j \in Jobs : Request(w, j)
               \/ \E W \in SUBSET Workers : \E D : Ended(W, D)
               \/ UNCHANGED volumeVars
  PROVE  Base'
  BY MoveListed, EndBuildListed, RestListed, EndsListed, StepTInv, EndBuildTInv, RequestTInv,
     EndsTInv, StutterTInv DEF Base, HandlerMove

LEMMA InitBase == Init => Base
  BY InitTInv DEF Init, Base, Listed, Present

-----------------------------------------------------------------------------
(* What is told of the pool.                                               *)
Telling(w) == job[w].kind \in {"list", "storages"}

(* Files that are in the list stay in it as long as they exist.            *)
LEMMA SeenStay ==
  ASSUME Base, NEW u \in Workers, seen[u] \subseteq known \/ ~active,
         \/ \E w \in Workers : HandlerMove(w)
         \/ \E b \in builds : EndBuild(b)
  PROVE  seen'[u] \subseteq known' \/ ~active'
<1>0. TypeOK /\ TInv /\ seen[u] \subseteq Present
  BY DEF Base, TInv, Listed
<1>1. ASSUME NEW w \in Workers,
             \/ GetVolume(w) \/ RefreshList(w) \/ List(w) \/ Ask(w)
             \/ RefreshCopy(w) \/ GetCopied(w) \/ Stop(w) \/ Start(w)
      PROVE  seen'[u] \subseteq known' \/ ~active'
  <2>1. /\ seen' = seen
        /\ \/ active' = active /\ known' = known
           \/ known' = Present
           \/ active' = FALSE
    BY <1>1, QuietOf
  <2>2. QED
    BY <1>0, <2>1
<1>2. ASSUME NEW w \in Workers, Create(w) \/ Clone(w)
      PROVE  seen'[u] \subseteq known' \/ ~active'
  <2>1. PICK b \in Tasks : Builds(w, b)
    BY <1>0, <1>2, BuildsOf
  <2>2. QED
    BY <2>1 DEF Builds, Fills
<1>3. ASSUME NEW w \in Workers, Resize(w) \/ Convert(w) \/ Converted(w)
      PROVE  seen'[u] \subseteq known' \/ ~active'
  <2>1. seen' = seen /\ UNCHANGED <<active, known>>
    BY <1>0, <1>3, ResizeOf, ConvertOf, ConvertedOf DEF Fills
  <2>2. QED
    BY <2>1
<1>4. ASSUME NEW f, Empties(f), known' = known \ {f}, active' = active
      PROVE  seen'[u] \subseteq known' \/ ~active'
  BY <1>4 DEF Empties
<1>5. ASSUME NEW w \in Workers, Delete(w) PROVE seen'[u] \subseteq known' \/ ~active'
  BY <1>4, <1>5, DeleteOf
<1>6. ASSUME NEW b \in builds, EndBuild(b) PROVE seen'[u] \subseteq known' \/ ~active'
  <2>1. CASE Empties(b.to) /\ known' = known \ {b.to}
    BY <1>4, <1>6, <2>1, EndBuildOf
  <2>2. CASE known' = known /\ seen' = seen
    BY <1>6, <2>2, EndBuildOf
  <2>3. QED
    BY <1>6, <2>1, <2>2, EndBuildOf DEF Fills
<1>7. QED
  BY <1>1, <1>2, <1>3, <1>5, <1>6 DEF HandlerMove

(* Files leave the history of what a handler has seen, never enter it.     *)
LEMMA SeenShrinks ==
  ASSUME Base, NEW u \in Workers,
         \/ \E w \in Workers : HandlerMove(w)
         \/ \E b \in builds : EndBuild(b)
  PROVE  seen'[u] \subseteq seen[u]
<1>1. ASSUME NEW w \in Workers, HandlerMove(w) PROVE seen'[u] \subseteq seen[u]
  <2>1. CASE Create(w) \/ Clone(w)
    BY <2>1, BuildsOf DEF Base, Builds, Fills
  <2>2. CASE Delete(w)
    BY <2>2, DeleteOf DEF Empties
  <2>3. CASE Resize(w) \/ Convert(w) \/ Converted(w)
    BY <2>3, ResizeOf, ConvertOf, ConvertedOf DEF Base, Fills
  <2>4. CASE \/ GetVolume(w) \/ RefreshList(w) \/ List(w) \/ Ask(w)
             \/ RefreshCopy(w) \/ GetCopied(w) \/ Stop(w) \/ Start(w)
    BY <2>4, QuietOf
  <2>5. QED
    BY <1>1, <2>1, <2>2, <2>3, <2>4 DEF HandlerMove
<1>2. ASSUME NEW b \in builds, EndBuild(b) PROVE seen'[u] \subseteq seen[u]
  BY <1>2, EndBuildOf DEF Empties, Fills
<1>3. QED
  BY <1>1, <1>2

ToldOf(w) ==
  /\ step[w] = "list" => stale[w] \/ ~active \/ seen[w] \subseteq known
  /\ step[w] \in {"ask", "respond"} =>
       \/ seen[w] \subseteq shown[w] /\ count[w] = Cardinality(shown[w])
       \/ stale[w]
       \/ shown[w] = {} /\ count[w] = OtherVolumes

LEMMA MoveTold ==
  ASSUME Base, Told, NEW w \in Workers, HandlerMove(w)
  PROVE  Told'
<1>0. TypeOK /\ TInv /\ job' = job
  BY MoveOf DEF Base, TInv
<1>1. ASSUME NEW u \in Workers, u # w, Telling(u) PROVE ToldOf(u)'
  <2>1. /\ step'[u] = step[u] /\ shown'[u] = shown[u] /\ count'[u] = count[u]
        /\ stale'[u] = stale[u]
    <3>1. step'[u] = step[u]
      BY <1>0, <1>1, MoveOf
    <3>2. /\ shown'[u] = shown[u] /\ count'[u] = count[u] /\ stale'[u] = stale[u]
      <4>1. CASE List(w)
        BY <1>0, <1>1, <4>1 DEF List, TypeOK
      <4>2. CASE RefreshList(w)
        BY <1>0, <1>1, <4>2 DEF RefreshList, TypeOK
      <4>3. CASE ~List(w) /\ ~RefreshList(w)
        <5>1. UNCHANGED <<shown, count, stale>>
          BY <4>3 DEF HandlerMove, Create, Clone, BeginBuild, GetVolume, Resize, Delete,
                 Ask, RefreshCopy, Convert, Converted, GetCopied, Stop, Start, Same
        <5>2. QED
          BY <5>1
      <4>4. QED
        BY <4>1, <4>2, <4>3
    <3>3. QED
      BY <3>1, <3>2
  <2>2. ToldOf(u)
    BY <1>1 DEF Told, ToldOf, Telling
  <2>3. seen'[u] \subseteq seen[u]
    BY SeenShrinks
  <2>4. seen[u] \subseteq known \/ ~active => seen'[u] \subseteq known' \/ ~active'
    BY SeenStay
  <2>5. QED
    BY <2>1, <2>2, <2>3, <2>4 DEF ToldOf
<1>2. ASSUME Telling(w) PROVE ToldOf(w)'
  <2>1. RefreshList(w) \/ List(w) \/ Ask(w)
    <3>1. step[w] \in ListSteps \cup {"respond"}
      <4>1. Fits(step[w], job[w]) /\ step[w] \in Steps /\ step[w] # "idle"
        BY <1>0, MoveOf DEF TInv, Control, TypeOK
      <4>2. QED
        BY <1>2, <4>1 DEF Fits, Telling, Steps, ListSteps, CopySteps
    <3>2. QED
      BY <3>1 DEF HandlerMove, Create, Clone, BeginBuild, GetVolume, Resize, Delete,
             RefreshCopy, Convert, Converted, GetCopied, Stop, Start, At, ListSteps
  <2>2. CASE RefreshList(w)
    <3>1. /\ step'[w] = "list" /\ stale'[w] = (builds # {}) /\ seen' = seen
          /\ active' = active /\ known' = Refreshed
      BY <1>0, <2>2 DEF RefreshList, Goes, TypeOK
    <3>2. seen[w] \subseteq Present
      BY DEF Base, Listed
    <3>3. QED
      BY <3>1, <3>2 DEF ToldOf, Refreshed
  <2>3. CASE List(w)
    <3>1. /\ step[w] = "list" /\ step'[w] \in {"ask", "respond"} /\ seen' = seen
          /\ stale' = stale /\ ToldOf(w)
          /\ shown'[w] = (IF active THEN known ELSE {})
          /\ count'[w] = (IF active THEN Cardinality(known) ELSE OtherVolumes)
      BY <1>0, <1>2, <2>3 DEF List, At, Goes, TypeOK, Told, ToldOf, Telling
    <3>2. CASE active
      BY <3>1, <3>2 DEF ToldOf
    <3>3. CASE ~active
      BY <3>1, <3>3 DEF ToldOf
    <3>4. QED
      BY <3>2, <3>3
  <2>4. CASE Ask(w)
    <3>1. /\ step[w] = "ask" /\ step'[w] = "respond" /\ UNCHANGED <<seen, stale, shown, count>>
          /\ ToldOf(w)
      BY <1>0, <1>2, <2>4 DEF Ask, At, Goes, Same, TypeOK, Told, ToldOf, Telling
    <3>2. QED
      BY <3>1 DEF ToldOf
  <2>5. QED
    BY <2>1, <2>2, <2>3, <2>4
<1>3. QED
  BY <1>0, <1>1, <1>2 DEF Told, ToldOf, Telling

LEMMA EndBuildTold ==
  ASSUME Base, Told, NEW b \in builds, EndBuild(b)
  PROVE  Told'
<1>1. UNCHANGED <<job, shown, count, stale>> /\ TInv
  BY EndBuildOf DEF Base
<1>2. ASSUME NEW u \in Workers, Telling(u) PROVE ToldOf(u)'
  <2>1. step[u] # "build"
    BY <1>1, <1>2 DEF Telling, TInv, Control, Fits
  <2>2. step'[u] = step[u]
    BY <2>1, EndBuildOf
  <2>3. ToldOf(u)
    BY <1>2 DEF Told, ToldOf, Telling
  <2>4. seen'[u] \subseteq seen[u]
    BY SeenShrinks
  <2>5. seen[u] \subseteq known \/ ~active => seen'[u] \subseteq known' \/ ~active'
    BY SeenStay
  <2>6. QED
    BY <1>1, <2>2, <2>3, <2>4, <2>5 DEF ToldOf
<1>3. QED
  BY <1>1, <1>2 DEF Told, ToldOf, Telling

LEMMA RequestTold ==
  ASSUME Base, Told, NEW w \in Workers, NEW j \in Jobs, Request(w, j)
  PROVE  Told'
<1>1. /\ UNCHANGED <<active, known, shown, count, stale>>
      /\ step'[w] \notin {"list", "ask", "respond"}
      /\ \A u \in Workers \ {w} : /\ job'[u] = job[u] /\ step'[u] = step[u]
                                  /\ seen'[u] = seen[u]
  BY FirstOf DEF Request, Base, TInv, TypeOK
<1>2. QED
  BY <1>1 DEF Told

LEMMA EndsTold ==
  ASSUME Base, Told, NEW W \in SUBSET Workers, NEW D, Ended(W, D)
  PROVE  Told'
<1>1. \A u \in Workers :
        \/ step'[u] = "idle"
        \/ /\ u \notin W /\ step'[u] = step[u] /\ job'[u] = job[u] /\ seen'[u] = seen[u]
           /\ shown'[u] = shown[u] /\ count'[u] = count[u] /\ stale'[u] = stale[u]
  BY DEF Ended, Forget
<1>2. (UNCHANGED <<active, known>>) \/ known' = Present
  BY DEF Ended
<1>3. \A u \in Workers : seen[u] \subseteq Present
  BY DEF Base, Listed
<1>4. QED
  BY <1>1, <1>2, <1>3 DEF Told

LEMMA RestTold == Told /\ UNCHANGED volumeVars => Told'
  BY DEF volumeVars, Told

(* The steps of the specification.                                         *)
LEMMA Steppings ==
  ASSUME TypeOK, [Next]_volumeVars
  PROVE  \/ \E w \in Workers : HandlerMove(w)
         \/ \E b \in builds : EndBuild(b)
         \/ \E w \in Workers, j \in Jobs : Request(w, j)
         \/ \E W \in SUBSET Workers : \E D : Ended(W, D)
         \/ UNCHANGED volumeVars
  BY EndsOf DEF Next, HandlerStep, HandlerMove, Ends

LEMMA NextBase == Base /\ [Next]_volumeVars => Base'
  BY Steppings, StepBase DEF Base, TInv

(* For any number of handlers: a list of the volumes shows every file that *)
(* was in the active pool all the time, unless its refresh was refused.    *)
THEOREM ShownAsIs == Spec => []ShownIsCurrent
<1>1. Init => Told
  BY DEF Init, Told, NoJob
<1>2. Base /\ Told /\ [Next]_volumeVars => Told'
  BY Steppings, MoveTold, EndBuildTold, RequestTold, EndsTold, RestTold DEF Base, TInv
<1>3. Told => ShownIsCurrent
  BY DEF Told, ShownIsCurrent, At
<1>4. QED
  BY <1>1, <1>2, <1>3, InitBase, NextBase, PTL DEF Spec

-----------------------------------------------------------------------------
(* Who writes the files, and what is left behind.                          *)
Quiet(w) == \/ GetVolume(w) \/ RefreshList(w) \/ List(w) \/ Ask(w)
            \/ RefreshCopy(w) \/ GetCopied(w) \/ Stop(w) \/ Start(w)
Record == Writers /\ OnRecord /\ Whole

(* A file a snapshot is written into is named after its worker.            *)
LEMMA MoveWriters ==
  ASSUME Base, Writers, NEW w \in Workers, HandlerMove(w)
  PROVE  Writers'
<1>0. /\ TypeOK /\ TInv /\ job' = job /\ step[w] \in Steps
      /\ \A u \in Workers \ {w} : step'[u] = step[u]
      /\ "none" \notin Workers /\ "building" \notin Workers /\ "image" \notin Workers
  BY MoveOf, NamesApart DEF Base, TInv, TypeOK
<1>1. CASE Quiet(w)
  <2>1. UNCHANGED <<files, builds>> /\ step[w] # "converting"
    BY <1>1, QuietOf DEF Quiet
  <2>2. QED
    BY <1>0, <2>1 DEF Writers, Building
<1>2. CASE Create(w) \/ Clone(w)
  <2>1. PICK b \in Tasks : Builds(w, b)
    BY <1>0, <1>2, BuildsOf
  <2>2. /\ files'[b.to].data = "building" /\ \A g \in Names \ {b.to} : files'[g] = files[g]
        /\ builds' = builds \cup {b}
    BY <1>0, <2>1, FillsPresent DEF Builds
  <2>3. step[w] # "converting"
    BY <1>2 DEF Create, Clone, At
  <2>4. QED
    BY <1>0, <2>2, <2>3 DEF Writers, Building
<1>3. CASE Resize(w)
  <2>1. PICK f, c : Fills(f, c) /\ c.data = files[f].data /\ builds' = builds /\ step[w] = "resize"
    BY <1>3, ResizeOf
  <2>2. \A g \in Names : files'[g].data = files[g].data
    BY <1>0, <2>1, FillsPresent
  <2>3. QED
    BY <1>0, <2>1, <2>2 DEF Writers, Building
<1>4. CASE Delete(w)
  <2>1. PICK f : Empties(f) /\ builds' = builds /\ step[w] = "delete"
    BY <1>4, DeleteOf
  <2>2. \A g \in Names : files'[g] = files[g] \/ files'[g].data = "none"
    BY <1>0, <2>1, EmptiesPresent DEF NoFile
  <2>3. QED
    BY <1>0, <2>1, <2>2 DEF Writers, Building
<1>5. CASE Convert(w)
  <2>1. PICK f \in Names : /\ f = Target(job[w]) /\ builds' = {Touched(b, f) : b \in builds}
                           /\ Fills(f, [size |-> job[w].size, data |-> w])
                           /\ step[w] = "convert" /\ step'[w] = "converting"
    BY <1>0, <1>5, ConvertOf
  <2>2. files'[f].data = w /\ \A g \in Names \ {f} : files'[g] = files[g]
    BY <1>0, <2>1, FillsPresent
  <2>3. \A b \in builds : Touched(b, f).to = b.to /\ Touched(b, f) \in builds'
    BY <1>0, <2>1, TouchedOf DEF TypeOK, Tasks
  <2>4. \A g : Building(g) => Building(g)'
    BY <2>3 DEF Building
  <2>5. QED
    BY <1>0, <2>1, <2>2, <2>4 DEF Writers
<1>6. CASE Converted(w)
  <2>1. PICK f \in Names : /\ f = Target(job[w]) /\ builds' = builds
                           /\ \/ /\ files[f].data = w
                                 /\ Fills(f, [size |-> files[f].size, data |-> "image"])
                              \/ files[f].data # w /\ files' = files
    BY <1>6, ConvertedOf
  <2>2. \A g \in Names : files[g].data = w => g = f
    BY <2>1 DEF Writers
  <2>3. /\ files'[f].data # w /\ (files'[f] = files[f] \/ files'[f].data = "image")
        /\ \A g \in Names \ {f} : files'[g] = files[g]
    BY <1>0, <2>1, FillsPresent
  <2>4. QED
    BY <1>0, <2>1, <2>2, <2>3 DEF Writers, Building
<1>7. QED
  BY <1>1, <1>2, <1>3, <1>4, <1>5, <1>6 DEF HandlerMove, Quiet

LEMMA EndBuildWriters ==
  ASSUME Base, Record, NEW b \in builds, EndBuild(b)
  PROVE  Writers'
<1>0. /\ TypeOK /\ job' = job /\ builds' = builds \ {b} /\ b \in Tasks
      /\ Workers \cap {"none", "building", "blank", "image", "torn"} = {}
  BY EndBuildOf, NamesApart DEF Base, TInv
<1>1. \A u \in Workers : step[u] = "converting" => step'[u] = "converting"
  BY EndBuildOf
<1>2. ~b.torn /\ b.from # NoName => files[b.from].data \notin Workers \cup {"building"}
  BY <1>0 DEF Record, Whole, Writers, Base, Listed, Tasks
<1>3. /\ files'[b.to].data \notin Workers \cup {"building"}
      /\ \A g \in Names \ {b.to} : files'[g] = files[g]
  <2>1. CASE Empties(b.to)
    BY <1>0, <2>1, EmptiesPresent DEF NoFile
  <2>2. CASE Fills(b.to, [size |-> b.size,
                      data |-> IF b.torn \/ files[b.to].data # "building" THEN "torn"
                               ELSE IF b.from = NoName THEN "blank"
                                              ELSE files[b.from].data])
    <3>1. PICK d : d = IF b.torn \/ files[b.to].data # "building" THEN "torn"
                               ELSE IF b.from = NoName THEN "blank"
                                              ELSE files[b.from].data
      OBVIOUS
    <3>2. d \notin Workers \cup {"building"}
      BY <1>0, <1>2, <3>1
    <3>3. Fills(b.to, [size |-> b.size, data |-> d])
      BY <2>2, <3>1
    <3>4. QED
      BY <1>0, <3>2, <3>3, FillsPresent
  <2>3. QED
    BY <2>1, <2>2, EndBuildOf
<1>4. \A g \in Names \ {b.to} : Building(g) => Building(g)'
  BY <1>0 DEF Building
<1>5. QED
  BY <1>0, <1>1, <1>3, <1>4 DEF Record, Writers

LEMMA RequestWriters ==
  ASSUME Base, Writers, NEW w \in Workers, NEW j \in Jobs, Request(w, j)
  PROVE  Writers'
<1>1. /\ UNCHANGED <<files, builds>> /\ step[w] = "idle"
      /\ \A u \in Workers \ {w} : job'[u] = job[u] /\ step'[u] = step[u]
  BY DEF Request, Busy, Base, TInv, TypeOK
<1>2. QED
  BY <1>1 DEF Writers, Building

LEMMA EndsWriters ==
  ASSUME Base, Writers, NEW W \in SUBSET Workers, NEW D, Ended(W, D)
  PROVE  Writers'
<1>0. "torn" \notin Workers /\ "building" \notin Workers
  BY NamesApart
<1>1. \A f \in Names : \/ files'[f].data = "torn"
                       \/ files[f].data \notin D /\ files'[f] = files[f]
  BY EndsTInv DEF Base
<1>2. \A u \in Workers \ W : step'[u] = step[u] /\ job'[u] = job[u]
  BY DEF Ended, Forget
<1>3. \A u \in W \ D : step[u] = "respond"
  BY DEF Ended
<1>4. builds' = builds \/ "building" \in D
  BY DEF Ended
<1>5. QED
  BY <1>0, <1>1, <1>2, <1>3, <1>4 DEF Writers, Building

(* A snapshot beside a build is on record.                                 *)
LEMMA MoveOnRecord ==
  ASSUME Base, OnRecord, NEW w \in Workers, HandlerMove(w)
  PROVE  OnRecord'
<1>0. /\ TypeOK /\ TInv /\ UNCHANGED <<job, together>> /\ Busy' = Busy /\ w \in Busy
  BY MoveOf DEF Base, TInv
<1>1. builds' # {} => builds # {} \/ job[w].kind \in {"create", "clone"}
  <2>1. CASE Quiet(w)
    BY <2>1, QuietOf DEF Quiet
  <2>2. CASE Create(w) \/ Clone(w)
    <3>1. Fits(step[w], job[w])
      BY <1>0 DEF TInv, Control
    <3>2. QED
      BY <2>2, <3>1 DEF Create, Clone, At, Fits
  <2>3. CASE Resize(w) \/ Delete(w) \/ Converted(w)
    BY <2>3, ResizeOf, DeleteOf, ConvertedOf
  <2>4. CASE Convert(w)
    BY <1>0, <2>4, ConvertOf
  <2>5. QED
    BY <2>1, <2>2, <2>3, <2>4 DEF HandlerMove, Quiet
<1>2. QED
  BY <1>0, <1>1 DEF OnRecord

LEMMA RestOnRecord ==
  ASSUME Base, OnRecord,
         \/ \E b \in builds : EndBuild(b)
         \/ \E w \in Workers, j \in Jobs : Request(w, j)
         \/ \E W \in SUBSET Workers : \E D : Ended(W, D)
  PROVE  OnRecord'
<1>1. ASSUME NEW b \in builds, EndBuild(b) PROVE OnRecord'
  <2>1. \A u \in Workers : step[u] # "idle" <=> step'[u] # "idle"
    BY <1>1, EndBuildOf
  <2>2. Busy' = Busy /\ UNCHANGED <<job, together>> /\ builds' \subseteq builds
    BY <1>1, <2>1, EndBuildOf DEF Busy
  <2>3. QED
    BY <2>2 DEF OnRecord
<1>2. ASSUME NEW w \in Workers, NEW j \in Jobs, Request(w, j) PROVE OnRecord'
  <2>1. /\ builds' = builds /\ job'[w] = j /\ \A u \in Workers \ {w} : job'[u] = job[u]
        /\ Busy' \subseteq Busy \cup {w} /\ w \notin Busy
    BY <1>2 DEF Request, Busy, Base, TInv, TypeOK
  <2>2. /\ together => together'
        /\ j.kind = "copy" /\ builds # {} => together'
        /\ \A u \in Busy : \A k \in {"create", "clone"} :
             {j.kind, job[u].kind} = {"copy", k} => together'
    BY <1>2 DEF Request
  <2>3. \A u \in Busy : /\ j.kind = "copy" /\ job[u].kind \in {"create", "clone"} => together'
                        /\ job[u].kind = "copy" /\ j.kind \in {"create", "clone"} => together'
    BY <2>2
  <2>4. Busy \subseteq Workers
    BY DEF Busy
  <2>5. QED
    BY <2>1, <2>2, <2>3, <2>4 DEF OnRecord
<1>3. ASSUME NEW W \in SUBSET Workers, NEW D, Ended(W, D) PROVE OnRecord'
  <2>1. Busy' = Busy \ W /\ \A u \in Busy \ W : job'[u] = job[u]
    BY <1>3 DEF Ended, Forget, Busy
  <2>2. builds' \subseteq builds /\ together' = together
    BY <1>3 DEF Ended, Forget
  <2>3. QED
    BY <2>1, <2>2 DEF OnRecord
<1>4. QED
  BY <1>1, <1>2, <1>3

-----------------------------------------------------------------------------
(* Incomplete contents are explained, of a volume and of a build.          *)
LEMMA MoveWhole ==
  ASSUME Base, Record, NEW w \in Workers, HandlerMove(w)
  PROVE  Whole'
<1>0. /\ TypeOK /\ TInv /\ UNCHANGED <<job, cut, together>> /\ w \in Busy
      /\ Fits(step[w], job[w]) /\ (Explained' <=> Explained)
      /\ Workers \cap {"none", "building", "blank", "image", "torn"} = {}
      /\ NoName \notin Names
  BY MoveOf, NamesApart DEF Base, TInv, Control, Explained
<1>1. CASE Quiet(w)
  BY <1>0, <1>1, QuietOf DEF Quiet, Record, Whole
<1>2. CASE Create(w) \/ Clone(w)
  <2>1. PICK b \in Tasks : Builds(w, b)
    BY <1>0, <1>2, BuildsOf
  <2>2. /\ files'[b.to] = [size |-> b.size, data |-> "building"]
        /\ \A g \in Names \ {b.to} : files'[g] = files[g]
        /\ builds' = builds \cup {b} /\ b.to \notin known /\ b.to \notin Present
    BY <1>0, <2>1, FillsPresent DEF Builds
  <2>3. \A c \in builds : /\ c.to # b.to /\ c.from # b.to
                          /\ c.to \in Names /\ (c.from # NoName => c.from \in Names)
    BY <1>0, <2>2 DEF Base, Listed, TypeOK, Tasks
  <2>4. /\ b.torn => Explained
        /\ ~b.torn /\ b.from # NoName =>
             b.from # b.to /\ b.from \in Names /\ files[b.from].data \notin Workers \cup {"torn"}
    <3>1. ASSUME b.from # NoName
          PROVE  /\ job[w].kind = "clone" /\ b.from \in known /\ b.from \in Names
                 /\ b.torn <=> files[b.from].data \in Workers \cup {"torn"}
      BY <2>1, <3>1 DEF Builds
    <3>2. b.from = NoName => ~b.torn
      BY <2>1 DEF Builds
    <3>3. ASSUME b.from # NoName, files[b.from].data \in Workers PROVE together
      <4>1. PICK u \in Workers : u = files[b.from].data /\ step[u] = "converting"
        BY <3>1, <3>3 DEF Record, Writers
      <4>2. u \in Busy /\ job[u].kind = "copy"
        BY <1>0, <4>1 DEF TInv, Control, Fits, CopySteps, Busy
      <4>3. QED
        BY <1>0, <3>1, <3>3, <4>2 DEF Record, OnRecord
    <3>4. ASSUME b.from # NoName, files[b.from].data = "torn" PROVE Explained
      BY <3>1, <3>4 DEF Record, Whole
    <3>5. QED
      BY <2>2, <3>1, <3>2, <3>3, <3>4 DEF Explained
  <2>5. \A f \in Names : files'[f].data = "torn" => Explained'
    BY <1>0, <2>1, <2>2 DEF Record, Whole
  <2>6. QED
    BY <1>0, <2>2, <2>3, <2>4, <2>5 DEF Record, Whole
<1>3. CASE Resize(w)
  <2>1. PICK f, c : Fills(f, c) /\ c.data = files[f].data /\ builds' = builds
    BY <1>3, ResizeOf
  <2>2. \A g \in Names : files'[g].data = files[g].data
    BY <1>0, <2>1, FillsPresent
  <2>3. \A b \in builds : b.to \in Names /\ (b.from # NoName => b.from \in Names)
    BY <1>0 DEF TypeOK
  <2>4. QED
    BY <1>0, <2>1, <2>2, <2>3 DEF Record, Whole
<1>4. CASE Delete(w)
  <2>1. PICK f : Empties(f) /\ builds' = builds /\ Untouched(f)
    BY <1>4, DeleteOf
  <2>2. /\ files'[f].data = "none" /\ \A g \in Names \ {f} : files'[g] = files[g]
    BY <1>0, <2>1, EmptiesPresent DEF NoFile
  <2>3. \A b \in builds : /\ b.to # f /\ b.from # f
                          /\ b.to \in Names /\ (b.from # NoName => b.from \in Names)
    BY <1>0, <2>1 DEF TypeOK, Untouched, Building, InUse
  <2>4. QED
    BY <1>0, <2>1, <2>2, <2>3 DEF Record, Whole
<1>5. CASE Convert(w)
  <2>1. PICK f \in Names : /\ builds' = {Touched(b, f) : b \in builds} /\ job[w].kind = "copy"
                           /\ Fills(f, [size |-> job[w].size, data |-> w])
    BY <1>0, <1>5, ConvertOf
  <2>2. files'[f].data = w /\ \A g \in Names \ {f} : files'[g] = files[g]
    BY <1>0, <2>1, FillsPresent
  <2>3. builds' # {} => together
    BY <1>0, <2>1 DEF Record, OnRecord
  <2>4. ASSUME NEW c \in builds', ~c.torn, c.from # NoName
        PROVE  files'[c.from].data \notin Workers \cup {"torn"}
    <3>1. PICK b \in builds : c = Touched(b, f)
      BY <2>1
    <3>2. b \in Tasks
      BY <1>0 DEF TypeOK, Tasks
    <3>3. c.from = b.from /\ (c.torn <=> (b.torn \/ b.from = f))
      BY <3>1, <3>2, TouchedOf
    <3>4. QED
      BY <2>2, <2>4, <3>2, <3>3 DEF Record, Whole, Tasks
  <2>5. \A g \in Names : files'[g].data = "torn" => Explained'
    BY <1>0, <2>2 DEF Record, Whole
  <2>6. QED
    BY <1>0, <2>3, <2>4, <2>5 DEF Whole, Explained
<1>6. CASE Converted(w)
  <2>1. PICK f \in Names : /\ builds' = builds /\ job[w].kind = "copy"
                           /\ \/ Fills(f, [size |-> files[f].size, data |-> "image"])
                              \/ files' = files
    BY <1>6, ConvertedOf
  <2>2. \A g \in Names : files'[g] = files[g] \/ files'[g].data = "image"
    BY <1>0, <2>1, FillsPresent
  <2>3. builds # {} => together
    BY <1>0, <2>1 DEF Record, OnRecord
  <2>4. \A b \in builds : b.to \in Names /\ (b.from # NoName => b.from \in Names)
    BY <1>0 DEF TypeOK
  <2>5. QED
    BY <1>0, <2>1, <2>2, <2>3, <2>4 DEF Record, Whole
<1>7. QED
  BY <1>1, <1>2, <1>3, <1>4, <1>5, <1>6 DEF HandlerMove, Quiet

LEMMA EndBuildWhole ==
  ASSUME Base, Record, NEW b \in builds, EndBuild(b)
  PROVE  Whole'
<1>0. /\ TypeOK /\ UNCHANGED <<cut, together>> /\ (Explained' <=> Explained) /\ b \in Tasks
      /\ builds' = builds \ {b} /\ NoName \notin Names
  BY EndBuildOf, NamesApart DEF Base, TInv, Explained
<1>1. /\ \A g \in Names \ {b.to} : files'[g] = files[g]
      /\ files'[b.to].data = "torn" => Explained
  <2>1. CASE Empties(b.to)
    BY <1>0, <2>1, EmptiesPresent DEF NoFile
  <2>2. CASE Fills(b.to, [size |-> b.size,
                      data |-> IF b.torn \/ files[b.to].data # "building" THEN "torn"
                               ELSE IF b.from = NoName THEN "blank"
                                              ELSE files[b.from].data])
    <3>1. PICK d : d = IF b.torn \/ files[b.to].data # "building" THEN "torn"
                               ELSE IF b.from = NoName THEN "blank"
                                              ELSE files[b.from].data
      OBVIOUS
    <3>2. d = "torn" => Explained
      BY <3>1 DEF Record, Whole, Explained
    <3>3. Fills(b.to, [size |-> b.size, data |-> d])
      BY <2>2, <3>1
    <3>4. QED
      BY <1>0, <3>2, <3>3, FillsPresent
  <2>3. QED
    BY <2>1, <2>2, EndBuildOf
<1>2. \A c \in builds' : /\ c.to # b.to /\ c.to \in Names
                         /\ c.from # NoName => c.from # b.to /\ c.from \in Names
  BY <1>0 DEF Base, Listed, Building, TypeOK
<1>3. QED
  BY <1>0, <1>1, <1>2 DEF Record, Whole

LEMMA RequestWhole ==
  ASSUME Base, Whole, NEW w \in Workers, NEW j \in Jobs, Request(w, j)
  PROVE  Whole'
<1>1. UNCHANGED <<files, builds, cut>> /\ (together => together')
  BY DEF Request
<1>2. QED
  BY <1>1 DEF Whole, Explained

LEMMA EndsWhole ==
  ASSUME Base, Record, NEW W \in SUBSET Workers, NEW D, Ended(W, D)
  PROVE  Whole'
<1>0. /\ TypeOK /\ TInv /\ "building" \notin Workers
      /\ (together => together') /\ cut \subseteq cut' /\ (Explained => Explained')
  BY NamesApart DEF Base, TInv, Ended, Forget, Explained
<1>1. \A f \in Names : IF files[f].data \in D THEN files'[f].data = "torn"
                       ELSE files'[f] = files[f]
  BY EndsTInv DEF Base
<1>2. ASSUME NEW f \in Names, files[f].data \in D PROVE Explained'
  <2>1. D = W \/ (D = W \cup {"building"} /\ (builds # {} => "clone" \in cut'))
    BY <1>2 DEF Ended
  <2>2. CASE files[f].data \in W
    <3>1. PICK u \in W : u = files[f].data /\ step[u] = "converting"
      BY <2>2 DEF Record, Writers
    <3>2. job[u].kind = "copy"
      BY <1>0, <3>1 DEF TInv, Control, Fits, CopySteps
    <3>3. "copy" \in cut'
      BY <1>2, <3>2 DEF Ended
    <3>4. QED
      BY <3>3 DEF Explained
  <2>3. CASE files[f].data = "building" /\ "building" \in D
    <3>1. builds # {}
      BY <2>3 DEF Record, Writers, Building
    <3>2. "clone" \in cut'
      BY <1>0, <2>1, <2>3, <3>1
    <3>3. QED
      BY <3>2 DEF Explained
  <2>4. QED
    BY <1>2, <2>1, <2>2, <2>3
<1>3. \A f \in Names : files'[f].data = "torn" => Explained'
  BY <1>0, <1>1, <1>2 DEF Record, Whole
<1>4. CASE builds' = {}
  BY <1>3, <1>4 DEF Whole
<1>5. CASE builds' = builds /\ D \subseteq W
  <2>1. \A b \in builds : b.to \in Names /\ (b.from # NoName => b.from \in Names)
    BY <1>0 DEF TypeOK
  <2>2. QED
    BY <1>0, <1>1, <1>3, <1>5, <2>1 DEF Record, Whole
<1>6. QED
  BY <1>4, <1>5 DEF Ended

-----------------------------------------------------------------------------
(* A file libvirt does not know is being copied, or a copy failed.         *)
LEMMA MoveUnknown ==
  ASSUME Base, Unknown, NEW w \in Workers, HandlerMove(w)
  PROVE  Unknown'
<1>0. /\ TypeOK /\ TInv /\ UNCHANGED <<job, cut>>
      /\ \A u \in Workers \ {w} : step'[u] = step[u]
  BY MoveOf DEF Base, TInv
<1>1. ASSUME \A f \in (Present' \ known') : f \in Present \ known,
             active' => active, step[w] \notin {"converting", "refresh_copied"}
      PROVE  Unknown'
  BY <1>0, <1>1 DEF Unknown, Copying
<1>2. CASE Quiet(w) /\ ~RefreshCopy(w)
  <2>1. /\ UNCHANGED <<files, builds>>
        /\ \/ active' = active /\ known' = known
           \/ known' = Present
           \/ active' = FALSE
        /\ step[w] # "converting"
    BY <1>2, QuietOf DEF Quiet
  <2>2. step[w] # "refresh_copied"
    BY <1>2 DEF Quiet, GetVolume, RefreshList, List, Ask, GetCopied, Stop, Start, At
  <2>3. Present' = Present
    BY <2>1 DEF Present
  <2>4. CASE known' = Present
    BY <2>3, <2>4 DEF Unknown
  <2>5. CASE active' = FALSE
    BY <2>5 DEF Unknown
  <2>6. CASE active' = active /\ known' = known
    <3>1. /\ \A f \in (Present' \ known') : f \in Present \ known
          /\ active' => active
      BY <2>3, <2>6
    <3>2. QED
      BY <1>1, <2>1, <2>2, <3>1
  <2>7. QED
    BY <2>1, <2>4, <2>5, <2>6
<1>3. CASE RefreshCopy(w)
  <2>1. files' = files /\ known' = Present
    BY <1>3 DEF RefreshCopy
  <2>2. QED
    BY <2>1 DEF Unknown, Present
<1>4. CASE Create(w) \/ Clone(w)
  <2>1. PICK b \in Tasks : Builds(w, b)
    BY <1>0, <1>4, BuildsOf
  <2>2. Present' = Present \cup {b.to} /\ known' = known \cup {b.to} /\ active' = active
    BY <1>0, <2>1, FillsPresent DEF Builds
  <2>3. step[w] \notin {"converting", "refresh_copied"}
    BY <1>4 DEF Create, Clone, At
  <2>4. QED
    BY <1>1, <2>2, <2>3
<1>5. CASE Resize(w)
  <2>1. PICK f : /\ f = job[w].name /\ f \in known
                 /\ \E c : Fills(f, c)
                 /\ step[w] = "resize" /\ UNCHANGED <<active, known>>
    BY <1>5, ResizeOf DEF Untouched
  <2>2. Present' = Present \cup {f}
    BY <1>0, <2>1, FillsPresent
  <2>3. QED
    BY <1>1, <2>1, <2>2
<1>6. CASE Delete(w)
  <2>1. PICK f : /\ Empties(f) /\ known' = known \ {f} /\ active' = active
                 /\ step[w] = "delete"
    BY <1>6, DeleteOf
  <2>2. Present' = Present \ {f}
    BY <1>0, <2>1, EmptiesPresent
  <2>3. QED
    BY <1>1, <2>1, <2>2
<1>7. CASE Convert(w)
  <2>1. PICK f \in Names : /\ f = Target(job[w]) /\ (\E c : Fills(f, c))
                           /\ step[w] = "convert" /\ step'[w] = "converting"
                           /\ UNCHANGED <<active, known>>
    BY <1>0, <1>7, ConvertOf
  <2>2. Present' = Present \cup {f}
    BY <1>0, <2>1, FillsPresent
  <2>3. QED
    BY <1>0, <2>1, <2>2 DEF Unknown, Copying
<1>8. CASE Converted(w)
  <2>1. PICK f \in Names : /\ f = Target(job[w]) /\ UNCHANGED <<active, known>>
                           /\ step[w] = "converting" /\ step'[w] = "refresh_copied"
                           /\ \/ files[f].data = w /\ \E c : Fills(f, c)
                              \/ files' = files
    BY <1>8, ConvertedOf
  <2>2. files[f].data = w => f \in Present
    BY NamesApart DEF Present, NoFile
  <2>3. Present' = Present
    <3>1. CASE files' = files
      BY <3>1 DEF Present
    <3>2. CASE files[f].data = w /\ \E c : Fills(f, c)
      BY <1>0, <2>2, <3>2, FillsPresent
    <3>3. QED
      BY <2>1, <3>1, <3>2
  <2>4. \A u \in Workers : \A g : Copying(u, g) => Copying(u, g)'
    BY <1>0, <2>1 DEF Copying
  <2>5. QED
    BY <1>0, <2>1, <2>3, <2>4 DEF Unknown
<1>9. QED
  BY <1>2, <1>3, <1>4, <1>5, <1>6, <1>7, <1>8 DEF HandlerMove, Quiet

LEMMA RestUnknown ==
  ASSUME Base, Unknown,
         \/ \E b \in builds : EndBuild(b)
         \/ \E w \in Workers, j \in Jobs : Request(w, j)
         \/ \E W \in SUBSET Workers : \E D : Ended(W, D)
  PROVE  Unknown'
<1>0. TypeOK /\ TInv
  BY DEF Base, TInv
<1>1. ASSUME NEW b \in builds, EndBuild(b) PROVE Unknown'
  <2>1. /\ UNCHANGED <<active, job, cut>> /\ b.to \in known
        /\ \A u \in Workers : step[u] # "build" => step'[u] = step[u]
    BY <1>1, EndBuildOf DEF Base, Listed
  <2>2. Present' \ known' \subseteq Present \ known
    <3>1. CASE Empties(b.to) /\ known' = known \ {b.to}
      BY <1>0, <3>1, EmptiesPresent
    <3>2. CASE known' = known /\ \E c : Fills(b.to, c)
      BY <1>0, <2>1, <3>2, FillsPresent
    <3>3. QED
      BY <1>1, <3>1, <3>2, EndBuildOf
  <2>3. QED
    BY <2>1, <2>2 DEF Unknown, Copying
<1>2. ASSUME NEW w \in Workers, NEW j \in Jobs, Request(w, j) PROVE Unknown'
  <2>1. /\ UNCHANGED <<active, files, known, cut>> /\ step[w] = "idle"
        /\ \A u \in Workers \ {w} : job'[u] = job[u] /\ step'[u] = step[u]
    BY <1>2 DEF Request, Busy, Base, TInv, TypeOK
  <2>2. Present' = Present
    BY <2>1 DEF Present
  <2>3. QED
    BY <2>1, <2>2 DEF Unknown, Copying
<1>3. ASSUME NEW W \in SUBSET Workers, NEW D, Ended(W, D) PROVE Unknown'
  <2>1. Present' = Present /\ cut \subseteq cut'
    BY <1>0, <1>3, EndsTInv DEF Ended
  <2>2. CASE known' = Present
    BY <2>1, <2>2 DEF Unknown
  <2>3. CASE UNCHANGED <<active, known>>
    <3>1. \A u \in Workers : \A g : Copying(u, g) => Copying(u, g)' \/ "copy" \in cut'
      <4>1. \A u \in Workers \ W : step'[u] = step[u] /\ job'[u] = job[u]
        BY <1>3 DEF Ended, Forget
      <4>2. \A u \in W : step[u] = "respond" \/ job[u].kind \in cut'
        BY <1>3 DEF Ended
      <4>3. \A u \in Workers : \A g : Copying(u, g) => job[u].kind = "copy"
        BY <1>0 DEF TInv, Control, Fits, CopySteps, Copying
      <4>4. QED
        BY <4>1, <4>2, <4>3 DEF Copying
    <3>2. QED
      BY <2>1, <2>3, <3>1 DEF Unknown
  <2>4. QED
    BY <1>3, <2>2, <2>3 DEF Ended
<1>4. QED
  BY <1>1, <1>2, <1>3

-----------------------------------------------------------------------------
LEMMA InitRecord == Init => Record /\ Unknown
<1>1. Init => OnRecord
  BY DEF Init, OnRecord, Busy
<1>2. Init => Writers /\ Whole /\ Unknown
  BY NamesApart DEF Init, Writers, Whole, Unknown, NoFile, Present
<1>3. QED
  BY <1>1, <1>2 DEF Record

LEMMA NextRecord == Base /\ Record /\ Unknown /\ [Next]_volumeVars => Record' /\ Unknown'
<1> SUFFICES ASSUME Base, Record, Unknown, [Next]_volumeVars PROVE Record' /\ Unknown'
  OBVIOUS
<1>0. TypeOK /\ Writers /\ OnRecord /\ Whole
  BY DEF Base, TInv, Record
<1>1. ASSUME NEW w \in Workers, HandlerMove(w) PROVE Record' /\ Unknown'
  BY <1>0, <1>1, MoveWriters, MoveOnRecord, MoveWhole, MoveUnknown DEF Record
<1>2. ASSUME NEW b \in builds, EndBuild(b) PROVE Record' /\ Unknown'
  BY <1>0, <1>2, EndBuildWriters, RestOnRecord, EndBuildWhole, RestUnknown DEF Record
<1>3. ASSUME NEW w \in Workers, NEW j \in Jobs, Request(w, j) PROVE Record' /\ Unknown'
  BY <1>0, <1>3, RequestWriters, RestOnRecord, RequestWhole, RestUnknown DEF Record
<1>4. ASSUME NEW W \in SUBSET Workers, NEW D, Ended(W, D) PROVE Record' /\ Unknown'
  BY <1>0, <1>4, EndsWriters, RestOnRecord, EndsWhole, RestUnknown DEF Record
<1>5. CASE UNCHANGED volumeVars
  <2>1. (Writers /\ Whole)' /\ Unknown'
    BY <1>0, <1>5 DEF volumeVars, Writers, Whole, Explained, Unknown, Copying, Building, Present
  <2>2. OnRecord'
    BY <1>0, <1>5 DEF volumeVars, OnRecord, Busy
  <2>3. QED
    BY <2>1, <2>2 DEF Record
<1>6. QED
  BY <1>0, <1>1, <1>2, <1>3, <1>4, <1>5, Steppings

(* For any number of handlers: an unknown file of an active pool is a      *)
(* snapshot under way or one that failed, and incomplete contents nobody   *)
(* works on come of a failure or of a snapshot beside a build.             *)
THEOREM LeftoversExplained == Spec => []LeftoversOnlyByFailure
<1>1. Base /\ Record /\ Unknown => LeftoversOnlyByFailure
  <2> SUFFICES ASSUME Base, Record, Unknown, NEW f \in Present
      PROVE  /\ active /\ f \notin known =>
                  "copy" \in cut \/ \E w \in Busy : job[w].kind = "copy" /\ Target(job[w]) = f
             /\ files[f].data = "torn" =>
                  together \/ cut \cap {"copy", "create", "clone"} # {}
    BY DEF LeftoversOnlyByFailure
  <2>1. \A w \in Workers : Copying(w, f) =>
          w \in Busy /\ job[w].kind = "copy" /\ Target(job[w]) = f
    BY DEF Base, TInv, Control, Fits, CopySteps, Copying, Busy
  <2>2. f \in Names
    BY DEF Present
  <2>3. QED
    BY <2>1, <2>2 DEF Unknown, Record, Whole, Explained
<1>2. QED
  BY <1>1, InitBase, NextBase, InitRecord, NextRecord, PTL DEF Spec

-----------------------------------------------------------------------------
(* A handler that has the pool to itself.                                  *)
Kept == Solitude /\ Promises

LEMMA MoveSolitude ==
  ASSUME Base, Solitude, NEW w \in Workers, HandlerMove(w)
  PROVE  Solitude'
<1>0. /\ alone' = alone /\ Busy' = Busy /\ w \in Busy
      /\ \A u \in Workers \ {w} : step'[u] = step[u]
      /\ TInv /\ Fits(step[w], job[w])
  BY MoveOf DEF Base, TInv, Control
<1>1. builds = {} => builds' = {} \/ step'[w] = "build"
  <2>1. CASE Quiet(w)
    BY <2>1, QuietOf DEF Quiet
  <2>2. CASE Create(w) \/ Clone(w)
    BY <1>0, <2>2, BuildsOf DEF Builds
  <2>3. CASE Resize(w) \/ Delete(w) \/ Converted(w)
    BY <2>3, ResizeOf, DeleteOf, ConvertedOf
  <2>4. CASE Convert(w)
    BY <1>0, <2>4, ConvertOf
  <2>5. QED
    BY <2>1, <2>2, <2>3, <2>4 DEF HandlerMove, Quiet
<1>2. step[w] # "build"
  BY DEF HandlerMove, Create, GetVolume, Clone, Resize, Delete, RefreshList, List, Ask,
         RefreshCopy, Convert, Converted, GetCopied, Stop, Start, At
<1>3. QED
  BY <1>0, <1>1, <1>2 DEF Solitude, Busy

(* The handler that moves is the one that is alone.                        *)
LEMMA MovePromise ==
  ASSUME Base, Writers, Solitude, NEW w \in Workers, HandlerMove(w), alone[w], Promise(w)
  PROVE  Promise(w)'
<1>0. /\ TypeOK /\ TInv /\ job' = job /\ Fits(step[w], job[w]) /\ job[w] \in Jobs
      /\ Busy' = Busy /\ w \in Busy /\ \A u \in Busy : u = w
      /\ Target(job[w]) \in Names /\ job[w].name \in Names
      /\ Workers \cap {"none", "building", "blank", "image", "torn"} = {}
      /\ NoName \notin Names
  BY MoveOf, TargetOf, NamesApart DEF Base, TInv, Control, Solitude
<1> DEFINE f == Target(job[w])
<1>a. Target(job[w])' = Target(job[w]) /\ job'[w] = job[w]
  BY <1>0
<1>b. step[w] # "build" => builds = {}
  BY <1>0 DEF Solitude
<1>1. CASE Create(w) \/ Clone(w)
  <2>1. PICK b \in Tasks : Builds(w, b)
    BY <1>0, <1>1, BuildsOf
  <2>2. step[w] \in {"create", "clone"}
    BY <1>1 DEF Create, Clone, At
  <2>3. builds' = {b} /\ step'[w] = "build" /\ b.to = f
    BY <1>b, <2>1, <2>2 DEF Builds
  <2>4. /\ files'[f].data = "building" /\ \A g \in Names \ {f} : files'[g] = files[g]
        /\ f \notin known
    BY <1>0, <2>1, FillsPresent DEF Builds
  <2>5. job[w].kind = "create" => b.from = NoName /\ b.size = job[w].size /\ ~b.torn
    BY <2>1 DEF Builds
  <2>6. ASSUME job[w].kind = "clone"
        PROVE  /\ b.from = job[w].name /\ b.size = files'[job[w].name].size
               /\ b.torn => files'[job[w].name].data = "torn"
    <3>1. /\ b.from = job[w].name /\ b.from \in known /\ b.size = files[b.from].size
          /\ b.torn => files[b.from].data \in Workers \cup {"torn"}
      BY <2>1, <2>6 DEF Builds
    <3>2. files'[b.from] = files[b.from]
      BY <1>0, <2>4, <3>1
    <3>3. files[b.from].data \notin Workers
      <4>1. SUFFICES ASSUME NEW u \in Workers, u = files[b.from].data PROVE FALSE
        OBVIOUS
      <4>2. step[u] = "converting"
        BY <1>0, <3>1, <4>1 DEF Writers
      <4>3. u = w
        BY <1>0, <4>2 DEF Busy
      <4>4. QED
        BY <2>2, <4>2, <4>3
    <3>4. QED
      BY <3>1, <3>2, <3>3
  <2>7. QED
    BY <1>a, <2>3, <2>4, <2>5, <2>6 DEF Promise
<1>2. CASE GetVolume(w) \/ RefreshList(w) \/ List(w) \/ Ask(w) \/ Stop(w) \/ Start(w)
  <2>1. /\ \E s : Goes(w, s) /\ s \in {"clone", "resize", "delete", "list", "ask", "respond"}
        /\ step[w] \in {"get_volume", "refresh_list", "list", "ask", "stop", "start"}
        /\ step'[w] = "respond" => step[w] \in {"list", "ask", "stop", "start"}
    BY <1>0, <1>2 DEF GetVolume, RefreshList, List, Ask, Stop, Start, At, Fits, Goes, TypeOK
  <2>2. step'[w] \in {"clone", "resize", "delete", "list", "ask", "respond"}
    BY <1>0, <2>1 DEF Goes, TypeOK
  <2>3. step'[w] = "respond" => job[w].kind \in {"list", "storages", "stop", "start"}
    BY <1>0, <2>1 DEF Fits, ListSteps
  <2>4. QED
    BY <1>a, <2>2, <2>3 DEF Promise
<1>3. CASE RefreshCopy(w)
  <2>1. /\ files' = files /\ known' = Present
        /\ \/ step[w] = "refresh_copy" /\ step'[w] = "convert"
           \/ step[w] = "refresh_copied" /\ step'[w] = "get_copied"
    BY <1>0, <1>3 DEF RefreshCopy, Goes, At, TypeOK
  <2>2. ASSUME step[w] = "refresh_copied"
        PROVE  files[f] = [size |-> job[w].size, data |-> "image"] /\ f \in Present
    <3>1. files[f] = [size |-> job[w].size, data |-> "image"]
      BY <2>2 DEF Promise
    <3>2. files[f].data = "image"
      BY <3>1
    <3>3. QED
      BY <1>0, <3>1, <3>2 DEF Present, NoFile
  <2>3. QED
    BY <1>a, <2>1, <2>2 DEF Promise
<1>4. CASE GetCopied(w)
  <2>1. /\ UNCHANGED <<files, known>> /\ step[w] = "get_copied" /\ step'[w] = "respond"
        /\ job[w].kind = "copy"
    BY <1>0, <1>4 DEF GetCopied, Goes, At, Same, TypeOK, Fits, CopySteps
  <2>2. QED
    BY <1>a, <2>1 DEF Promise
<1>5. CASE Resize(w)
  <2>1. PICK c : Fills(job[w].name, c) /\ c.size = job[w].size
    BY <1>5, ResizeOf
  <2>2. step'[w] = "respond" /\ job[w].kind = "resize"
    BY <1>5, ResizeOf
  <2>3. files'[job[w].name].size = job[w].size
    BY <1>0, <2>1, FillsPresent
  <2>4. QED
    BY <1>a, <2>2, <2>3 DEF Promise
<1>6. CASE Delete(w)
  <2>1. Empties(job[w].name) /\ step'[w] = "respond" /\ job[w].kind = "delete"
    BY <1>6, DeleteOf
  <2>2. job[w].name \notin Present'
    BY <1>0, <2>1, EmptiesPresent
  <2>3. QED
    BY <1>a, <2>1, <2>2 DEF Promise
<1>7. CASE Convert(w)
  <2>1. /\ Fills(f, [size |-> job[w].size, data |-> w]) /\ step'[w] = "converting"
    BY <1>0, <1>7, ConvertOf
  <2>2. files'[f] = [size |-> job[w].size, data |-> w]
    BY <1>0, <2>1, FillsPresent
  <2>3. QED
    BY <1>a, <2>1, <2>2 DEF Promise
<1>8. CASE Converted(w)
  <2>1. /\ step[w] = "converting" /\ step'[w] = "refresh_copied"
        /\ \/ Fills(f, [size |-> files[f].size, data |-> "image"])
           \/ files[f].data # w
    BY <1>8, ConvertedOf
  <2>2. files[f] = [size |-> job[w].size, data |-> w]
    BY <2>1 DEF Promise
  <2>3. files[f].size = job[w].size /\ files[f].data = w
    BY <2>2
  <2>4. files'[f] = [size |-> job[w].size, data |-> "image"]
    BY <1>0, <2>1, <2>3, FillsPresent
  <2>5. QED
    BY <1>a, <2>1, <2>4 DEF Promise
<1>9. QED
  BY <1>1, <1>2, <1>3, <1>4, <1>5, <1>6, <1>7, <1>8 DEF HandlerMove

(* The build of a handler that is alone is the only one.                   *)
LEMMA EndBuildKept ==
  ASSUME Base, Kept, NEW b \in builds, EndBuild(b)
  PROVE  Kept'
<1>0. /\ TypeOK /\ TInv /\ UNCHANGED <<job, alone>> /\ b \in Tasks /\ builds' = builds \ {b}
      /\ NoName \notin Names
  BY EndBuildOf, NamesApart DEF Base, TInv
<1>1. \A u \in Workers : step'[u] # "idle" <=> step[u] # "idle"
  BY EndBuildOf
<1>2. Busy' = Busy
  BY <1>1 DEF Busy
<1>3. ASSUME NEW u \in Busy, alone[u]
      PROVE  /\ \A v \in Busy : v = u
             /\ builds' = {} /\ Promise(u)'
  <2> DEFINE f == Target(job[u])
  <2>0. u \in Workers /\ job[u] \in Jobs /\ f \in Names /\ Fits(step[u], job[u])
        /\ Target(job[u])' = f /\ job'[u] = job[u]
    BY <1>0, TargetOf DEF Busy, TInv, Control, Fits
  <2>1. /\ \A v \in Busy : v = u
        /\ step[u] = "build" /\ Promise(u)
    BY <1>3 DEF Kept, Solitude, Promises
  <2>2. \A c \in builds : c.to = f
    BY <2>1 DEF Promise
  <2>3. builds' = {}
    BY <1>0, <2>2 DEF Base, Listed
  <2>4. /\ b.to = f /\ files[f].data = "building"
        /\ job[u].kind = "create" => b.from = NoName /\ b.size = job[u].size /\ ~b.torn
        /\ job[u].kind = "clone" =>
             /\ b.from = job[u].name /\ b.size = files[job[u].name].size
             /\ b.torn => files[job[u].name].data = "torn"
    BY <2>1 DEF Promise
  <2>5. /\ step'[u] = IF files'[f] = NoFile THEN "raise" ELSE "respond"
        /\ job[u].kind \in {"create", "clone"}
    BY <2>0, <2>1, <2>4, EndBuildOf DEF Fits
  <2>6. CASE Empties(b.to)
    <3>1. step'[u] = "raise"
      BY <1>0, <2>4, <2>5, <2>6, EmptiesPresent
    <3>2. QED
      BY <2>1, <2>3, <3>1 DEF Promise
  <2>7. CASE Fills(b.to, [size |-> b.size,
                      data |-> IF b.torn \/ files[b.to].data # "building" THEN "torn"
                               ELSE IF b.from = NoName THEN "blank"
                                              ELSE files[b.from].data])
    <3>1. PICK d : d = IF b.torn \/ files[b.to].data # "building" THEN "torn"
                               ELSE IF b.from = NoName THEN "blank"
                                              ELSE files[b.from].data
      OBVIOUS
    <3>2. files'[f] = [size |-> b.size, data |-> d]
          /\ \A g \in Names \ {f} : files'[g] = files[g]
      <4>1. Fills(f, [size |-> b.size, data |-> d])
        BY <2>4, <2>7, <3>1
      <4>2. QED
        BY <1>0, <4>1, FillsPresent
    <3>3. step'[u] \in {"raise", "respond"}
      BY <2>5
    <3>4. ASSUME job[u].kind = "create"
          PROVE  files'[f] = [size |-> job[u].size, data |-> "blank"]
      BY <2>4, <3>1, <3>2, <3>4
    <3>5. ASSUME job[u].kind = "clone" PROVE files'[f] = files'[job[u].name]
      <4>1. b.from = job[u].name /\ b.from \in Names
        BY <1>0, <2>0, <2>4, <3>5, TargetOf
      <4>2. b.from # f /\ files[b.from] # NoFile
        BY <1>0, <2>4, <4>1 DEF Base, Listed, Building, Present
      <4>3. files'[b.from] = files[b.from] /\ files[b.from] \in [size : Nat, data : Workers \cup Written]
        BY <1>0, <3>2, <4>1, <4>2 DEF TypeOK
      <4>4. d = files[b.from].data
        BY <1>0, <2>4, <3>1, <3>5, <4>1
      <4>5. b.size = files[b.from].size
        BY <2>4, <3>5
      <4>6. QED
        BY <3>2, <4>1, <4>3, <4>4, <4>5
    <3>6. Promise(u)'
      BY <2>0, <2>5, <3>3, <3>4, <3>5 DEF Promise
    <3>7. QED
      BY <2>1, <2>3, <3>6
  <2>8. QED
    BY <2>6, <2>7, EndBuildOf
<1>4. QED
  BY <1>0, <1>2, <1>3 DEF Kept, Solitude, Promises

LEMMA RequestKept ==
  ASSUME Base, Kept, NEW w \in Workers, NEW j \in Jobs, Request(w, j)
  PROVE  Kept'
<1>1. /\ builds' = builds /\ step'[w] \in {"create", "get_volume", "refresh_list",
                                           "refresh_copy", "stop", "start"}
      /\ Busy' = Busy \cup {w}
  BY FirstOf DEF Request, Busy, Base, TInv, TypeOK
<1>2. \A u \in Busy' : alone'[u] => Busy = {} /\ builds = {}
  <2>1. alone' = [u \in Workers |-> IF u \in Busy \cup {w}
                                    THEN Busy = {} /\ builds = {} ELSE TRUE]
    BY DEF Request
  <2>2. \A u \in Busy' : u \in Workers /\ u \in Busy \cup {w}
    BY <1>1 DEF Busy
  <2>3. \A u \in Busy' : alone'[u] = (Busy = {} /\ builds = {})
    BY <2>1, <2>2
  <2>4. QED
    BY <2>3
<1>3. \A u \in Busy' : alone'[u] => u = w /\ (\A v \in Busy' : v = w) /\ builds' = {}
  BY <1>1, <1>2
<1>4. Promise(w)'
  BY <1>1 DEF Promise
<1>5. QED
  BY <1>3, <1>4 DEF Kept, Solitude, Promises

LEMMA EndsKept ==
  ASSUME Base, Kept, NEW W \in SUBSET Workers, NEW D, Ended(W, D)
  PROVE  Kept'
<1>1. /\ Busy' = Busy \ W /\ alone' = alone /\ W \subseteq Busy
      /\ \A u \in Busy \ W : step'[u] = step[u] /\ job'[u] = job[u]
  BY DEF Ended, Forget, Busy
<1>2. ASSUME NEW u \in Busy', alone[u]
      PROVE  /\ \A v \in Busy' : v = u
             /\ step'[u] # "build" => builds' = {}
             /\ Promise(u)'
  <2>1. /\ \A v \in Busy : v = u
        /\ step[u] # "build" => builds = {}
        /\ Promise(u) /\ u \notin W /\ u \in Busy
    BY <1>1, <1>2 DEF Kept, Solitude, Promises
  <2>2. W = {} /\ W # Busy
    BY <1>1, <2>1
  <2>3. UNCHANGED <<active, known, builds>> /\ D = {}
    BY <2>2 DEF Ended
  <2>4. \A f \in Names : files'[f] = files[f]
    BY <2>3, EndsTInv DEF Base
  <2>5. /\ job[u] \in Jobs /\ Target(job[u]) \in Names /\ job[u].name \in Names
        /\ step'[u] = step[u] /\ job'[u] = job[u]
    BY <1>1, <2>1, TargetOf DEF Base, TInv, Control, Fits, Busy
  <2>6. Target(job[u])' = Target(job[u])
    BY <2>5 DEF Target
  <2>7. job[u].name \in Present' <=> job[u].name \in Present
    BY <2>4, <2>5 DEF Present
  <2>8. Promise(u)'
    BY <2>1, <2>3, <2>4, <2>5, <2>6, <2>7 DEF Promise
  <2>9. QED
    BY <1>1, <2>1, <2>3, <2>5, <2>8
<1>3. QED
  BY <1>1, <1>2 DEF Kept, Solitude, Promises

LEMMA InitKept == Init => Kept
  BY DEF Init, Kept, Solitude, Promises, Busy

LEMMA NextKept == Base /\ Record /\ Kept /\ [Next]_volumeVars => Kept'
<1> SUFFICES ASSUME Base, Record, Kept, [Next]_volumeVars PROVE Kept'
  OBVIOUS
<1>0. TypeOK /\ Writers /\ Solitude /\ Promises
  BY DEF Base, TInv, Record, Kept
<1>1. ASSUME NEW w \in Workers, HandlerMove(w) PROVE Kept'
  <2>1. Solitude'
    BY <1>0, <1>1, MoveSolitude
  <2>2. /\ alone' = alone /\ Busy' = Busy /\ w \in Busy
    BY <1>1, MoveOf DEF Base
  <2>3. \A u \in Busy : alone[u] => u = w /\ Promise(w)
    BY <1>0, <2>2 DEF Solitude, Promises
  <2>4. ASSUME NEW u \in Busy', alone'[u] PROVE Promise(u)'
    <3>1. u = w /\ Promise(w) /\ alone[w]
      BY <2>2, <2>3, <2>4
    <3>2. Promise(w)'
      BY <1>0, <1>1, <3>1, MovePromise
    <3>3. QED
      BY <3>1, <3>2
  <2>5. QED
    BY <2>1, <2>4 DEF Kept, Promises
<1>2. CASE UNCHANGED volumeVars
  <2>1. Busy' = Busy /\ Present' = Present /\ UNCHANGED <<alone, builds, step>>
    BY <1>2 DEF volumeVars, Busy, Present
  <2>2. \A u \in Busy : Promise(u) => Promise(u)'
    BY <1>2, <2>1 DEF volumeVars, Promise
  <2>3. QED
    BY <1>0, <2>1, <2>2 DEF Kept, Solitude, Promises
<1>3. QED
  BY <1>0, <1>1, <1>2, EndBuildKept, RequestKept, EndsKept, Steppings

(* For any number of handlers: a handler that had the pool to itself and   *)
(* answers with success has made, cloned, resized, deleted or copied the   *)
(* volume as it was asked to.                                              *)
THEOREM AnswersTrue == Spec => []VolumeDone
<1>1. Base /\ Kept => VolumeDone
  <2> SUFFICES ASSUME Base, Kept, NEW w \in Workers, step[w] = "respond", alone[w], NEW j, j = job[w]
      PROVE  CASE j.kind = "create" -> files[WithImg(j.name)] = [size |-> j.size, data |-> "blank"]
               [] j.kind = "clone"  -> files[WithImg(j.to)] = files[j.name]
               [] j.kind = "resize" -> files[j.name].size = j.size
               [] j.kind = "delete" -> j.name \notin Present
               [] j.kind = "copy"   -> /\ files[Image(j.name)] = [size |-> j.size, data |-> "image"]
                                       /\ Image(j.name) \in known
               [] OTHER             -> TRUE
    BY DEF VolumeDone, At
  <2>1. w \in Busy /\ j \in Jobs /\ Promise(w)
    BY DEF Kept, Promises, Busy, Base, TInv, Control, Fits
  <2>2. /\ j.kind = "create" => Target(j) = WithImg(j.name)
        /\ j.kind = "clone" => Target(j) = WithImg(j.to)
        /\ j.kind = "copy" => Target(j) = Image(j.name)
    BY <2>1, TargetOf
  <2>3. /\ j.kind = "create" => files[Target(j)] = [size |-> j.size, data |-> "blank"]
        /\ j.kind = "clone" => files[Target(j)] = files[j.name]
        /\ j.kind = "resize" => files[j.name].size = j.size
        /\ j.kind = "delete" => j.name \notin Present
        /\ j.kind = "copy" => /\ files[Target(j)] = [size |-> j.size, data |-> "image"]
                              /\ Target(j) \in known
    BY <2>1 DEF Promise
  <2>4. QED
    BY <2>2, <2>3
<1>2. QED
  BY <1>1, InitBase, NextBase, InitRecord, NextRecord, InitKept, NextKept, PTL DEF Spec

(* For any handlers, names and requests: the variables keep their types,   *)
(* every handler is at a call of the request it serves, libvirt lists only *)
(* volumes that exist, and builds none it does not list.                   *)
THEOREM TypeCorrect == Spec => [](TypeOK /\ Control /\ Listed)
<1>1. Base => TypeOK /\ Control /\ Listed
  BY DEF Base, TInv
<1>2. QED
  BY <1>1, InitBase, NextBase, PTL DEF Spec
=============================================================================
