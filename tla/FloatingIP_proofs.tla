-------------------------- MODULE FloatingIP_proofs --------------------------
(***************************************************************************)
(* Proofs about the module FloatingIP: its handlers use the state file as  *)
(* the module StateFile says, hence what is proved there of the state file *)
(* holds for them.                                                         *)
(***************************************************************************)
EXTENDS FloatingIP, StateFile_proofs

(* What each step of a floating IP handler is for the state file: a step   *)
(* of StateFile or none at all.                                            *)
LEMMA FipStepImplements ==
  ASSUME NEW w \in Workers, FipStep(w) \/ NMRefreshes(w)
  PROVE  Next \/ UNCHANGED stateFileVars
<1>1. CASE NMRefreshes(w)
  BY <1>1 DEF NMRefreshes
<1>2. CASE Iface(w) \/ CommitFails(w) \/ UndoIface(w) \/ UndoCommit(w) \/ Answer(w)
  BY <1>2 DEF Iface, CommitFails, UndoIface, UndoCommit, Answer
<1>3. CASE Commit(w)
  BY <1>3 DEF Commit, Next, Clients
<1>4. CASE Wait(w)
  BY <1>4 DEF Wait, Next, Step
<1>5. CASE Enter(w) \/ Work(w) \/ Unset(w)
  BY <1>5 DEF Enter, Work, Unset, Next, Step
<1>6. CASE Check(w) \/ Apply(w) \/ CommandFails(w)
               \/ QueryXML(w)
  BY <1>6 DEF Check, Apply, CommandFails, QueryXML, StayInside, NothingToDo, Next, Step
<1>7. CASE ChangeXML(w) \/ DBusFails(w) \/ GetSettings(w) \/ Update(w)
  BY <1>7 DEF ChangeXML, DBusFails, GetSettings, Update, StayInside, Next, Step
<1>8. QED
  BY <1>1, <1>2, <1>3, <1>4, <1>5, <1>6, <1>7 DEF FipStep

LEMMA FipNextImplements == FipNext => Next \/ UNCHANGED stateFileVars
<1> SUFFICES ASSUME FipNext PROVE Next \/ UNCHANGED stateFileVars
  OBVIOUS
<1>1. CASE \E w \in Workers, j \in Jobs : Arrive(w, j)
  BY <1>1 DEF Arrive, Next, Clients
<1>2. CASE \E w \in Workers : FipStep(w) \/ NMRefreshes(w)
  BY <1>2, FipStepImplements
<1>3. CASE FipCrash
  BY <1>3 DEF FipCrash, Next
<1>4. CASE FipReboot
  BY <1>4 DEF FipReboot, Next
<1>5. QED
  BY <1>1, <1>2, <1>3, <1>4 DEF FipNext

(* Every behaviour of the floating IP handlers, together with FirewallMgr  *)
(* handlers, is a behaviour of the state file (FwRedirect's is_locked(),   *)
(* set_state() and unset_state() are used as StateFile describes).         *)
THEOREM FloatingIPImplementsStateFile == FipSpec => Spec
<1>1. FipInit => Init
  BY DEF FipInit
<1>2. [FipNext]_floatingIPVars => [Next]_stateFileVars
  <2> SUFFICES ASSUME [FipNext]_floatingIPVars PROVE [Next]_stateFileVars
    OBVIOUS
  <2>1. CASE FipNext
    BY <2>1, FipNextImplements
  <2>2. CASE UNCHANGED floatingIPVars
    BY <2>2 DEF floatingIPVars
  <2>3. QED
    BY <2>1, <2>2
<1>3. QED
  BY <1>1, <1>2, PTL DEF FipSpec, Spec

(* Unless one of them was admitted by a read taken while another was       *)
(* writing the state file, at most one handler at a time changes the NAT   *)
(* rules and firewalld's configuration.                                    *)
THEOREM FloatingIPExclusion == FipSpec => []ExclusiveUnlessRaced
  BY FloatingIPImplementsStateFile, Exclusion, PTL

-----------------------------------------------------------------------------
(* Where a handler is, for the state file and in its own code.             *)
Attaches(w) == job[w].kind = "attach"
Unsetting == {"unset_open", "unset_close"}
Stages == {"idle", "lock", "unset"} \cup Ifaces \cup Inside \cup Ends

Placed(w) ==
  /\ stage[w] = "idle" <=> job[w] = NoJob
  /\ stage[w] \in Inside <=> pc[w] = "inside"
  /\ stage[w] = "unset" <=> pc[w] \in Unsetting
  /\ stage[w] = "lock" <=> pc[w] \notin {"idle", "inside"} \cup Unsetting
  /\ stage[w] = "work" => IsFirewall(w)
  /\ stage[w] \in Ifaces \cup (Inside \ {"work"}) \cup {"refused"} => ~IsFirewall(w)

Redirects == Addresses \X Fixed

FipTyped ==
  /\ TypeOK
  /\ device \in SUBSET Addresses /\ profile \in SUBSET Addresses
  /\ nat \in SUBSET Redirects /\ xml \in SUBSET Redirects
  /\ job \in [Workers -> Jobs \cup {NoJob}]
  /\ stage \in [Workers -> Stages]
  /\ view \in [Workers -> [device : SUBSET Addresses, profile : SUBSET Addresses]]
  /\ snap \in [Workers -> SUBSET Redirects]
  /\ met \in [Workers -> SUBSET Addresses]
  /\ agreed \in [Addresses -> {"all", "live", "iface", "no"}]
  /\ fixed \in [Addresses -> Fixed \cup {"none"}]
  /\ astray \in SUBSET Addresses
  /\ \A w \in Workers : Placed(w)

(* What a job asks for.                                                    *)
LEMMA JobParts ==
  ASSUME FipTyped, NEW w \in Workers, stage[w] # "idle"
  PROVE  /\ job[w] \in Jobs
         /\ ~IsFirewall(w) => /\ job[w].kind \in {"attach", "detach"}
                               /\ job[w].a \in Addresses /\ job[w].f \in Fixed
                               /\ Rule(w) \in Redirects
         /\ w \in Busy
         /\ w \in Floating <=> ~IsFirewall(w)
  BY JobsAssumption DEF FipTyped, Placed, IsFirewall, NoJob, Busy, Floating, Rule, Redirects

LEMMA WithSet ==
  ASSUME FipTyped, NEW w \in Workers, stage[w] # "idle", ~IsFirewall(w), NEW S \in SUBSET Addresses
  PROVE  /\ With(w, S) \in SUBSET Addresses /\ Without(w, S) \in SUBSET Addresses
         /\ job[w].a \in With(w, S) <=> Attaches(w)
         /\ job[w].a \in Without(w, S) <=> ~Attaches(w)
         /\ With(w, S) = S <=> (job[w].a \in S <=> Attaches(w))
         /\ Without(w, S) = S <=> (job[w].a \in S <=> ~Attaches(w))
         /\ \A a \in Addresses : a # job[w].a => /\ a \in With(w, S) <=> a \in S
                                                 /\ a \in Without(w, S) <=> a \in S
<1>1. job[w].a \in Addresses
  BY JobParts
<1>2. CASE Attaches(w)
  BY <1>1, <1>2 DEF With, Without, Attaches
<1>3. CASE ~Attaches(w)
  BY <1>1, <1>3 DEF With, Without, Attaches
<1>4. QED
  BY <1>2, <1>3

LEMMA WithRuleSet ==
  ASSUME FipTyped, NEW w \in Workers, stage[w] # "idle", ~IsFirewall(w), NEW S \in SUBSET Redirects
  PROVE  /\ WithRule(w, S) \in SUBSET Redirects
         /\ Rule(w) \in WithRule(w, S) <=> Attaches(w)
         /\ WithRule(w, S) = S <=> (Rule(w) \in S <=> Attaches(w))
         /\ \A r \in Redirects : r # Rule(w) => (r \in WithRule(w, S) <=> r \in S)
<1>1. Rule(w) \in Redirects
  BY JobParts
<1>2. CASE Attaches(w)
  BY <1>1, <1>2 DEF WithRule, Attaches
<1>3. CASE ~Attaches(w)
  BY <1>1, <1>3 DEF WithRule, Attaches
<1>4. QED
  BY <1>2, <1>3

(* What one step of a handler may touch: its own progress, its own address *)
(* on the bridge and in the rules, and in the connection and in            *)
(* firewalld's configuration what it writes back as a whole.               *)
Steps1(w) == FipStep(w) \/ NMRefreshes(w)

OthersSame(w) ==
  \A u \in Workers : u # w =>
    /\ job'[u] = job[u] /\ stage'[u] = stage[u] /\ view'[u] = view[u]
    /\ snap'[u] = snap[u] /\ met'[u] = met[u] /\ pc'[u] = pc[u]

LEMMA FileOthers ==
  ASSUME TypeOK, NEW w \in Workers, Step(w) \/ (\E c \in Clients : Request(w, c))
  PROVE  \A u \in Workers : u # w => pc'[u] = pc[u]
  BY DEF Step, Request, FirstRead, Admitted, Sleep, LoopRead, ScrubOpen, SetOpen, UnsetOpen, Open,
     ScrubClose, SetClose, Finish, Abandon, UnsetClose, LeaveEngaged, GoTo, TypeOK

LEMMA StepOthers ==
  ASSUME FipTyped, NEW w \in Workers, Steps1(w)
  PROVE  OthersSame(w)
<1>1. TypeOK /\ job \in [Workers -> Jobs \cup {NoJob}] /\ stage \in [Workers -> Stages]
      /\ view \in [Workers -> [device : SUBSET Addresses, profile : SUBSET Addresses]]
      /\ snap \in [Workers -> SUBSET Redirects] /\ met \in [Workers -> SUBSET Addresses]
  BY DEF FipTyped
<1>2. \A u \in Workers : u # w => pc'[u] = pc[u]
  <2>1. \/ Step(w) \/ (\E c \in Clients : Request(w, c)) \/ UNCHANGED stateFileVars
    BY DEF Steps1, FipStep, NMRefreshes, Iface, Commit, CommitFails, Wait, Enter, Work, Check,
           Apply, CommandFails, QueryXML, ChangeXML, DBusFails, GetSettings, Update, Unset, UndoIface,
           UndoCommit, Answer, NothingToDo, StayInside, Step, Clients
  <2>2. QED
    BY <1>1, <2>1, FileOthers DEF stateFileVars
<1>3. \A u \in Workers : u # w => stage'[u] = stage[u]
  BY <1>1 DEF Steps1, FipStep, NMRefreshes, Iface, Commit, CommitFails, Wait, Enter, Work, Check,
           Apply, CommandFails, QueryXML, ChangeXML, DBusFails, GetSettings, Update, Unset, UndoIface,
           UndoCommit, Answer, NothingToDo, StayInside, GoOn, Idle
<1>4. \A u \in Workers : u # w => job'[u] = job[u] /\ met'[u] = met[u]
  BY <1>1 DEF Steps1, FipStep, NMRefreshes, Iface, Commit, CommitFails, Wait, Enter, Work, Check,
           Apply, CommandFails, QueryXML, ChangeXML, DBusFails, GetSettings, Update, Unset, UndoIface,
           UndoCommit, Answer, Keep, Idle
<1>5. \A u \in Workers : u # w => view'[u] = view[u] /\ snap'[u] = snap[u]
  BY <1>1 DEF Steps1, FipStep, NMRefreshes, Iface, Commit, CommitFails, Wait, Enter, Work, Check,
           Apply, CommandFails, QueryXML, ChangeXML, DBusFails, GetSettings, Update, Unset, UndoIface,
           UndoCommit, Answer, Idle
<1>6. QED
  BY <1>2, <1>3, <1>4, <1>5 DEF OthersSame

(* Where the state file's steps lead.                                      *)
LEMMA FileMoves ==
  ASSUME TypeOK, NEW w \in Workers
  PROVE  /\ FirstRead(w) \/ LoopRead(w) \/ ScrubOpen(w) \/ ScrubClose(w) \/ SetOpen(w)
              => pc'[w] \notin {"idle", "inside"} \cup Unsetting
         /\ Sleep(w) => pc'[w] \in {"idle", "loop_read"}
         /\ SetClose(w) => pc'[w] = "inside"
         /\ Finish(w) => pc'[w] = "unset_open"
         /\ Abandon(w) => pc[w] = "inside" /\ pc'[w] = "idle"
         /\ UnsetOpen(w) => pc[w] = "unset_open" /\ pc'[w] = "unset_close"
         /\ UnsetClose(w) => pc[w] = "unset_close" /\ pc'[w] = "idle"
         /\ \A c \in Clients : Request(w, c) => pc'[w] = "first_read"
  BY DEF TypeOK, FirstRead, Admitted, LoopRead, ScrubOpen, ScrubClose, SetOpen, SetClose, Sleep,
     Open, Finish, Abandon, UnsetOpen, UnsetClose, Request, LeaveEngaged, GoTo, Unsetting

(* A step but the last leaves the handler its job.                         *)
LEMMA PlacedStep ==
  ASSUME FipTyped, TypeOK', NEW w \in Workers, Steps1(w)
  PROVE  Placed(w)'
<1>1. TypeOK /\ job \in [Workers -> Jobs \cup {NoJob}] /\ stage \in [Workers -> Stages]
      /\ Placed(w)
  BY DEF FipTyped
<1> USE DEF Stages, Ifaces, Inside, Ends, Unsetting, Placed, At, GoOn
<1>2. CASE NMRefreshes(w)
  BY <1>1, <1>2 DEF NMRefreshes, Keep, IsFirewall, stateFileVars
<1>3. CASE Iface(w) \/ CommitFails(w) \/ UndoIface(w) \/ UndoCommit(w)
  BY <1>1, <1>3 DEF Iface, CommitFails, UndoIface, UndoCommit, Keep, stateFileVars, IsFirewall
<1>4. CASE Commit(w)
  <2>1. pc'[w] = "first_read"
    BY <1>1, <1>4, FileMoves DEF Commit, Clients
  <2>2. job' = job /\ stage' = [stage EXCEPT ![w] = "lock"] /\ stage[w] = "commit"
    BY <1>4 DEF Commit, Keep
  <2>3. QED
    BY <1>1, <2>1, <2>2 DEF IsFirewall
<1>5. CASE Wait(w)
  <2>1. job' = job /\ stage[w] = "lock"
    BY <1>5 DEF Wait, Keep
  <2>2. CASE stage' = stage /\ pc'[w] \notin {"idle", "inside"} \cup Unsetting
    BY <1>1, <2>1, <2>2 DEF IsFirewall
  <2>3. CASE Sleep(w) /\ stage' = IF pc'[w] # "idle" THEN stage
                    ELSE [stage EXCEPT ![w] = IF IsFirewall(w) THEN "rejected"
                                              ELSE "undo_iface"]
    <3>1. pc'[w] \in {"idle", "loop_read"}
      BY <1>1, <2>3, FileMoves
    <3>2. CASE pc'[w] # "idle"
      BY <1>1, <2>1, <2>3, <3>1, <3>2 DEF IsFirewall
    <3>3. CASE pc'[w] = "idle" /\ IsFirewall(w)
      BY <1>1, <2>1, <2>3, <3>3 DEF IsFirewall
    <3>4. CASE pc'[w] = "idle" /\ ~IsFirewall(w)
      BY <1>1, <2>1, <2>3, <3>4 DEF IsFirewall
    <3>5. QED
      BY <3>2, <3>3, <3>4
  <2>4. QED
    BY <1>1, <1>5, <2>2, <2>3, FileMoves DEF Wait
<1>6. CASE Enter(w)
  <2>1. pc'[w] = "inside" /\ job' = job
    BY <1>1, <1>6, FileMoves DEF Enter, Keep
  <2>2. CASE IsFirewall(w)
    BY <1>1, <1>6, <2>1, <2>2 DEF Enter, IsFirewall
  <2>3. CASE ~IsFirewall(w)
    BY <1>1, <1>6, <2>1, <2>3 DEF Enter, IsFirewall
  <2>4. QED
    BY <2>2, <2>3
<1>7. CASE Work(w)
  BY <1>1, <1>7, FileMoves DEF Work, Keep, IsFirewall
<1>8. CASE Check(w) \/ Apply(w) \/ CommandFails(w) \/ QueryXML(w) \/ ChangeXML(w)
           \/ GetSettings(w)
  <2>1. /\ job' = job /\ stage[w] \in Inside \ {"work", "update"}
        /\ \/ /\ \E s \in Ends : stage' = [stage EXCEPT ![w] = s]
              /\ Abandon(w)
           \/ /\ \E s \in Inside \ {"work"} : stage' = [stage EXCEPT ![w] = s]
              /\ UNCHANGED stateFileVars
    BY <1>8 DEF Check, Apply, CommandFails, QueryXML, ChangeXML, GetSettings, StayInside,
       NothingToDo, AfterQuery, Keep
  <2>2. QED
    BY <1>1, <2>1, FileMoves DEF stateFileVars, IsFirewall
<1>9. CASE DBusFails(w)
  BY <1>1, <1>9, FileMoves DEF DBusFails, Keep, IsFirewall
<1>10. CASE Update(w)
  BY <1>1, <1>10, FileMoves DEF Update, Keep, IsFirewall
<1>11. CASE Unset(w)
  BY <1>1, <1>11, FileMoves DEF Unset, Keep, IsFirewall
<1>12. CASE Answer(w)
  BY <1>1, <1>12 DEF Answer, Idle, stateFileVars, IsFirewall, NoJob
<1>13. QED
  BY <1>2, <1>3, <1>4, <1>5, <1>6, <1>7, <1>8, <1>9, <1>10, <1>11, <1>12 DEF Steps1, FipStep

(* Only the step past the bridge touches the histories of the fixed        *)
(* addresses.                                                              *)
LEMMA FixedStep ==
  ASSUME NEW w \in Workers, Steps1(w)
  PROVE  \/ UNCHANGED <<fixed, astray>>
         \/ Iface(w) /\ stage' = [stage EXCEPT ![w] = "commit"] /\ Recorded(w)
            /\ With(w, device) # device
<1>1. CASE Iface(w)
  BY <1>1 DEF Iface, GoOn
<1>2. CASE ~Iface(w)
  BY <1>2 DEF Steps1, FipStep, NMRefreshes, Commit, CommitFails, Wait, Enter, Work, Check,
     Apply, CommandFails, QueryXML, ChangeXML, DBusFails, GetSettings, Update, Unset, UndoIface,
     UndoCommit, Answer, Keep
<1>3. QED
  BY <1>1, <1>2

LEMMA TypedStep ==
  ASSUME FipTyped, TypeOK', NEW w \in Workers, Steps1(w)
  PROVE  FipTyped'
<1>1. /\ TypeOK
      /\ device \in SUBSET Addresses /\ profile \in SUBSET Addresses
      /\ nat \in SUBSET Redirects /\ xml \in SUBSET Redirects
      /\ job \in [Workers -> Jobs \cup {NoJob}]
      /\ stage \in [Workers -> Stages]
      /\ view \in [Workers -> [device : SUBSET Addresses, profile : SUBSET Addresses]]
      /\ snap \in [Workers -> SUBSET Redirects]
      /\ met \in [Workers -> SUBSET Addresses]
      /\ agreed \in [Addresses -> {"all", "live", "iface", "no"}]
      /\ fixed \in [Addresses -> Fixed \cup {"none"}] /\ astray \in SUBSET Addresses
      /\ \A u \in Workers : Placed(u)
  BY DEF FipTyped
<1>2. OthersSame(w) /\ Placed(w)'
  BY StepOthers, PlacedStep
<1>3. \A u \in Workers : u # w => Placed(u)'
  BY <1>1, <1>2 DEF OthersSame, Placed, IsFirewall
<1>4. stage' \in [Workers -> Stages]
  BY <1>1 DEF Steps1, FipStep, NMRefreshes, Iface, Commit, CommitFails, Wait, Enter, Work, Check,
       Apply, CommandFails, QueryXML, ChangeXML, DBusFails, GetSettings, Update, Unset, UndoIface,
       UndoCommit, Answer, NothingToDo, StayInside, AfterQuery, GoOn, Idle, At, Stages, Ifaces,
       Inside, Ends
<1>5. job' \in [Workers -> Jobs \cup {NoJob}] /\ met' \in [Workers -> SUBSET Addresses]
      /\ agreed' \in [Addresses -> {"all", "live", "iface", "no"}]
  <2>1. CASE Answer(w)
    <3>1. job' \in [Workers -> Jobs \cup {NoJob}] /\ met' \in [Workers -> SUBSET Addresses]
      BY <1>1, <2>1 DEF Answer, Idle
    <3>2. CASE IsFirewall(w)
      BY <1>1, <2>1, <3>1, <3>2 DEF Answer
    <3>3. CASE ~IsFirewall(w)
      <4>1. job[w].a \in Addresses
        BY <1>1, <2>1, <3>3, JobParts DEF Answer
      <4>2. Outcome(w) \in {"all", "live", "iface", "no"}
        BY <1>1, <4>1 DEF Outcome
      <4>3. QED
        BY <1>1, <2>1, <3>1, <3>3, <4>2 DEF Answer
    <3>4. QED
      BY <3>2, <3>3
  <2>2. CASE ~Answer(w)
    <3>1. job' = job /\ met' = met /\ agreed' = agreed
      BY <2>2 DEF Steps1, FipStep, NMRefreshes, Iface, Commit, CommitFails, Wait, Enter, Work, Check,
         Apply, CommandFails, QueryXML, ChangeXML, DBusFails, GetSettings, Update, Unset, UndoIface,
         UndoCommit, Keep
    <3>2. QED
      BY <1>1, <3>1
  <2>3. QED
    BY <2>1, <2>2
<1>6. device' \in SUBSET Addresses /\ profile' \in SUBSET Addresses
      /\ nat' \in SUBSET Redirects /\ xml' \in SUBSET Redirects
      /\ view' \in [Workers -> [device : SUBSET Addresses, profile : SUBSET Addresses]]
      /\ snap' \in [Workers -> SUBSET Redirects]
  <2>1. CASE Iface(w) \/ Commit(w) \/ Apply(w) \/ ChangeXML(w) \/ UndoIface(w) \/ UndoCommit(w)
    <3>1. stage[w] # "idle" /\ ~IsFirewall(w)
      BY <1>1, <2>1 DEF Iface, Commit, Apply, ChangeXML, UndoIface, UndoCommit, At, Placed,
         Ifaces, Inside
    <3>2. view[w].profile \in SUBSET Addresses
      BY <1>1
    <3>3. /\ \A S \in SUBSET Addresses : With(w, S) \in SUBSET Addresses
                                         /\ Without(w, S) \in SUBSET Addresses
          /\ \A S \in SUBSET Redirects : WithRule(w, S) \in SUBSET Redirects
      BY <3>1, WithSet, WithRuleSet
    <3>4. CASE Iface(w)
      BY <1>1, <3>3, <3>4 DEF Iface
    <3>5. CASE Commit(w)
      BY SMTT(30), <1>1, <3>2, <3>3, <3>5 DEF Commit
    <3>6. CASE Apply(w) \/ ChangeXML(w)
      BY <1>1, <3>3, <3>6 DEF Apply, ChangeXML
    <3>7. CASE UndoIface(w)
      BY <1>1, <3>3, <3>7 DEF UndoIface
    <3>8. CASE UndoCommit(w)
      BY <1>1, <3>2, <3>3, <3>8 DEF UndoCommit
    <3>9. QED
      BY <2>1, <3>4, <3>5, <3>6, <3>7, <3>8
  <2>2. CASE Answer(w)
    BY <1>1, <2>2 DEF Answer, Idle, NoView, hostVars
  <2>n. CASE NMRefreshes(w)
    BY <1>1, <2>n DEF NMRefreshes, hostVars
  <2>g. CASE GetSettings(w) \/ Update(w)
    BY <1>1, <2>g DEF GetSettings, Update, hostVars
  <2>e. CASE Enter(w)
    BY <1>1, <2>e DEF Enter, NoView, hostVars
  <2>3. CASE CommitFails(w) \/ Wait(w) \/ Work(w) \/ Check(w) \/ CommandFails(w)
             \/ QueryXML(w) \/ DBusFails(w) \/ Unset(w)
    BY <1>1, <2>3 DEF CommitFails, Wait, Work, Check, CommandFails, QueryXML, DBusFails, Unset,
       hostVars
  <2>4. QED
    BY <2>1, <2>2, <2>n, <2>e, <2>g, <2>3 DEF Steps1, FipStep
<1>7. fixed' \in [Addresses -> Fixed \cup {"none"}] /\ astray' \in SUBSET Addresses
  <2>1. CASE UNCHANGED <<fixed, astray>>
    BY <1>1, <2>1
  <2>2. CASE Iface(w) /\ Recorded(w)
    <3>1. job[w].a \in Addresses /\ job[w].f \in Fixed
      BY <1>1, <2>2, JobParts DEF Iface, At, Placed, Ifaces
    <3>2. QED
      BY <1>1, <2>2, <3>1 DEF Recorded
  <2>3. QED
    BY <2>1, <2>2, FixedStep
<1>8. QED
  BY <1>2, <1>3, <1>4, <1>5, <1>6, <1>7 DEF FipTyped

LEMMA ArriveTyped ==
  ASSUME FipTyped, TypeOK', NEW w \in Workers, NEW j \in Jobs, Arrive(w, j)
  PROVE  /\ FipTyped'
         /\ \A u \in Workers : u # w => /\ job'[u] = job[u] /\ stage'[u] = stage[u]
                                        /\ view'[u] = view[u] /\ pc'[u] = pc[u]
         /\ job'[w] = j /\ stage'[w] \in {"lock", "iface"}
         /\ snap' = snap /\ device' = device /\ profile' = profile /\ nat' = nat /\ xml' = xml
         /\ agreed' = agreed /\ fixed' = fixed /\ astray' = astray
<1>1. /\ TypeOK /\ stage[w] = "idle" /\ pc[w] = "idle"
      /\ device \in SUBSET Addresses /\ profile \in SUBSET Addresses
      /\ job \in [Workers -> Jobs \cup {NoJob}]
      /\ stage \in [Workers -> Stages]
      /\ view \in [Workers -> [device : SUBSET Addresses, profile : SUBSET Addresses]]
      /\ met \in [Workers -> SUBSET Addresses]
      /\ \A u \in Workers : Placed(u)
  BY DEF FipTyped, Arrive, Placed, Inside, Unsetting, TypeOK, Steps
<1>2. /\ snap' = snap /\ device' = device /\ profile' = profile /\ nat' = nat /\ xml' = xml
      /\ agreed' = agreed /\ job' = [job EXCEPT ![w] = j] /\ fixed' = fixed /\ astray' = astray
  BY DEF Arrive, hostVars
<1>3. job' \in [Workers -> Jobs \cup {NoJob}] /\ job'[w] = j
      /\ \A u \in Workers : u # w => job'[u] = job[u]
  BY <1>1, <1>2
<1>4. j # NoJob
  BY JobsAssumption DEF NoJob
<1>5. CASE j.kind = "firewall"
  <2>1. Request(w, "mgr") /\ stage' = [stage EXCEPT ![w] = "lock"] /\ view' = view /\ met' = met
    BY <1>5 DEF Arrive, GoOn
  <2>2. pc'[w] = "first_read" /\ \A u \in Workers : u # w => pc'[u] = pc[u]
    BY <1>1, <2>1, FileMoves, FileOthers DEF Clients
  <2>3. Placed(w)'
    BY <1>1, <1>3, <1>4, <1>5, <2>1, <2>2 DEF Placed, IsFirewall, Inside, Unsetting, Ifaces
  <2>4. \A u \in Workers : u # w => Placed(u)' /\ stage'[u] = stage[u]
    BY <1>1, <1>3, <2>1, <2>2 DEF Placed, IsFirewall
  <2>5. stage' \in [Workers -> Stages] /\ stage'[w] = "lock"
    BY <1>1, <2>1 DEF Stages
  <2>6. QED
    BY <1>1, <1>2, <1>3, <2>1, <2>2, <2>3, <2>4, <2>5 DEF FipTyped
<1>6. CASE j.kind # "firewall"
  <2>1. /\ pc' = pc /\ stage' = [stage EXCEPT ![w] = "iface"]
        /\ view' = [view EXCEPT ![w] = [device |-> device, profile |-> profile]]
        /\ met' = [u \in Workers |->
                     IF u = w THEN {job[x].a : x \in Floating}
                     ELSE IF u \in Floating THEN met[u] \cup {j.a} ELSE met[u]]
    BY <1>6 DEF Arrive, GoOn, stateFileVars
  <2>2. j.a \in Addresses /\ \A x \in Floating : job[x].a \in Addresses
    BY <1>6, JobParts, JobsAssumption DEF Floating, Busy
  <2>3. {job[x].a : x \in Floating} \in SUBSET Addresses
    BY <2>2
  <2>4. met' \in [Workers -> SUBSET Addresses]
    BY <1>1, <2>1, <2>2, <2>3
  <2>5. view' \in [Workers -> [device : SUBSET Addresses, profile : SUBSET Addresses]]
        /\ stage' \in [Workers -> Stages] /\ stage'[w] = "iface"
        /\ \A u \in Workers : u # w => stage'[u] = stage[u] /\ view'[u] = view[u]
    BY <1>1, <2>1 DEF Stages, Ifaces
  <2>6. Placed(w)'
    BY <1>1, <1>3, <1>4, <1>6, <2>1, <2>5 DEF Placed, IsFirewall, Inside, Unsetting, Ifaces
  <2>7. \A u \in Workers : u # w => Placed(u)'
    BY <1>1, <1>3, <2>1, <2>5 DEF Placed, IsFirewall
  <2>8. QED
    BY <1>1, <1>2, <1>3, <2>1, <2>4, <2>5, <2>6, <2>7 DEF FipTyped
<1>7. QED
  BY <1>5, <1>6

(* The end of every handler, in a crash or a reboot.                       *)
LEMMA EndTyped ==
  ASSUME FipTyped, TypeOK', FipCrash \/ FipReboot
  PROVE  /\ FipTyped' /\ Floating' = {} /\ Engaged' = {}
         /\ \A w \in Workers : stage'[w] = "idle"
<1>1. /\ job' = [w \in Workers |-> NoJob] /\ stage' = [w \in Workers |-> "idle"]
      /\ view' = [w \in Workers |-> NoView] /\ snap' = [w \in Workers |-> {}]
      /\ met' = [w \in Workers |-> {}] /\ pc' = [w \in Workers |-> "idle"]
  BY DEF FipCrash, FipReboot, HandlersDie, Crash, Reboot
<1>2. /\ device' \in SUBSET Addresses /\ profile' \in SUBSET Addresses
      /\ nat' \in SUBSET Redirects /\ xml' \in SUBSET Redirects
  BY DEF FipCrash, FipReboot, hostVars, FipTyped
<1>3. agreed' \in [Addresses -> {"all", "live", "iface", "no"}]
      /\ UNCHANGED <<fixed, astray>>
  BY DEF FipCrash, FipReboot, HandlersDie, FipTyped
<1>4. \A w \in Workers : Placed(w)'
  BY <1>1 DEF Placed, IsFirewall, Inside, Unsetting, Ifaces
<1>5. NoView \in [device : SUBSET Addresses, profile : SUBSET Addresses]
  BY DEF NoView
<1>6. FipTyped'
  BY <1>1, <1>2, <1>3, <1>4, <1>5 DEF FipTyped, Stages
<1>7. QED
  BY <1>1, <1>6 DEF Floating, Busy, Engaged

-----------------------------------------------------------------------------
(* The steps of a handler of a floating address as a table: from where to  *)
(* where, and what becomes of its address.                                 *)
SameHost == device' = device /\ profile' = profile /\ nat' = nat /\ xml' = xml

Moves(w, from, to) == stage[w] \in from /\ stage'[w] \in to

OwnRow(w) ==
  LET a == job[w].a
      r == Rule(w) IN
  \/ NMRefreshes(w) /\ stage'[w] = stage[w] /\ SameHost
  \/ /\ Moves(w, {"iface"}, {"commit"})
     /\ a \in device <=> ~Attaches(w)
     /\ a \in device' <=> Attaches(w)
     /\ profile' = profile /\ nat' = nat /\ xml' = xml
  \/ /\ Moves(w, {"commit"}, {"lock"})
     /\ a \in profile' <=> Attaches(w)
     /\ device' = device /\ nat' = nat /\ xml' = xml
  \/ /\ Moves(w, {"apply"}, {"query_xml"})
     /\ r \in nat' <=> Attaches(w)
     /\ device' = device /\ profile' = profile /\ xml' = xml
  \/ /\ Moves(w, {"apply"}, {"done"}) /\ Abandon(w)
     /\ ~Attaches(w) /\ r \notin nat
     /\ r \in nat' <=> Attaches(w)
     /\ device' = device /\ profile' = profile /\ xml' = xml
  \/ /\ Moves(w, {"change_xml"}, {"save"})
     /\ r \in xml' <=> Attaches(w)
     /\ device' = device /\ profile' = profile /\ nat' = nat
  \/ /\ Moves(w, {"update"}, {"unset"})
     /\ xml' = snap[w]
     /\ device' = device /\ profile' = profile /\ nat' = nat
  \/ /\ Moves(w, {"undo_iface"}, {"undo_commit"})
     /\ a \in device' <=> ~Attaches(w)
     /\ profile' = profile /\ nat' = nat /\ xml' = xml
  \/ /\ Moves(w, {"undo_commit"}, {"refused"})
     /\ a \in profile' <=> ~Attaches(w)
     /\ device' = device /\ nat' = nat /\ xml' = xml
  \/ /\ SameHost
     /\ \/ Moves(w, {"iface"}, {"rejected"})
        \/ Moves(w, {"commit", "undo_commit"}, {"failed"})
        \/ Moves(w, {"lock"}, {"lock", "check", "undo_iface"})
        \/ Moves(w, {"check"}, {"query"}) \/ Moves(w, {"query"}, {"apply"})
        \/ Moves(w, {"check", "query"}, {"done"}) /\ Abandon(w) /\ (r \in nat <=> Attaches(w))
        \/ Moves(w, {"query_xml"}, {"change_xml"})
        \/ Moves(w, {"query_xml"}, {"done"}) /\ Abandon(w) /\ (r \in xml <=> Attaches(w))
        \/ Moves(w, {"check", "query", "apply"}, {"skipped"}) /\ Abandon(w)
        \/ Moves(w, {"query_xml", "change_xml", "save", "update"}, {"failed"}) /\ Abandon(w)
        \/ Moves(w, {"save"}, {"update"}) /\ snap'[w] = xml
        \/ Moves(w, {"unset"}, {"unset", "done"})
        \/ Moves(w, {"undo_iface"}, {"refused"})
        \/ Moves(w, Ends, {"idle"}) /\ Answer(w)

LEMMA OwnTable ==
  ASSUME FipTyped, NEW w \in Workers, Steps1(w), stage[w] # "idle", ~IsFirewall(w)
  PROVE  OwnRow(w)
<1>1. /\ TypeOK /\ stage \in [Workers -> Stages] /\ Placed(w)
      /\ device \in SUBSET Addresses /\ profile \in SUBSET Addresses
      /\ nat \in SUBSET Redirects /\ xml \in SUBSET Redirects
      /\ view[w].profile \in SUBSET Addresses /\ view[w].device \in SUBSET Addresses
      /\ snap \in [Workers -> SUBSET Redirects]
  BY DEF FipTyped
<1>2. job[w].a \in Addresses
  BY JobParts
<1>a. ASSUME NEW S \in SUBSET Redirects
      PROVE  /\ Rule(w) \in WithRule(w, S) <=> Attaches(w)
             /\ WithRule(w, S) = S <=> (Rule(w) \in S <=> Attaches(w))
  BY WithRuleSet
<1>3. ASSUME NEW S \in SUBSET Addresses
      PROVE  /\ job[w].a \in With(w, S) <=> Attaches(w)
             /\ job[w].a \in Without(w, S) <=> ~Attaches(w)
             /\ With(w, S) = S <=> (job[w].a \in S <=> Attaches(w))
  BY WithSet
<1> USE DEF OwnRow, Moves, At, GoOn
<1>4. CASE NMRefreshes(w)
  BY <1>4 DEF NMRefreshes, SameHost, hostVars
<1>5. CASE Iface(w)
  <2>1. CASE GoOn(w, "commit") /\ With(w, device) # device /\ device' = With(w, device)
    BY <1>1, <1>3, <1>5, <2>1 DEF Iface
  <2>2. CASE GoOn(w, "rejected") /\ device' = device
    BY <1>1, <1>5, <2>2 DEF Iface, SameHost
  <2>3. QED
    BY <1>5, <2>1, <2>2 DEF Iface
<1>6. CASE Commit(w)
  BY <1>1, <1>3, <1>6 DEF Commit
<1>7. CASE CommitFails(w)
  BY <1>1, <1>7 DEF CommitFails, SameHost, hostVars
<1>8. CASE Wait(w)
  <2>1. SameHost /\ stage[w] = "lock"
    BY <1>8 DEF Wait, SameHost, hostVars
  <2>2. CASE stage' = stage
    BY <2>1, <2>2
  <2>3. CASE stage' = [stage EXCEPT ![w] = "undo_iface"]
    BY <1>1, <2>1, <2>3
  <2>4. QED
    BY <1>8, <2>2, <2>3 DEF Wait
<1>9. CASE Enter(w)
  BY <1>1, <1>9 DEF Enter, SameHost, hostVars
<1>10. ~Work(w)
  BY <1>1 DEF Work, Placed
<1>11. CASE Check(w)
  <2>1. CASE WithRule(w, nat) # nat /\ At(w, "check")
    BY <1>1, <1>11, <2>1 DEF Check, StayInside, AfterQuery, SameHost, hostVars
  <2>2. CASE WithRule(w, nat) # nat /\ At(w, "query")
    BY <1>1, <1>11, <2>2 DEF Check, StayInside, AfterQuery, SameHost, hostVars
  <2>3. CASE WithRule(w, nat) = nat
    BY <1>1, <1>a, <1>11, <2>3 DEF Check, NothingToDo, SameHost, hostVars
  <2>4. QED
    BY <1>11, <2>1, <2>2, <2>3 DEF Check
<1>12. CASE Apply(w)
  <2>1. nat' = WithRule(w, nat) /\ device' = device /\ profile' = profile /\ xml' = xml
        /\ (Rule(w) \in nat' <=> Attaches(w))
    BY <1>1, <1>a, <1>12 DEF Apply
  <2>2. CASE job[w].kind = "attach" \/ Rule(w) \in nat
    BY <1>1, <1>12, <2>1, <2>2 DEF Apply, StayInside
  <2>3. CASE ~(job[w].kind = "attach" \/ Rule(w) \in nat)
    BY <1>1, <1>12, <2>1, <2>3 DEF Apply, NothingToDo, Attaches
  <2>4. QED
    BY <2>2, <2>3
<1>13. CASE QueryXML(w)
  <2>1. CASE WithRule(w, xml) # xml
    BY <1>1, <1>13, <2>1 DEF QueryXML, StayInside, SameHost, hostVars
  <2>2. CASE WithRule(w, xml) = xml
    BY <1>1, <1>a, <1>13, <2>2 DEF QueryXML, NothingToDo, SameHost, hostVars
  <2>3. QED
    BY <2>1, <2>2
<1>14. CASE ChangeXML(w)
  <2>1. CASE WithRule(w, xml) # xml
    BY <1>1, <1>a, <1>14, <2>1 DEF ChangeXML, StayInside
  <2>2. CASE WithRule(w, xml) = xml
    BY <1>1, <1>14, <2>2 DEF ChangeXML, SameHost
  <2>3. QED
    BY <2>1, <2>2
<1>b. CASE CommandFails(w)
  <2>1. CASE job[w].kind = "detach" /\ ~At(w, "apply")
    BY <1>1, <1>b, <2>1 DEF CommandFails, AfterQuery, StayInside, SameHost, hostVars
  <2>2. CASE ~(job[w].kind = "detach" /\ ~At(w, "apply"))
    BY <1>1, <1>b, <2>2 DEF CommandFails, SameHost, hostVars
  <2>3. QED
    BY <2>1, <2>2
<1>15. CASE DBusFails(w)
  BY <1>1, <1>15 DEF DBusFails, SameHost, hostVars
<1>16. CASE GetSettings(w)
  BY <1>1, <1>16 DEF GetSettings, StayInside, SameHost, hostVars
<1>17. CASE Update(w)
  BY <1>1, <1>17 DEF Update
<1>18. CASE Unset(w)
  <2>1. stage[w] = "unset"
    BY <1>1, <1>18, FileMoves DEF Unset, Placed, Unsetting
  <2>2. CASE stage' = stage
    BY <1>18, <2>1, <2>2 DEF Unset, SameHost, hostVars
  <2>3. CASE stage' = [stage EXCEPT ![w] = "done"]
    BY <1>1, <1>18, <2>1, <2>3 DEF Unset, SameHost, hostVars
  <2>4. QED
    BY <1>18, <2>2, <2>3 DEF Unset
<1>19. CASE UndoIface(w)
  <2>1. CASE GoOn(w, "undo_commit") /\ device' = Without(w, device)
    BY <1>1, <1>3, <1>19, <2>1 DEF UndoIface
  <2>2. CASE GoOn(w, "refused") /\ device' = device
    BY <1>1, <1>19, <2>2 DEF UndoIface, SameHost
  <2>3. QED
    BY <1>19, <2>1, <2>2 DEF UndoIface
<1>20. CASE UndoCommit(w)
  BY <1>1, <1>3, <1>20 DEF UndoCommit
<1>21. CASE Answer(w)
  BY <1>1, <1>21 DEF Answer, Idle, Ends, SameHost, hostVars
<1>22. QED
  BY <1>4, <1>5, <1>6, <1>7, <1>8, <1>9, <1>10, <1>11, <1>12, <1>13, <1>14, <1>15, <1>16,
     <1>17, <1>18, <1>19, <1>20, <1>21, <1>b DEF Steps1, FipStep

(* A handler of FirewallMgr leaves the floating addresses alone.           *)
LEMMA FirewallStep ==
  ASSUME FipTyped, NEW w \in Workers, Steps1(w), IsFirewall(w)
  PROVE  /\ SameHost /\ agreed' = agreed
         /\ fixed' = fixed /\ astray' = astray
         /\ stage'[w] \in {"lock", "work", "unset", "idle"} \cup Ends
         /\ w \notin Floating /\ stage'[w] # "refused"
<1>1. /\ TypeOK /\ stage \in [Workers -> Stages] /\ Placed(w)
  BY DEF FipTyped
<1>2. w \notin Floating
  BY DEF Floating
<1>3. stage[w] \notin Ifaces \cup (Inside \ {"work"}) \cup {"refused"}
  BY <1>1 DEF Placed
<1>4. /\ ~Iface(w) /\ ~Commit(w) /\ ~CommitFails(w) /\ ~Check(w) /\ ~Apply(w) /\ ~CommandFails(w)
      /\ ~QueryXML(w) /\ ~ChangeXML(w) /\ ~DBusFails(w) /\ ~GetSettings(w) /\ ~Update(w)
      /\ ~UndoIface(w) /\ ~UndoCommit(w) /\ ~NMRefreshes(w)
  BY <1>2, <1>3 DEF Iface, Commit, CommitFails, Check, Apply, CommandFails, QueryXML, ChangeXML, DBusFails,
     GetSettings, Update, UndoIface, UndoCommit, NMRefreshes, At, Ifaces, Inside
<1>5. CASE Wait(w)
  BY <1>1, <1>2, <1>5 DEF Wait, Keep, SameHost, hostVars, Ends, At
<1>6. CASE Enter(w) \/ Work(w)
  BY <1>1, <1>2, <1>6 DEF Enter, Work, Keep, GoOn, SameHost, hostVars, Ends
<1>7. CASE Unset(w)
  <2>1. stage[w] = "unset"
    BY <1>1, <1>7, FileMoves DEF Unset, Placed, Unsetting
  <2>2. QED
    BY <1>1, <1>2, <1>7, <2>1 DEF Unset, Keep, GoOn, SameHost, hostVars, Ends
<1>8. CASE Answer(w)
  BY <1>1, <1>2, <1>8 DEF Answer, Idle, GoOn, SameHost, hostVars
<1>9. QED
  BY <1>4, <1>5, <1>6, <1>7, <1>8, FixedStep DEF Steps1, FipStep

(* Nobody steps without a request.                                         *)
LEMMA StepsBusy ==
  ASSUME FipTyped, NEW w \in Workers, Steps1(w)
  PROVE  stage[w] # "idle"
<1>1. CASE NMRefreshes(w)
  BY <1>1 DEF NMRefreshes, Floating, Busy
<1>2. CASE Wait(w) \/ Enter(w) \/ Work(w) \/ Unset(w)
  BY <1>2, FileMoves DEF Wait, Enter, Work, Unset, At, FipTyped, Placed, Unsetting
<1>3. QED
  BY <1>1, <1>2 DEF Steps1, FipStep, Iface, Commit, CommitFails, Check, Apply, CommandFails,
     QueryXML, ChangeXML, DBusFails, GetSettings, Update, UndoIface, UndoCommit, Answer, At

(* What a step does to an address its handler does not serve.              *)
LEMMA Elsewhere ==
  ASSUME FipTyped, NEW w \in Workers, Steps1(w), NEW a \in Addresses,
         w \notin WorkingOn(a)
  PROVE  /\ a \in device' <=> a \in device
         /\ \/ a \in profile' <=> a \in profile
            \/ /\ w \in Floating /\ stage[w] \in Viewing
               /\ a \in profile' <=> a \in view[w].profile
         /\ agreed'[a] = agreed[a] /\ fixed'[a] = fixed[a]
         /\ a \in astray' <=> a \in astray
<1>1. CASE IsFirewall(w)
  BY <1>1, FirewallStep DEF SameHost
<1>2. CASE ~IsFirewall(w)
  <2>1. stage[w] # "idle"
    BY StepsBusy
  <2>2. w \in Floating /\ a # job[w].a
    BY <1>2, <2>1, JobParts DEF WorkingOn
  <2>3. ASSUME NEW S \in SUBSET Addresses
        PROVE  (a \in With(w, S) <=> a \in S) /\ (a \in Without(w, S) <=> a \in S)
    BY <1>2, <2>1, <2>2, WithSet
  <2>4. /\ device \in SUBSET Addresses
        /\ profile \in SUBSET Addresses /\ view[w].profile \in SUBSET Addresses
        /\ agreed \in [Addresses -> {"all", "live", "iface", "no"}]
        /\ fixed \in [Addresses -> Fixed \cup {"none"}]
    BY DEF FipTyped
  <2>5. CASE Iface(w)
    BY <2>2, <2>3, <2>4, <2>5 DEF Iface, Recorded
  <2>6. CASE Commit(w)
    BY <2>2, <2>3, <2>4, <2>6 DEF Commit, Keep, Viewing, At
  <2>7. CASE Apply(w) \/ ChangeXML(w)
    BY <2>7 DEF Apply, ChangeXML, Keep
  <2>8. CASE UndoIface(w)
    BY <2>3, <2>4, <2>8 DEF UndoIface, Keep
  <2>9. CASE UndoCommit(w)
    BY <2>2, <2>3, <2>4, <2>9 DEF UndoCommit, Keep, Viewing, At
  <2>10. CASE Update(w)
    BY <2>10 DEF Update, Keep, At
  <2>11. CASE Answer(w)
    BY <2>2, <2>4, <2>11 DEF Answer, hostVars
  <2>12. CASE CommitFails(w) \/ Wait(w) \/ Enter(w) \/ Work(w) \/ Check(w) \/ CommandFails(w)
              \/ QueryXML(w) \/ DBusFails(w) \/ GetSettings(w) \/ Unset(w) \/ NMRefreshes(w)
    BY <2>12 DEF CommitFails, Wait, Enter, Work, Check, CommandFails, QueryXML, DBusFails,
       GetSettings, Unset, NMRefreshes, hostVars, Keep
  <2>13. QED
    BY <2>5, <2>6, <2>7, <2>8, <2>9, <2>10, <2>11, <2>12 DEF Steps1, FipStep
<1>3. QED
  BY <1>1, <1>2

(* What a step does to a rule its handler does not serve.                  *)
LEMMA RuleElsewhere ==
  ASSUME FipTyped, NEW w \in Workers, Steps1(w), NEW r \in Redirects,
         w \in Floating => r # Rule(w)
  PROVE  /\ r \in nat' <=> r \in nat
         /\ \/ xml' = snap[w] /\ stage[w] = "update"
            \/ r \in xml' <=> r \in xml
<1>1. CASE w \notin Floating
  <2>1. IsFirewall(w)
    BY <1>1, StepsBusy DEF Floating, Busy
  <2>2. QED
    BY <2>1, FirewallStep DEF SameHost
<1>2. CASE w \in Floating
  <2>1. ~IsFirewall(w) /\ stage[w] # "idle" /\ nat \in SUBSET Redirects /\ xml \in SUBSET Redirects
    BY <1>2 DEF Floating, Busy, FipTyped
  <2>2. /\ r \in WithRule(w, nat) <=> r \in nat
        /\ r \in WithRule(w, xml) <=> r \in xml
    BY <1>2, <2>1, WithRuleSet
  <2>3. CASE Apply(w) \/ ChangeXML(w) \/ Update(w)
    BY <2>2, <2>3 DEF Apply, ChangeXML, Update, At
  <2>4. CASE nat' = nat /\ xml' = xml
    BY <2>4
  <2>5. (nat' = nat /\ xml' = xml) \/ Apply(w) \/ ChangeXML(w) \/ Update(w)
    BY DEF Steps1, FipStep, NMRefreshes, Iface, Commit, CommitFails, Wait, Enter, Work, Check,
       CommandFails, QueryXML, DBusFails, GetSettings, Unset, UndoIface, UndoCommit, Answer,
       hostVars
  <2>6. QED
    BY <2>3, <2>4, <2>5
<1>3. QED
  BY <1>1, <1>2

LEMMA InitTyped == FipInit => FipTyped
<1> SUFFICES ASSUME FipInit PROVE FipTyped
  OBVIOUS
<1>1. TypeOK
  BY InitType DEF FipInit, TypeInv
<1>2. NoView \in [device : SUBSET Addresses, profile : SUBSET Addresses]
  BY DEF NoView
<1>3. \A w \in Workers : Placed(w)
  BY DEF FipInit, Init, Placed, IsFirewall, Inside, Unsetting, Ifaces
<1>4. QED
  BY <1>1, <1>2, <1>3 DEF FipInit, FipTyped, Stages

LEMMA NextTyped == FipTyped /\ TypeOK' /\ [FipNext]_floatingIPVars => FipTyped'
<1> SUFFICES ASSUME FipTyped, TypeOK', [FipNext]_floatingIPVars PROVE FipTyped'
  OBVIOUS
<1>1. CASE \E w \in Workers, j \in Jobs : Arrive(w, j)
  BY <1>1, ArriveTyped
<1>2. CASE \E w \in Workers : FipStep(w) \/ NMRefreshes(w)
  BY <1>2, TypedStep DEF Steps1
<1>3. CASE FipCrash \/ FipReboot
  BY <1>3, EndTyped
<1>4. CASE UNCHANGED floatingIPVars
  BY <1>4 DEF floatingIPVars, fipVars, hostVars, stateFileVars, FipTyped, Placed, IsFirewall
<1>5. QED
  BY <1>1, <1>2, <1>3, <1>4 DEF FipNext

LEMMA FileTyped == FipSpec => [](TypeOK /\ FlagStandsUnlessRaced)
  BY FloatingIPImplementsStateFile, TypeCorrect, FlagStands, PTL

LEMMA AlwaysTyped == FipSpec => []FipTyped
<1>1. FipSpec => []TypeOK
  BY FileTyped, PTL
<1>2. QED
  BY <1>1, InitTyped, NextTyped, PTL DEF FipSpec

(* For any handlers, addresses and requests: what the four places hold are *)
(* addresses, and a handler of network.py is inside the critical region of *)
(* the state file exactly while its own code believes so.                  *)
THEOREM FipTyping == FipSpec => []FipTypeOK
<1>1. FipTyped => FipTypeOK
  BY DEF FipTyped, FipTypeOK, Placed, Stages, Ifaces, Inside, Ends, Unsetting, Redirects
<1>2. QED
  BY <1>1, AlwaysTyped, PTL

-----------------------------------------------------------------------------
(* Who shares the host with whom.  overlapped remembers that two handlers  *)
(* were engaged, which every race leads to; met[w] names the address of    *)
(* every other handler there is.                                           *)
Uniq ==
  /\ overlapped \in BOOLEAN
  /\ raced => overlapped
  /\ overlapped \/ ~Crowded

Meets == \A u, w \in Floating : u # w => job[u].a \in met[w]

(* Any step but a crash or a reboot.                                       *)
Regular ==
  \/ \E w \in Workers, j \in Jobs : Arrive(w, j)
  \/ \E w \in Workers : Steps1(w)

LEMMA RegularNext ==
  ASSUME Regular
  PROVE  Next \/ UNCHANGED stateFileVars
<1>1. CASE \E w \in Workers, j \in Jobs : Arrive(w, j)
  BY <1>1 DEF Arrive, Next, Clients
<1>2. CASE \E w \in Workers : Steps1(w)
  BY <1>2, FipStepImplements DEF Steps1
<1>3. QED
  BY <1>1, <1>2 DEF Regular

LEMMA RegularUniq ==
  ASSUME FipTyped, Uniq, Regular, overlapped' = (overlapped \/ Crowded')
  PROVE  Uniq'
<1>1. raced' => raced \/ Crowded'
  <2>1. CASE Next
    BY <2>1, RaceIsCrowd DEF FipTyped
  <2>2. CASE UNCHANGED stateFileVars
    BY <2>2 DEF stateFileVars
  <2>3. QED
    BY <2>1, <2>2, RegularNext
<1>2. Crowded' \in BOOLEAN
  BY DEF Crowded
<1>3. QED
  BY <1>1, <1>2 DEF Uniq

(* A handler keeps its job until it answers.                               *)
LEMMA OwnStays ==
  ASSUME FipTyped, NEW w \in Workers, Steps1(w)
  PROVE  /\ stage[w] # "idle"
         /\ \/ Answer(w) /\ stage'[w] = "idle" /\ stage[w] \in Ends
            \/ job'[w] = job[w] /\ met'[w] = met[w] /\ agreed' = agreed
<1>1. /\ TypeOK /\ stage \in [Workers -> Stages] /\ Placed(w)
  BY DEF FipTyped
<1>2. stage[w] # "idle"
  BY StepsBusy
<1>3. CASE Answer(w)
  BY <1>1, <1>2, <1>3 DEF Answer, Idle, GoOn, Ends
<1>4. CASE ~Answer(w)
  BY <1>2, <1>4 DEF Steps1, FipStep, NMRefreshes, Iface, Commit, CommitFails, Wait, Enter, Work,
     Check, Apply, CommandFails, QueryXML, ChangeXML, DBusFails, GetSettings, Update, Unset, UndoIface,
     UndoCommit, Keep
<1>5. QED
  BY <1>3, <1>4

(* A step makes no handler of a floating address, and changes the address  *)
(* and the acquaintances of none.                                          *)
LEMMA FloatingStep ==
  ASSUME FipTyped, NEW w \in Workers, Steps1(w)
  PROVE  /\ \A u \in Floating' : u \in Floating /\ job'[u] = job[u] /\ met'[u] = met[u]
         /\ \A u \in Floating : u # w => u \in Floating'
         /\ \A u \in Workers : u # w => /\ stage'[u] = stage[u] /\ view'[u] = view[u]
                                        /\ snap'[u] = snap[u] /\ pc'[u] = pc[u]
         /\ w \in Floating => (w \in Floating' <=> stage'[w] # "idle")
         /\ w \notin Floating => IsFirewall(w)
<1>1. OthersSame(w)
  BY StepOthers
<1>2. /\ stage[w] # "idle"
      /\ \/ stage'[w] = "idle"
         \/ job'[w] = job[w] /\ met'[w] = met[w]
  BY OwnStays
<1>3. QED
  BY <1>1, <1>2 DEF OthersSame, Floating, Busy, IsFirewall

LEMMA RegularMeets ==
  ASSUME FipTyped, TypeOK', Meets, Regular
  PROVE  Meets'
<1>1. ASSUME NEW w \in Workers, Steps1(w)
      PROVE  Meets'
  BY <1>1, FloatingStep DEF Meets
<1>2. ASSUME NEW w \in Workers, NEW j \in Jobs, Arrive(w, j)
      PROVE  Meets'
  <2>1. stage[w] = "idle" /\ w \notin Floating /\ job'[w] = j
        /\ \A u \in Workers : u # w => job'[u] = job[u] /\ stage'[u] = stage[u]
    BY <1>2, ArriveTyped DEF Floating, Busy, Arrive
  <2>2. \A u \in Floating' : u # w => u \in Floating
    BY <2>1 DEF Floating, Busy, IsFirewall
  <2>3. CASE j.kind = "firewall"
    <3>1. met' = met /\ w \notin Floating'
      BY <1>2, <2>1, <2>3 DEF Arrive, Floating, IsFirewall
    <3>2. QED
      BY <2>1, <2>2, <3>1 DEF Meets, Floating, Busy
  <2>4. CASE j.kind # "firewall"
    <3>1. met' = [u \in Workers |->
                    IF u = w THEN {job[x].a : x \in Floating}
                    ELSE IF u \in Floating THEN met[u] \cup {j.a} ELSE met[u]]
      BY <1>2, <2>4 DEF Arrive
    <3>2. ASSUME NEW u \in Floating', NEW v \in Floating', u # v
          PROVE  job'[u].a \in met'[v]
      <4>1. u \in Workers /\ v \in Workers
        BY DEF Floating, Busy
      <4>2. CASE v = w
        BY <2>1, <2>2, <3>1, <3>2, <4>1, <4>2
      <4>3. CASE u = w
        BY <2>1, <2>2, <3>1, <3>2, <4>1, <4>3
      <4>4. CASE u # w /\ v # w
        BY <2>1, <2>2, <3>1, <3>2, <4>1, <4>4 DEF Meets
      <4>5. QED
        BY <4>2, <4>3, <4>4
    <3>3. QED
      BY <3>2 DEF Meets
  <2>5. QED
    BY <2>3, <2>4
<1>3. QED
  BY <1>1, <1>2 DEF Regular

-----------------------------------------------------------------------------
(* The rules of iptables and of firewalld's configuration.  They differ    *)
(* only while the handler inside is between the two, or after one that     *)
(* left there: then its flag stands and nobody follows it.                 *)
Changing(r) == \E w \in Floating : Rule(w) = r /\ stage[w] \in {"query_xml", "change_xml"}

RulesInv ==
  ~overlapped => \A r \in Redirects : \/ r \in nat <=> r \in xml
                                      \/ Changing(r)
                                      \/ Leaked

(* What the handler inside has read is still so when it writes it back,    *)
(* and what it has changed is still changed.                               *)
SnapInv == ~overlapped => \A w \in Workers : stage[w] = "update" => snap[w] = xml

HeldInv ==
  ~overlapped => \A w \in Workers :
    /\ stage[w] \in {"query_xml", "change_xml", "save", "update"}
         => (Rule(w) \in nat <=> Attaches(w))
    /\ stage[w] \in {"save", "update"} => (Rule(w) \in xml <=> Attaches(w))

Rules == Uniq /\ RulesInv /\ SnapInv /\ HeldInv

(* Who is inside is there alone, and his flag stands.                      *)
LEMMA InsideAlone ==
  ASSUME FipTyped, FlagStandsUnlessRaced, Uniq, ~overlapped,
         NEW w \in Workers, stage[w] \in Inside
  PROVE  /\ w \in Engaged /\ Engaged = {w} /\ ~Leaked
         /\ stateFile = "1"
         /\ \A u \in Workers : u # w => stage[u] \notin Inside
<1>1. pc[w] = "inside" /\ \A u \in Workers : stage[u] \in Inside <=> pc[u] = "inside"
  BY DEF FipTyped, Placed
<1>2. w \in Engaged /\ \A u \in Workers : pc[u] = "inside" => u \in Engaged
  BY <1>1 DEF Engaged, Reading
<1>3. \A u \in Engaged : u = w
  BY <1>2 DEF Uniq, Crowded
<1>4. stateFile = "1"
  BY <1>1 DEF FlagStandsUnlessRaced, Uniq, Holding
<1>5. QED
  BY <1>1, <1>2, <1>3, <1>4 DEF Leaked

(* A handler that leaves without unset_state() leaves its flag behind.     *)
LEMMA AbandonLeaks ==
  ASSUME FipTyped, FlagStandsUnlessRaced, Uniq, ~overlapped,
         NEW w \in Workers, stage[w] \in Inside, Abandon(w)
  PROVE  Leaked'
<1>1. Engaged = {w} /\ stateFile = "1" /\ TypeOK
  BY InsideAlone DEF FipTyped
<1>2. stateFile' = "1" /\ pc' = [pc EXCEPT ![w] = "idle"]
  BY <1>1 DEF Abandon, LeaveEngaged, GoTo
<1>3. Engaged' = {}
  BY <1>1, <1>2 DEF Engaged, TypeOK
<1>4. QED
  BY <1>2, <1>3 DEF Leaked

LEMMA RegularLeak ==
  ASSUME FipTyped, Regular, Leaked
  PROVE  Leaked'
<1>1. TypeOK
  BY DEF FipTyped
<1>2. CASE UNCHANGED stateFileVars
  BY <1>2 DEF stateFileVars, Leaked, Engaged
<1>3. CASE ~ UNCHANGED stateFileVars
  <2>1. (\E w \in Workers, c \in Clients : Request(w, c)) \/ (\E w \in Workers : Step(w))
    <3>1. CASE \E w \in Workers, j \in Jobs : Arrive(w, j)
      BY <1>3, <3>1 DEF Arrive, Clients
    <3>2. ASSUME NEW w \in Workers, Steps1(w)
          PROVE  Step(w) \/ (\E c \in Clients : Request(w, c))
      BY <1>3, <3>2 DEF Steps1, FipStep, NMRefreshes, Iface, Commit, CommitFails, Wait, Enter,
         Work, Check, Apply, CommandFails, QueryXML, ChangeXML, DBusFails, GetSettings, Update, Unset,
         UndoIface, UndoCommit, Answer, NothingToDo, StayInside, Step, Clients
    <3>3. QED
      BY <3>1, <3>2 DEF Regular
  <2>2. QED
    BY <1>1, <2>1, LeakStep
<1>4. QED
  BY <1>2, <1>3

(* A step of a handler inside: who else is there is not.                   *)
LEMMA StepRules ==
  ASSUME FipTyped, FlagStandsUnlessRaced, Rules, NEW w \in Workers, Steps1(w), ~overlapped
  PROVE  /\ \A r \in Redirects : (r \in nat' <=> r \in xml') \/ Changing(r)' \/ Leaked'
         /\ \A u \in Workers : stage'[u] = "update" => snap'[u] = xml'
         /\ \A u \in Workers :
              /\ stage'[u] \in {"query_xml", "change_xml", "save", "update"}
                   => (Rule(u)' \in nat' <=> job'[u].kind = "attach")
              /\ stage'[u] \in {"save", "update"} => (Rule(u)' \in xml' <=> job'[u].kind = "attach")
<1>1. /\ \A r \in Redirects : (r \in nat <=> r \in xml) \/ Changing(r) \/ Leaked
      /\ \A u \in Workers : stage[u] = "update" => snap[u] = xml
      /\ \A u \in Workers :
           /\ stage[u] \in {"query_xml", "change_xml", "save", "update"}
                => (Rule(u) \in nat <=> Attaches(u))
           /\ stage[u] \in {"save", "update"} => (Rule(u) \in xml <=> Attaches(u))
      /\ Uniq
  BY DEF Rules, RulesInv, SnapInv, HeldInv
<1>2. /\ \A u \in Floating' : u \in Floating /\ job'[u] = job[u]
      /\ \A u \in Floating : u # w => u \in Floating'
      /\ \A u \in Workers : u # w => stage'[u] = stage[u] /\ snap'[u] = snap[u]
      /\ w \in Floating => (w \in Floating' <=> stage'[w] # "idle")
      /\ \A u \in Workers : u # w => job'[u] = job[u]
  BY FloatingStep, StepOthers DEF OthersSame
<1>3. Leaked => Leaked'
  BY RegularLeak DEF Regular
<1>4. \A r \in Redirects : \A u \in Floating :
        Rule(u) = r /\ stage[u] \in {"query_xml", "change_xml"} /\ u # w => Changing(r)'
  BY <1>2 DEF Rule, Changing, Floating, Busy
<1>5. CASE IsFirewall(w)
  <2>1. /\ nat' = nat /\ xml' = xml
        /\ stage'[w] \notin {"query_xml", "change_xml", "save", "update"}
        /\ w \notin Floating
    BY <1>5, FirewallStep DEF SameHost, Ends
  <2>2. ASSUME NEW r \in Redirects
        PROVE  (r \in nat' <=> r \in xml') \/ Changing(r)' \/ Leaked'
    BY <1>1, <1>3, <1>4, <2>1 DEF Changing
  <2>3. QED
    BY <1>1, <1>2, <2>1, <2>2 DEF Attaches, Rule
<1>6. CASE ~IsFirewall(w)
  <2>1. stage[w] # "idle"
    BY OwnStays
  <2>2. /\ w \in Floating /\ Rule(w) \in Redirects /\ OwnRow(w)
        /\ job'[w] = job[w] \/ stage'[w] = "idle"
    BY <1>6, <2>1, JobParts, OwnTable, OwnStays
  <2>3. stage[w] \in Inside => \A u \in Workers : u # w => stage[u] \notin Inside
    BY <1>1, InsideAlone
  <2>4. stage[w] \in Inside /\ Abandon(w) => Leaked'
    BY <1>1, AbandonLeaks
  <2>5. stage'[w] \in {"query_xml", "change_xml"} =>
          \A r \in Redirects : r = Rule(w) => Changing(r)'
    BY <2>2, <1>2 DEF Changing, Rule
  <2>6. /\ \A r \in Redirects : r # Rule(w) => (r \in nat' <=> r \in nat)
        /\ xml' = xml \/ stage[w] = "change_xml" \/ (stage[w] = "update" /\ xml' = snap[w])
        /\ \A r \in Redirects : r # Rule(w) =>
             (xml' = snap[w] /\ stage[w] = "update") \/ (r \in xml' <=> r \in xml)
    BY <1>6, <2>2, RuleElsewhere DEF OwnRow, SameHost, Moves
  <2>7. ASSUME NEW r \in Redirects, r # Rule(w)
        PROVE  (r \in nat' <=> r \in xml') \/ Changing(r)' \/ Leaked'
    BY <1>1, <1>3, <1>4, <2>6, <2>7 DEF Changing
  <2>8. ASSUME NEW r \in Redirects, r = Rule(w)
        PROVE  (r \in nat' <=> r \in xml') \/ Changing(r)' \/ Leaked'
    <3>1. CASE Changing(r) /\ stage[w] \notin {"query_xml", "change_xml"}
      <4>1. PICK u \in Floating : Rule(u) = r /\ stage[u] \in {"query_xml", "change_xml"}
        BY <3>1 DEF Changing
      <4>2. u # w
        BY <3>1, <4>1
      <4>3. QED
        BY <1>4, <4>1, <4>2
    <3>2. CASE stage[w] \in {"query_xml", "change_xml"}
      BY <1>1, <2>2, <2>4, <2>5, <2>8, <3>2 DEF OwnRow, Moves, SameHost, Inside, Ends
    <3>3. CASE ~Changing(r) /\ stage[w] \notin {"query_xml", "change_xml"}
      <4>1. (r \in nat <=> r \in xml) \/ Leaked'
        BY <1>1, <1>3, <2>2, <3>3
      <4>2. CASE nat' = nat /\ xml' = xml
        BY <4>1, <4>2
      <4>3. CASE stage[w] = "update"
        BY <1>1, <2>2, <4>1, <4>3 DEF OwnRow, Moves, SameHost
      <4>4. CASE stage[w] = "apply"
        BY <2>2, <2>4, <2>5, <2>8, <4>1, <4>4 DEF OwnRow, Moves, SameHost, Inside, Ends
      <4>5. QED
        BY <2>2, <3>3, <4>2, <4>3, <4>4 DEF OwnRow, Moves, SameHost
    <3>4. QED
      BY <3>1, <3>2, <3>3
  <2>9. ASSUME NEW u \in Workers, stage'[u] = "update"
        PROVE  snap'[u] = xml'
    <3>1. CASE u = w
      BY <1>1, <2>9, <2>2, <3>1 DEF OwnRow, Moves, SameHost, Ends, NMRefreshes
    <3>2. CASE u # w
      <4>1. stage[u] = "update" /\ snap'[u] = snap[u] /\ snap[u] = xml
        BY <1>1, <1>2, <2>9, <3>2
      <4>2. stage[w] \notin Inside
        BY <2>3, <3>2, <4>1 DEF Inside
      <4>3. QED
        BY <2>6, <4>1, <4>2 DEF Inside
    <3>3. QED
      BY <3>1, <3>2
  <2>10. ASSUME NEW u \in Workers
         PROVE  /\ stage'[u] \in {"query_xml", "change_xml", "save", "update"}
                     => (Rule(u)' \in nat' <=> job'[u].kind = "attach")
                /\ stage'[u] \in {"save", "update"} =>
                     (Rule(u)' \in xml' <=> job'[u].kind = "attach")
    <3>1. CASE u = w
      <4>1. stage'[w] # "idle" => job'[w] = job[w]
        BY <2>2
      <4>2. QED
        BY <1>1, <2>2, <3>1, <4>1 DEF OwnRow, Moves, SameHost, Ends, Attaches, Rule
    <3>2. CASE u # w
      <4>1. stage'[u] = stage[u] /\ job'[u] = job[u]
        BY <1>2, <3>2
      <4>2. stage[u] \in Inside => stage[w] \notin Inside
        BY <2>3, <3>2
      <4>3. stage[w] \notin Inside => nat' = nat /\ xml' = xml
        BY <2>2 DEF OwnRow, Moves, SameHost, Inside
      <4>4. QED
        BY <1>1, <4>1, <4>2, <4>3 DEF Attaches, Inside, Rule
    <3>3. QED
      BY <3>1, <3>2
  <2>11. \A r \in Redirects : (r \in nat' <=> r \in xml') \/ Changing(r)' \/ Leaked'
    BY <2>7, <2>8
  <2>12. QED
    BY <2>9, <2>10, <2>11
<1>7. QED
  BY <1>5, <1>6

LEMMA NextRules ==
  ASSUME FipTyped, TypeOK', FlagStandsUnlessRaced, Rules, FipNext
  PROVE  Rules'
<1>1. ASSUME Regular, overlapped' = (overlapped \/ Crowded')
      PROVE  Rules'
  <2>1. Uniq'
    BY <1>1, RegularUniq DEF Rules
  <2>2. CASE overlapped'
    BY <2>1, <2>2 DEF Rules, RulesInv, SnapInv, HeldInv
  <2>3. CASE ~overlapped'
    <3>1. ~overlapped
      BY <1>1, <2>3
    <3>2. ASSUME NEW w \in Workers, Steps1(w) PROVE Rules'
      <4>1. /\ \A r \in Redirects : (r \in nat' <=> r \in xml') \/ Changing(r)' \/ Leaked'
            /\ \A u \in Workers : stage'[u] = "update" => snap'[u] = xml'
            /\ \A u \in Workers :
                 /\ stage'[u] \in {"query_xml", "change_xml", "save", "update"}
                      => (Rule(u)' \in nat' <=> job'[u].kind = "attach")
                 /\ stage'[u] \in {"save", "update"} =>
                      (Rule(u)' \in xml' <=> job'[u].kind = "attach")
        BY <3>1, <3>2, StepRules
      <4>2. RulesInv'
        BY <4>1 DEF RulesInv
      <4>3. SnapInv' /\ HeldInv'
        BY <4>1 DEF SnapInv, HeldInv, Attaches
      <4>4. QED
        BY <2>1, <4>2, <4>3 DEF Rules
    <3>3. ASSUME NEW w \in Workers, NEW j \in Jobs, Arrive(w, j) PROVE Rules'
      <4>1. /\ \A u \in Workers : u # w => job'[u] = job[u] /\ stage'[u] = stage[u]
            /\ stage'[w] \in {"lock", "iface"} /\ stage[w] = "idle"
            /\ snap' = snap /\ nat' = nat /\ xml' = xml
        BY <3>3, ArriveTyped DEF Arrive
      <4>2. Leaked => Leaked'
        BY <1>1, RegularLeak
      <4>3. \A r \in Redirects : Changing(r) => Changing(r)'
        BY <4>1 DEF Changing, Rule, Floating, Busy, IsFirewall
      <4>4. RulesInv'
        BY <3>1, <4>1, <4>2, <4>3 DEF Rules, RulesInv
      <4>5. SnapInv' /\ HeldInv'
        BY <3>1, <4>1 DEF Rules, SnapInv, HeldInv, Attaches, Rule
      <4>6. QED
        BY <2>1, <4>4, <4>5 DEF Rules
    <3>4. QED
      BY <1>1, <3>2, <3>3 DEF Regular
  <2>4. QED
    BY <2>2, <2>3
<1>2. ASSUME FipCrash \/ FipReboot PROVE Rules'
  <2>1. Engaged' = {} /\ \A w \in Workers : stage'[w] = "idle"
    BY <1>2, EndTyped
  <2>2. raced' = FALSE
    BY <1>2 DEF FipCrash, FipReboot, Crash, Reboot
  <2>3. overlapped' \in BOOLEAN
    BY <1>2 DEF FipCrash, FipReboot, Rules, Uniq
  <2>4. Uniq' /\ SnapInv' /\ HeldInv'
    BY <2>1, <2>2, <2>3 DEF Uniq, Crowded, SnapInv, HeldInv
  <2>5. CASE FipReboot
    BY <2>4, <2>5 DEF FipReboot, RulesInv, Rules
  <2>6. CASE FipCrash
    <3>1. overlapped' = overlapped /\ nat' = nat /\ xml' = xml /\ stateFile' = stateFile
      BY <2>6 DEF FipCrash, Crash, hostVars
    <3>2. ASSUME ~overlapped, NEW r \in Redirects
          PROVE  (r \in nat' <=> r \in xml') \/ Leaked'
      <4>1. CASE Leaked
        BY <2>1, <3>1, <4>1 DEF Leaked
      <4>2. CASE Changing(r)
        <5>1. PICK w \in Workers : stage[w] \in {"query_xml", "change_xml"}
          BY <4>2 DEF Changing, Floating, Busy
        <5>2. stateFile = "1"
          BY <3>2, <5>1, InsideAlone DEF Rules, Inside
        <5>3. QED
          BY <2>1, <3>1, <5>2 DEF Leaked
      <4>3. QED
        BY <3>1, <3>2, <4>1, <4>2 DEF Rules, RulesInv
    <3>3. RulesInv'
      BY <3>1, <3>2 DEF RulesInv
    <3>4. QED
      BY <2>4, <3>3 DEF Rules
  <2>7. QED
    BY <1>2, <2>4, <2>5, <2>6 DEF Rules
<1>3. QED
  BY <1>1, <1>2 DEF FipNext, Regular, Steps1

-----------------------------------------------------------------------------
(* What a handler has done so far is still done: the address if no other   *)
(* handler serves it, the connection if there is no other handler at all.  *)
OnBridge == {"commit", "lock", "check", "query", "apply", "query_xml", "change_xml",
             "save", "update", "unset", "done", "undo_iface"}
InNat == {"query_xml", "change_xml", "save", "update", "unset", "done"}
InXml == {"save", "update", "unset", "done"}

RestAgrees(w) ==
  \A f \in Fixed : f # job[w].f => (<<job[w].a, f>> \in nat <=> <<job[w].a, f>> \in xml)

Mine(w) ==
  /\ stage[w] \in OnBridge => /\ job[w].a \in device <=> Attaches(w)
                              /\ fixed[job[w].a] = job[w].f
  /\ stage[w] \in InNat => (Rule(w) \in nat <=> Attaches(w))
  /\ stage[w] \in InXml /\ ~overlapped => (Rule(w) \in xml <=> Attaches(w))
  /\ stage[w] \in InNat /\ ~overlapped => RestAgrees(w)

Sole(w) ==
  /\ stage[w] \in OnBridge \ {"commit"} => (job[w].a \in profile <=> Attaches(w))
  /\ stage[w] = "undo_commit" => (job[w].a \in device <=> ~Attaches(w))
  /\ stage[w] = "refused" => (job[w].a \in profile <=> job[w].a \in device)

MineInv == \A w \in Floating : job[w].a \notin met[w] => Mine(w)
SoleInv == \A w \in Floating : met[w] = {} => Sole(w)

Owned == MineInv /\ SoleInv

(* Nobody else works on its address.                                       *)
LEMMA OwnAddress ==
  ASSUME FipTyped, Meets, NEW w \in Floating, job[w].a \notin met[w]
  PROVE  /\ w \in Workers /\ stage[w] # "idle" /\ ~IsFirewall(w) /\ job[w].a \in Addresses
         /\ \A u \in Workers : u # w => u \notin WorkingOn(job[w].a)
         /\ WorkingOn(job[w].a) = {w}
<1>1. w \in Workers /\ stage[w] # "idle" /\ ~IsFirewall(w)
  BY DEF Floating, Busy
<1>2. job[w].a \in Addresses
  BY <1>1, JobParts
<1>3. \A u \in Floating : u # w => job[u].a # job[w].a
  BY DEF Meets
<1>4. QED
  BY <1>1, <1>2, <1>3 DEF WorkingOn

(* Who comes past the bridge is on record.                                 *)
LEMMA IfaceRecords ==
  ASSUME FipTyped, NEW w \in Workers, Steps1(w), stage[w] = "iface", stage'[w] = "commit"
  PROVE  Recorded(w) /\ Iface(w)
<1>1. Iface(w)
  BY DEF Steps1, FipStep, NMRefreshes, Commit, CommitFails, Wait, Enter,
     Work, Check, Apply, CommandFails, QueryXML, ChangeXML, DBusFails, GetSettings, Update,
     Unset, UndoIface, UndoCommit, Answer, At, GoOn, FipTyped, Placed, UnsetClose
<1>2. QED
  BY <1>1 DEF Iface, GoOn, FipTyped

(* The rules agree when a handler comes to them.                           *)
LEMMA RulesAgree ==
  ASSUME FipTyped, FlagStandsUnlessRaced, Rules, ~overlapped,
         NEW w \in Floating, stage[w] \in {"check", "query", "apply"}, NEW r \in Redirects
  PROVE  r \in nat <=> r \in xml
<1>1. w \in Workers
  BY DEF Floating, Busy
<1>2. ~Leaked /\ \A u \in Workers : u # w => stage[u] \notin Inside
  BY <1>1, InsideAlone DEF Rules, Inside
<1>3. ~Changing(r)
  BY <1>2 DEF Changing, Floating, Busy, Inside
<1>4. QED
  BY <1>2, <1>3 DEF Rules, RulesInv

LEMMA OwnMine ==
  ASSUME FipTyped, FlagStandsUnlessRaced, Meets, Rules,
         NEW w \in Floating, Steps1(w), w \in Floating', job[w].a \notin met[w], Mine(w),
         overlapped \in BOOLEAN, overlapped => overlapped'
  PROVE  Mine(w)'
<1>1. /\ w \in Workers /\ stage[w] # "idle" /\ ~IsFirewall(w) /\ job[w].a \in Addresses
      /\ Rule(w) \in Redirects /\ job[w].f \in Fixed
  BY OwnAddress, JobParts
<1>2. OwnRow(w) /\ job'[w] = job[w] /\ stage'[w] # "idle" /\ Rule(w)' = Rule(w)
  BY <1>1, OwnTable, FloatingStep DEF Rule
<1>3. PICK a \in Addresses : a = job[w].a
  BY <1>1
<1>r. PICK r \in Redirects : r = Rule(w)
  BY <1>1
<1>4. PICK s : s = stage[w]
  OBVIOUS
<1>5. PICK t : t = stage'[w]
  OBVIOUS
<1>6. /\ s \in OnBridge => (a \in device <=> Attaches(w))
      /\ s \in InNat => (r \in nat <=> Attaches(w))
      /\ s \in InXml /\ ~overlapped => (r \in xml <=> Attaches(w))
  BY <1>3, <1>r, <1>4 DEF Mine
<1>7. t \in OnBridge => (a \in device' <=> Attaches(w))
  BY <1>2, <1>3, <1>4, <1>5, <1>6 DEF OwnRow, Moves, SameHost, OnBridge, Ends
<1>8. t \in InNat => (r \in nat' <=> Attaches(w))
  BY <1>2, <1>r, <1>4, <1>5, <1>6 DEF OwnRow, Moves, SameHost, InNat, Ends
<1>9. t \in InXml /\ ~overlapped' => (r \in xml' <=> Attaches(w))
  <2> SUFFICES ASSUME t \in InXml, ~overlapped' PROVE r \in xml' <=> Attaches(w)
    OBVIOUS
  <2>1. ~overlapped
    OBVIOUS
  <2>2. s \in {"check", "query", "apply"} => (r \in nat <=> r \in xml)
    BY <1>4, <2>1, RulesAgree
  <2>3. s = "update" => (r \in snap[w] <=> r \in xml)
    BY <1>1, <1>4, <2>1 DEF Rules, SnapInv
  <2>4. s \in {"save", "update"} => (r \in xml <=> Attaches(w))
    BY <1>6, <2>1 DEF InXml
  <2>5. QED
    BY <1>2, <1>r, <1>4, <1>5, <1>6, <2>1, <2>2, <2>3, <2>4
    DEF OwnRow, Moves, SameHost, InXml, Ends
<1>10. t \in OnBridge => fixed'[a] = job[w].f
  <2> SUFFICES ASSUME t \in OnBridge PROVE fixed'[a] = job[w].f
    OBVIOUS
  <2>1. s \in OnBridge \cup {"iface"} /\ (s = "iface" => t = "commit")
    BY <1>2, <1>4, <1>5 DEF OwnRow, Moves, OnBridge, Ends
  <2>2. CASE s \in OnBridge
    <3>1. fixed' = fixed
      <4>1. ~Iface(w)
        BY <1>4, <2>2 DEF Iface, At, OnBridge
      <4>2. QED
        BY <1>1, <4>1, FixedStep
    <3>2. QED
      BY <1>3, <1>4, <2>2, <3>1 DEF Mine
  <2>3. CASE s = "iface"
    <3>1. Recorded(w)
      BY <1>1, <1>4, <1>5, <2>1, <2>3, IfaceRecords
    <3>2. QED
      BY <1>1, <1>3, <3>1 DEF Recorded, FipTyped
  <2>4. QED
    BY <2>1, <2>2, <2>3
<1>11. ASSUME t \in InNat, ~overlapped', NEW f \in Fixed, f # job[w].f
       PROVE  <<a, f>> \in nat' <=> <<a, f>> \in xml'
  <2>1. ~overlapped
    BY <1>11
  <2>2. PICK q \in Redirects : q = <<a, f>>
    BY DEF Redirects
  <2>3. q # Rule(w)
    BY <1>11, <2>2 DEF Rule
  <2>4. /\ q \in nat' <=> q \in nat
        /\ (xml' = snap[w] /\ s = "update") \/ (q \in xml' <=> q \in xml)
    BY <1>1, <1>4, <2>3, RuleElsewhere
  <2>5. s \in InNat \cup {"check", "query", "apply"}
    BY <1>2, <1>4, <1>5, <1>11 DEF OwnRow, Moves, InNat, Ends
  <2>6. s = "update" => snap[w] = xml
    BY <1>1, <1>4, <2>1 DEF Rules, SnapInv
  <2>7. s \in InNat => (q \in nat <=> q \in xml)
    BY <1>3, <1>4, <1>11, <2>1, <2>2 DEF Mine, RestAgrees
  <2>8. s \in {"check", "query", "apply"} => (q \in nat <=> q \in xml)
    BY <1>4, <2>1, RulesAgree
  <2>9. QED
    BY <2>2, <2>4, <2>5, <2>6, <2>7, <2>8
<1>12. t \in InNat /\ ~overlapped' => RestAgrees(w)'
  BY <1>2, <1>3, <1>11 DEF RestAgrees
<1>13. QED
  BY <1>2, <1>3, <1>r, <1>5, <1>7, <1>8, <1>9, <1>10, <1>12 DEF Mine, Attaches

LEMMA OwnSole ==
  ASSUME FipTyped, Meets, NEW w \in Floating, Steps1(w), w \in Floating', met[w] = {},
         Mine(w), Sole(w)
  PROVE  Sole(w)'
<1>1. w \in Workers /\ stage[w] # "idle" /\ ~IsFirewall(w) /\ job[w].a \in Addresses
  BY OwnAddress
<1>2. OwnRow(w) /\ job'[w] = job[w] /\ stage'[w] # "idle"
  BY <1>1, OwnTable, FloatingStep
<1>3. PICK a \in Addresses : a = job[w].a
  BY <1>1
<1>4. PICK s : s = stage[w]
  OBVIOUS
<1>5. PICK t : t = stage'[w]
  OBVIOUS
<1>6. /\ s \in OnBridge => (a \in device <=> Attaches(w))
      /\ s \in OnBridge \ {"commit"} => (a \in profile <=> Attaches(w))
      /\ s = "undo_commit" => (a \in device <=> ~Attaches(w))
      /\ s = "refused" => (a \in profile <=> a \in device)
  BY <1>3, <1>4 DEF Mine, Sole
<1>7. t \in OnBridge \ {"commit"} => (a \in profile' <=> Attaches(w))
  BY <1>2, <1>3, <1>4, <1>5, <1>6 DEF OwnRow, Moves, SameHost, OnBridge, Ends
<1>8. /\ t = "undo_commit" => (a \in device' <=> ~Attaches(w))
      /\ t = "refused" => (a \in profile' <=> a \in device')
  BY <1>2, <1>3, <1>4, <1>5, <1>6 DEF OwnRow, Moves, SameHost, OnBridge, Ends
<1>9. QED
  BY <1>2, <1>3, <1>5, <1>7, <1>8 DEF Sole, Attaches

(* The rules of an address its handler does not serve.                     *)
LEMMA OtherRules ==
  ASSUME FipTyped, SnapInv, NEW w \in Workers, Steps1(w), NEW a \in Addresses,
         w \notin WorkingOn(a), NEW f \in Fixed
  PROVE  /\ <<a, f>> \in nat' <=> <<a, f>> \in nat
         /\ ~overlapped => (<<a, f>> \in xml' <=> <<a, f>> \in xml)
<1>1. <<a, f>> \in Redirects /\ (w \in Floating => <<a, f>> # Rule(w))
  BY DEF Redirects, Rule, WorkingOn
<1>2. PICK r \in Redirects : r = <<a, f>>
  BY <1>1
<1>3. /\ r \in nat' <=> r \in nat
      /\ (xml' = snap[w] /\ stage[w] = "update") \/ (r \in xml' <=> r \in xml)
  BY <1>1, <1>2, RuleElsewhere
<1>4. ~overlapped /\ stage[w] = "update" => snap[w] = xml
  BY DEF SnapInv
<1>5. QED
  BY <1>2, <1>3, <1>4

LEMMA StepOwned ==
  ASSUME FipTyped, FlagStandsUnlessRaced, Meets, Rules, Owned,
         NEW w \in Workers, Steps1(w), overlapped' = (overlapped \/ Crowded')
  PROVE  Owned'
<1>1. /\ \A u \in Floating' : u \in Floating /\ job'[u] = job[u] /\ met'[u] = met[u]
      /\ \A u \in Workers : u # w => stage'[u] = stage[u]
      /\ w \notin Floating => IsFirewall(w)
  BY FloatingStep
<1>2. overlapped \in BOOLEAN /\ (overlapped => overlapped')
  BY DEF Rules, Uniq
<1>3. ASSUME NEW u \in Floating', job[u].a \notin met[u]
      PROVE  Mine(u)'
  <2>1. u \in Floating /\ Mine(u) /\ job'[u] = job[u]
    BY <1>1, <1>3 DEF Owned, MineInv
  <2>2. CASE u = w
    BY <1>2, <1>3, <2>1, <2>2, OwnMine
  <2>3. CASE u # w
    <3>1. u \in Workers /\ job[u].a \in Addresses /\ w \notin WorkingOn(job[u].a)
      BY <1>3, <2>1, <2>3, OwnAddress
    <3>2. PICK a \in Addresses : a = job[u].a
      BY <3>1
    <3>3. /\ a \in device' <=> a \in device
          /\ fixed'[a] = fixed[a]
      BY <3>1, <3>2, Elsewhere
    <3>4. \A f \in Fixed : /\ <<a, f>> \in nat' <=> <<a, f>> \in nat
                           /\ ~overlapped => (<<a, f>> \in xml' <=> <<a, f>> \in xml)
      BY <3>1, <3>2, OtherRules DEF Rules
    <3>5. /\ stage'[u] = stage[u] /\ job[u].f \in Fixed
          /\ Rule(u) = <<a, job[u].f>> /\ Rule(u)' = Rule(u)
      BY <1>1, <2>1, <2>3, <3>1, <3>2, JobParts DEF Rule, Floating, Busy
    <3>6. /\ Rule(u) \in nat' <=> Rule(u) \in nat
          /\ ~overlapped => (Rule(u) \in xml' <=> Rule(u) \in xml)
      BY <3>4, <3>5
    <3>7. ~overlapped => (RestAgrees(u)' <=> RestAgrees(u))
      BY <2>1, <3>2, <3>4 DEF RestAgrees
    <3>8. QED
      BY <1>2, <2>1, <3>2, <3>3, <3>5, <3>6, <3>7 DEF Mine, Attaches
  <2>4. QED
    BY <2>2, <2>3
<1>4. ASSUME NEW u \in Floating', met[u] = {}
      PROVE  Sole(u)'
  <2>1. u \in Floating /\ Mine(u) /\ Sole(u) /\ job'[u] = job[u] /\ u \in Workers
    BY <1>1, <1>4 DEF Owned, MineInv, SoleInv, Floating, Busy
  <2>2. CASE u = w
    BY <1>4, <2>1, <2>2, OwnSole
  <2>3. CASE u # w
    <3>1. w \notin Floating
      BY <1>4, <2>1, <2>3 DEF Meets
    <3>2. SameHost /\ stage'[u] = stage[u]
      BY <1>1, <2>1, <2>3, <3>1, FirewallStep
    <3>3. QED
      BY <2>1, <3>2 DEF Sole, SameHost, Attaches
  <2>4. QED
    BY <2>2, <2>3
<1>5. \A u \in Floating' : met'[u] = met[u] /\ job'[u] = job[u]
  BY <1>1
<1>6. MineInv'
  BY <1>3, <1>5 DEF MineInv
<1>7. SoleInv'
  BY <1>4, <1>5 DEF SoleInv
<1>8. QED
  BY <1>6, <1>7 DEF Owned

LEMMA ArriveOwned ==
  ASSUME FipTyped, TypeOK', Owned, Rules, NEW w \in Workers, NEW j \in Jobs, Arrive(w, j),
         overlapped' = (overlapped \/ Crowded')
  PROVE  Owned'
<1>1. /\ \A u \in Workers : u # w => job'[u] = job[u] /\ stage'[u] = stage[u]
      /\ job'[w] = j /\ stage[w] = "idle" /\ stage'[w] \in {"lock", "iface"}
      /\ device' = device /\ profile' = profile /\ nat' = nat /\ xml' = xml
      /\ fixed' = fixed /\ overlapped \in BOOLEAN /\ (overlapped => overlapped')
  BY ArriveTyped DEF Arrive, Rules, Uniq
<1>2. w \in Floating' => stage'[w] = "iface"
  BY <1>1 DEF Arrive, Floating, Busy, IsFirewall, GoOn, FipTyped
<1>3. \A u \in Floating' : u # w =>
        u \in Floating /\ u \in Workers /\ (met'[u] = met[u] \/ met'[u] = met[u] \cup {j.a})
  <2>1. \A u \in Floating' : u # w => u \in Floating /\ u \in Workers
    BY <1>1 DEF Floating, Busy, IsFirewall
  <2>2. QED
    BY <2>1 DEF Arrive
<1>4. ASSUME NEW u \in Floating', u # w
      PROVE  /\ job'[u].a \notin met'[u] => Mine(u)'
             /\ met'[u] = {} => Sole(u)'
  <2>1. u \in Floating /\ job'[u] = job[u] /\ stage'[u] = stage[u]
        /\ (met'[u] = met[u] \/ met'[u] = met[u] \cup {j.a})
    BY <1>1, <1>3, <1>4
  <2>2. job'[u].a \notin met'[u] => Mine(u)
    BY <2>1 DEF Owned, MineInv
  <2>3. met'[u] = {} => Sole(u)
    BY <2>1 DEF Owned, SoleInv
  <2>4. QED
    BY <1>1, <2>1, <2>2, <2>3 DEF Mine, Sole, Attaches, Rule, RestAgrees
<1>5. w \in Floating' => Mine(w)' /\ Sole(w)'
  BY <1>2 DEF Mine, Sole, OnBridge, InNat, InXml
<1>6. \A u \in Floating' : /\ job'[u].a \notin met'[u] => Mine(u)'
                           /\ met'[u] = {} => Sole(u)'
  BY <1>4, <1>5
<1>7. QED
  BY <1>6 DEF Owned, MineInv, SoleInv

LEMMA NextOwned ==
  ASSUME FipTyped, TypeOK', FlagStandsUnlessRaced, Meets, Rules, Owned, FipNext
  PROVE  Owned'
<1>1. CASE FipCrash \/ FipReboot
  BY <1>1, EndTyped DEF Owned, MineInv, SoleInv
<1>2. ASSUME overlapped' = (overlapped \/ Crowded'), Regular
      PROVE  Owned'
  BY <1>2, StepOwned, ArriveOwned DEF Regular
<1>3. QED
  BY <1>1, <1>2 DEF FipNext, Regular, Steps1

-----------------------------------------------------------------------------
(* An address no handler is at work on keeps what the last one left in     *)
(* step.  Where the connection is in step, every NM.Client's picture shows *)
(* the address as it is, so that writing the connection back keeps it.     *)
Calm(a) == ~overlapped /\ \A w \in WorkingOn(a) : stage[w] \in {"iface", "rejected"}
Seen(a) ==
  \A u \in Floating : stage[u] \in Viewing => (a \in view[u].profile <=> a \in profile)

InStep(a) ==
  /\ agreed[a] \in {"all", "live"} => RuleInStep(a)
  /\ agreed[a] \in {"all", "iface"} => (a \in device <=> a \in profile) /\ Seen(a)

Agreed == \A a \in Addresses : Calm(a) => InStep(a)

(* What a step does to the picture of its handler's NM.Client.             *)
LEMMA ViewMoves ==
  ASSUME FipTyped, NEW w \in Workers, Steps1(w), ~IsFirewall(w), stage'[w] \in Viewing
  PROVE  /\ stage[w] \in Viewing
         /\ view'[w].profile = view[w].profile \/ view'[w].profile = profile'
<1>1. view \in [Workers -> [device : SUBSET Addresses, profile : SUBSET Addresses]]
  BY DEF FipTyped
<1>2. ~Answer(w) /\ ~Enter(w)
  BY DEF Answer, Idle, Enter, GoOn, Viewing, FipTyped
<1>3. view'[w].profile = view[w].profile \/ view'[w].profile = profile'
  <2>1. CASE Commit(w)
    BY <1>1, <2>1 DEF Commit
  <2>2. CASE NMRefreshes(w)
    BY <1>1, <2>2 DEF NMRefreshes, hostVars
  <2>3. CASE ~Commit(w) /\ ~NMRefreshes(w)
    BY <1>2, <2>3 DEF Steps1, FipStep, Iface, CommitFails, Wait, Work, Check, Apply, CommandFails,
       QueryXML, ChangeXML, DBusFails, GetSettings, Update, Unset, UndoIface, UndoCommit, hostVars
  <2>4. QED
    BY <2>1, <2>2, <2>3
<1>4. stage[w] \in Viewing
  BY StepsBusy, OwnTable DEF OwnRow, Moves, Viewing, Ends
<1>5. QED
  BY <1>3, <1>4

LEMMA BothRules ==
  ASSUME FipTyped, NEW a \in Addresses, RuleInStep(a)
  PROVE  <<a, fixed[a]>> \in nat <=> <<a, fixed[a]>> \in xml
<1>1. CASE fixed[a] \in Fixed
  BY <1>1 DEF RuleInStep
<1>2. CASE fixed[a] \notin Fixed
  BY <1>2 DEF FipTyped, Redirects
<1>3. QED
  BY <1>1, <1>2

(* The rules of an address stay in step when they and the address are left *)
(* alone.                                                                  *)
LEMMA SameRules ==
  ASSUME FipTyped, FipTyped', NEW a \in Addresses, RuleInStep(a),
         a \in device' <=> a \in device, fixed'[a] = fixed[a],
         \A f \in Fixed : /\ <<a, f>> \in nat' <=> <<a, f>> \in nat
                          /\ <<a, f>> \in xml' <=> <<a, f>> \in xml
  PROVE  RuleInStep(a)'
<1>1. <<a, fixed[a]>> \in nat' <=> <<a, fixed[a]>> \in nat
  <2>1. CASE fixed[a] \in Fixed
    BY <2>1
  <2>2. CASE fixed[a] \notin Fixed
    BY <2>2 DEF FipTyped, Redirects
  <2>3. QED
    BY <2>1, <2>2
<1>2. QED
  BY <1>1 DEF RuleInStep

(* A step of a handler of another address, or of none.                     *)
LEMMA AgreedElsewhere ==
  ASSUME FipTyped, FipTyped', Rules, Agreed, NEW w \in Workers, Steps1(w), NEW a \in Addresses,
         w \notin WorkingOn(a), ~overlapped,
         \A u \in WorkingOn(a)' : stage'[u] \in {"iface", "rejected"}
  PROVE  InStep(a)'
<1>1. /\ \A u \in Floating' : u \in Floating /\ job'[u] = job[u]
      /\ \A u \in Floating : u # w => u \in Floating'
      /\ \A u \in Workers : u # w => stage'[u] = stage[u] /\ view'[u] = view[u]
      /\ w \in Floating => (w \in Floating' <=> stage'[w] # "idle")
  BY FloatingStep
<1>2. Calm(a)
  <2>1. ASSUME NEW u \in WorkingOn(a) PROVE stage[u] \in {"iface", "rejected"}
    <3>1. u \in Workers /\ u \in Floating /\ u # w /\ job[u].a = a
      BY DEF WorkingOn, Floating, Busy
    <3>2. u \in WorkingOn(a)' /\ stage'[u] = stage[u]
      BY <1>1, <3>1 DEF WorkingOn
    <3>3. QED
      BY <3>2
  <2>2. QED
    BY <2>1 DEF Calm
<1>3. InStep(a)
  BY <1>2 DEF Agreed
<1>4. /\ a \in device' <=> a \in device
      /\ \/ a \in profile' <=> a \in profile
         \/ /\ w \in Floating /\ stage[w] \in Viewing
            /\ a \in profile' <=> a \in view[w].profile
      /\ agreed'[a] = agreed[a] /\ fixed'[a] = fixed[a]
  BY Elsewhere
<1>5. RuleInStep(a) => RuleInStep(a)'
  BY <1>4, OtherRules, SameRules DEF Rules
<1>6. ASSUME Seen(a)
      PROVE  (a \in profile' <=> a \in profile) /\ Seen(a)'
  <2>1. a \in profile' <=> a \in profile
    BY <1>4, <1>6 DEF Seen
  <2>2. ASSUME NEW u \in Floating', stage'[u] \in Viewing
        PROVE  a \in view'[u].profile <=> a \in profile'
    <3>1. u \in Floating /\ u \in Workers
          /\ (stage[u] \in Viewing => (a \in view[u].profile <=> a \in profile))
      BY <1>1, <1>6, <2>2 DEF Seen, Floating, Busy
    <3>2. CASE u = w
      <4>1. ~IsFirewall(w)
        BY <1>1, <3>1, <3>2 DEF Floating
      <4>2. QED
        BY <2>1, <2>2, <3>1, <3>2, <4>1, ViewMoves
    <3>3. CASE u # w
      BY <1>1, <2>1, <2>2, <3>1, <3>3
    <3>4. QED
      BY <3>2, <3>3
  <2>3. QED
    BY <2>1, <2>2 DEF Seen
<1>7. QED
  BY <1>3, <1>4, <1>5, <1>6 DEF InStep

(* The answer of the handler of the address.                               *)
LEMMA AgreedAnswer ==
  ASSUME FipTyped, Meets, Owned, NEW w \in Floating, Answer(w), ~overlapped,
         NEW a \in Addresses, a = job[w].a, stage[w] = "rejected" => InStep(a)
  PROVE  InStep(a)'
<1>1. /\ w \in Workers /\ stage[w] # "idle" /\ ~IsFirewall(w) /\ job[w].a \in Addresses
      /\ agreed \in [Addresses -> {"all", "live", "iface", "no"}]
      /\ stage \in [Workers -> Stages]
  BY JobParts DEF Floating, Busy, FipTyped
<1>2. /\ device' = device /\ nat' = nat /\ xml' = xml /\ profile' = profile /\ fixed' = fixed
      /\ agreed' = [agreed EXCEPT ![job[w].a] = Outcome(w)]
      /\ stage[w] \in Ends
  BY <1>1 DEF Answer, hostVars, Ends
<1>3. /\ \A u \in Floating' : u \in Floating /\ u # w /\ u \in Workers
      /\ \A u \in Workers : u # w => view'[u] = view[u] /\ stage'[u] = stage[u]
  <2>1. Steps1(w) /\ stage'[w] = "idle"
    BY <1>1 DEF Steps1, FipStep, Answer, Idle, GoOn
  <2>2. QED
    BY <1>1, <2>1, FloatingStep DEF Floating, Busy
<1>4. agreed'[a] = Outcome(w)
  BY <1>1, <1>2
<1>5. CASE stage[w] = "rejected"
  <2>1. agreed'[a] = agreed[a]
    BY <1>4, <1>5 DEF Outcome
  <2>2. InStep(a) /\ (Seen(a) => Seen(a)')
    BY <1>2, <1>3, <1>5 DEF Seen
  <2>3. QED
    BY <1>2, <2>1, <2>2 DEF InStep, RuleInStep
<1>6. CASE stage[w] # "rejected"
  <2>1. /\ agreed'[a] = "all" => stage[w] = "done" /\ met[w] = {}
        /\ agreed'[a] = "live" => stage[w] = "done" /\ a \notin met[w]
        /\ agreed'[a] = "iface" => stage[w] = "refused" /\ met[w] = {}
    BY <1>4, <1>6 DEF Outcome
  <2>2. stage[w] = "done" /\ a \notin met[w] =>
          /\ a \in device <=> Attaches(w)
          /\ fixed[a] = job[w].f
          /\ Rule(w) \in nat <=> Attaches(w)
          /\ Rule(w) \in xml <=> Attaches(w)
          /\ RestAgrees(w)
    BY DEF Owned, MineInv, Mine, OnBridge, InNat, InXml
  <2>3. met[w] = {} => /\ stage[w] = "done" => (a \in profile <=> Attaches(w))
                       /\ stage[w] = "refused" => (a \in profile <=> a \in device)
    BY DEF Owned, SoleInv, Sole, OnBridge
  <2>4. met[w] = {} => Seen(a)'
    BY <1>3 DEF Meets, Seen
  <2>5. stage[w] = "done" /\ a \notin met[w] => RuleInStep(a)'
    BY <1>2, <2>2 DEF RuleInStep, RestAgrees, Rule
  <2>6. QED
    BY <1>2, <2>1, <2>2, <2>3, <2>4, <2>5 DEF InStep
<1>7. QED
  BY <1>5, <1>6

(* A step of the handler of the address that leaves it calm changes        *)
(* nothing.                                                                *)
LEMMA AgreedOwn ==
  ASSUME FipTyped, Meets, Owned, Agreed, NEW w \in Workers, Steps1(w), NEW a \in Addresses,
         w \in WorkingOn(a), ~overlapped,
         \A u \in WorkingOn(a)' : stage'[u] \in {"iface", "rejected"}
  PROVE  InStep(a)'
<1>1. w \in Floating /\ job[w].a = a /\ ~IsFirewall(w) /\ stage[w] # "idle"
  BY DEF WorkingOn, Floating, Busy
<1>2. /\ \A u \in Floating' : u \in Floating /\ job'[u] = job[u]
      /\ \A u \in Floating : u # w => u \in Floating'
      /\ \A u \in Workers : u # w => stage'[u] = stage[u] /\ view'[u] = view[u]
      /\ w \in Floating' <=> stage'[w] # "idle"
  BY <1>1, FloatingStep
<1>3. ASSUME stage[w] \in {"iface", "rejected"}
      PROVE  InStep(a)
  <2>1. ASSUME NEW u \in WorkingOn(a) PROVE stage[u] \in {"iface", "rejected"}
    <3>1. u \in Workers /\ u \in Floating /\ job[u].a = a
      BY DEF WorkingOn, Floating, Busy
    <3>2. CASE u # w
      <4>1. u \in WorkingOn(a)' /\ stage'[u] = stage[u]
        BY <1>2, <3>1, <3>2 DEF WorkingOn
      <4>2. QED
        BY <4>1
    <3>3. QED
      BY <1>3, <3>2
  <2>2. QED
    BY <2>1 DEF Calm, Agreed
<1>4. CASE Answer(w)
  BY <1>1, <1>3, <1>4, AgreedAnswer
<1>5. CASE ~Answer(w)
  <2>1. stage'[w] # "idle" /\ agreed' = agreed /\ job'[w] = job[w]
    BY <1>1, <1>5, OwnStays, OwnTable DEF OwnRow, Moves, Ends
  <2>2. w \in WorkingOn(a)'
    BY <1>1, <1>2, <2>1 DEF WorkingOn
  <2>3. stage'[w] \in {"iface", "rejected"}
    BY <2>2
  <2>4. SameHost /\ stage[w] \in {"iface", "rejected"}
    BY <1>1, <2>3, OwnTable DEF OwnRow, Moves, Ends
  <2>5. InStep(a) /\ (Seen(a) => Seen(a)')
    <3>1. stage'[w] \in Viewing =>
            /\ stage[w] \in Viewing
            /\ view'[w].profile = view[w].profile \/ view'[w].profile = profile'
      BY <1>1, ViewMoves
    <3>2. ASSUME Seen(a), NEW u \in Floating', stage'[u] \in Viewing
          PROVE  a \in view'[u].profile <=> a \in profile'
      BY <1>2, <2>4, <3>1, <3>2 DEF Seen, SameHost, Floating, Busy
    <3>3. QED
      BY <1>3, <2>4, <3>2 DEF Seen
  <2>6. fixed' = fixed
    BY <1>1, <2>3, FixedStep DEF FipTyped
  <2>7. QED
    BY <2>1, <2>4, <2>5, <2>6 DEF InStep, SameHost, RuleInStep
<1>6. QED
  BY <1>4, <1>5

LEMMA ArriveAgreed ==
  ASSUME FipTyped, TypeOK', Agreed, NEW w \in Workers, NEW j \in Jobs, Arrive(w, j),
         ~overlapped, NEW a \in Addresses,
         \A u \in WorkingOn(a)' : stage'[u] \in {"iface", "rejected"}
  PROVE  InStep(a)'
<1>1. /\ \A u \in Workers : u # w => /\ job'[u] = job[u] /\ stage'[u] = stage[u]
                                     /\ view'[u] = view[u]
      /\ job'[w] = j /\ stage[w] = "idle" /\ stage'[w] \in {"lock", "iface"}
      /\ device' = device /\ profile' = profile /\ nat' = nat /\ xml' = xml
      /\ agreed' = agreed /\ fixed' = fixed
  BY ArriveTyped DEF Arrive
<1>2. w \in Floating' => view'[w].profile = profile
  BY <1>1 DEF Arrive, Floating, IsFirewall, FipTyped
<1>3. \A u \in Floating' : u # w => u \in Floating /\ u \in Workers
  BY <1>1 DEF Floating, Busy, IsFirewall
<1>4. \A u \in WorkingOn(a) : stage[u] \in {"iface", "rejected"}
  <2>1. ASSUME NEW u \in WorkingOn(a) PROVE stage[u] \in {"iface", "rejected"}
    <3>1. u \in Workers /\ u # w /\ u \in Floating /\ job[u].a = a
      BY <1>1 DEF WorkingOn, Floating, Busy
    <3>2. u \in WorkingOn(a)' /\ stage'[u] = stage[u]
      BY <1>1, <3>1 DEF WorkingOn, Floating, Busy, IsFirewall
    <3>3. QED
      BY <3>2
  <2>2. QED
    BY <2>1
<1>5. InStep(a)
  BY <1>4 DEF Agreed, Calm
<1>6. Seen(a) => Seen(a)'
  BY <1>1, <1>2, <1>3 DEF Seen
<1>7. QED
  BY <1>1, <1>5, <1>6 DEF InStep, RuleInStep

(* A crash forgets what it interrupts; a reboot brings the bridge up from  *)
(* the connection and the rules from firewalld's configuration.            *)
LEMMA EndAgreed ==
  ASSUME FipTyped, TypeOK', Agreed, FipCrash \/ FipReboot, NEW a \in Addresses, ~overlapped'
  PROVE  InStep(a)'
<1>1. Seen(a)'
  BY EndTyped DEF Seen
<1>f. fixed' = fixed
  BY DEF FipCrash, FipReboot, HandlersDie
<1>2. CASE agreed'[a] = "no"
  BY <1>2 DEF InStep
<1>3. CASE agreed'[a] # "no"
  <2>1. CASE FipCrash
    <3>1. /\ WorkingOn(a) = {} /\ agreed'[a] = agreed[a] /\ ~overlapped
          /\ device' = device /\ profile' = profile /\ nat' = nat /\ xml' = xml
      BY <1>3, <2>1 DEF FipCrash, hostVars
    <3>2. InStep(a)
      BY <3>1 DEF Agreed, Calm
    <3>3. QED
      BY <1>1, <1>f, <3>1, <3>2 DEF InStep, RuleInStep
  <2>2. CASE FipReboot
    <3>1. /\ WorkingOn(a) = {} /\ agreed'[a] = agreed[a] /\ ~overlapped /\ agreed[a] # "live"
          /\ device' = profile /\ profile' = profile /\ nat' = xml /\ xml' = xml
      BY <1>3, <2>2 DEF FipReboot
    <3>2. InStep(a) /\ agreed[a] \in {"all", "iface"}
      BY <1>3, <3>1 DEF Agreed, Calm, FipTyped
    <3>3. agreed[a] = "all" => RuleInStep(a)'
      BY <1>f, <3>1, <3>2, BothRules DEF InStep, RuleInStep
    <3>4. QED
      BY <1>1, <3>1, <3>2, <3>3 DEF InStep
  <2>3. QED
    BY <2>1, <2>2
<1>4. QED
  BY <1>2, <1>3

LEMMA NextAgreed ==
  ASSUME FipTyped, TypeOK', Meets, Rules, Owned, Agreed, FipNext
  PROVE  Agreed'
<1>t. FipTyped'
  BY NextTyped
<1> SUFFICES ASSUME NEW a \in Addresses, Calm(a)' PROVE InStep(a)'
  BY DEF Agreed
<1>1. ~overlapped' /\ \A u \in WorkingOn(a)' : stage'[u] \in {"iface", "rejected"}
  BY DEF Calm
<1>2. CASE FipCrash \/ FipReboot
  BY <1>1, <1>2, EndAgreed
<1>3. ASSUME Regular, overlapped' = (overlapped \/ Crowded')
      PROVE  InStep(a)'
  <2>1. ~overlapped
    BY <1>1, <1>3
  <2>2. CASE \E w \in Workers, j \in Jobs : Arrive(w, j)
    BY <1>1, <2>1, <2>2, ArriveAgreed
  <2>3. ASSUME NEW w \in Workers, Steps1(w) PROVE InStep(a)'
    <3>1. CASE w \in WorkingOn(a)
      BY <1>1, <2>1, <2>3, <3>1, AgreedOwn
    <3>2. CASE w \notin WorkingOn(a)
      BY <1>1, <1>t, <2>1, <2>3, <3>2, AgreedElsewhere
    <3>3. QED
      BY <3>1, <3>2
  <2>4. QED
    BY <1>3, <2>2, <2>3 DEF Regular
<1>4. QED
  BY <1>2, <1>3 DEF FipNext, Regular, Steps1

-----------------------------------------------------------------------------
(* An address that no handler went astray with has no rule but the one the *)
(* last handler named, and nobody is about to write another.               *)
Lone(a) ==
  /\ \A f \in Fixed : f # fixed[a] =>
       /\ <<a, f>> \notin nat /\ <<a, f>> \notin xml
       /\ \A w \in Workers : stage[w] = "update" => <<a, f>> \notin snap[w]
  /\ \A w \in WorkingOn(a) : stage[w] \in OnBridge => job[w].f = fixed[a]

Single == \A a \in Addresses : a \notin astray => Lone(a)

(* A handler that changes what is known of the fixed address finds no rule *)
(* of its address.                                                         *)
LEMMA StepNewFixed ==
  ASSUME FipTyped, Rules, Agreed, NEW w \in Workers, Iface(w), Recorded(w),
         stage' = [stage EXCEPT ![w] = "commit"], With(w, device) # device,
         NEW a \in Addresses, a = job[w].a, a \notin astray', a \notin astray, Lone(a),
         job[w].f # fixed[a]
  PROVE  Lone(a)'
<1>1. /\ stage[w] = "iface" /\ ~IsFirewall(w) /\ job[w].f \in Fixed /\ w \in Floating
      /\ stage \in [Workers -> Stages]
  BY JobParts DEF Iface, At, FipTyped, Placed, Ifaces
<1>2. ~Strays(w) /\ fixed'[a] = job[w].f
  BY <1>1 DEF Recorded, FipTyped
<1>3. /\ ~overlapped /\ Attaches(w) /\ agreed[a] \in {"all", "live"} /\ WorkingOn(a) = {w}
  BY <1>1, <1>2, JobParts DEF Strays, Attaches
<1>4. RuleInStep(a)
  BY <1>1, <1>3 DEF Agreed, Calm, InStep
<1>5. a \notin device
  BY <1>1, <1>3, WithSet DEF FipTyped
<1>6. \A f \in Fixed : <<a, f>> \notin nat /\ <<a, f>> \notin xml
  BY <1>4, <1>5 DEF RuleInStep, Lone
<1>7. nat' = nat /\ xml' = xml /\ snap' = snap /\ job' = job
  BY DEF Iface
<1>8. \A u \in Workers : stage'[u] = "update" => snap'[u] = xml'
  BY <1>1, <1>3, <1>7 DEF Rules, SnapInv
<1>9. \A u \in WorkingOn(a)' : u = w
  BY <1>1, <1>3, <1>7 DEF WorkingOn, Floating, Busy, IsFirewall
<1>10. QED
  BY <1>2, <1>6, <1>7, <1>8, <1>9 DEF Lone

(* A step that leaves the known fixed address as it is adds no other rule. *)
LEMMA StepOldFixed ==
  ASSUME FipTyped, NEW w \in Workers, Steps1(w), NEW a \in Addresses, Lone(a),
         fixed'[a] = fixed[a]
  PROVE  Lone(a)'
<1>1. /\ \A u \in Floating' : u \in Floating /\ job'[u] = job[u]
      /\ \A u \in Workers : u # w => stage'[u] = stage[u] /\ snap'[u] = snap[u]
      /\ stage[w] # "idle"
  BY FloatingStep, StepsBusy
<1>2. ~IsFirewall(w) => w \in Floating /\ OwnRow(w)
  BY <1>1, JobParts, OwnTable
<1>3. IsFirewall(w) => /\ nat' = nat /\ xml' = xml
                       /\ stage'[w] \in {"lock", "work", "unset", "idle"} \cup Ends
  BY FirewallStep DEF SameHost
<1>4. ASSUME NEW f \in Fixed, f # fixed[a]
      PROVE  /\ <<a, f>> \notin nat' /\ <<a, f>> \notin xml'
             /\ \A u \in Workers : stage'[u] = "update" => <<a, f>> \notin snap'[u]
  <2>1. PICK r \in Redirects : r = <<a, f>>
    BY DEF Redirects
  <2>2. r \notin nat /\ r \notin xml /\ \A u \in Workers : stage[u] = "update" => r \notin snap[u]
    BY <1>4, <2>1 DEF Lone
  <2>3. r \notin nat' /\ r \notin xml'
    <3>1. CASE w \in Floating /\ r = Rule(w)
      <4>1. w \in WorkingOn(a) /\ job[w].f # fixed[a] /\ ~IsFirewall(w)
        BY <1>4, <2>1, <3>1 DEF WorkingOn, Rule, Floating
      <4>2. stage[w] \notin OnBridge
        BY <4>1 DEF Lone
      <4>3. nat' = nat /\ xml' = xml
        BY <1>2, <4>1, <4>2 DEF OwnRow, Moves, SameHost, OnBridge
      <4>4. QED
        BY <2>2, <4>3
    <3>2. CASE w \in Floating => r # Rule(w)
      BY <2>2, <3>2, RuleElsewhere
    <3>3. QED
      BY <3>1, <3>2
  <2>4. ASSUME NEW u \in Workers, stage'[u] = "update"
        PROVE  r \notin snap'[u]
    <3>1. CASE u # w
      BY <1>1, <2>2, <2>4, <3>1
    <3>2. CASE u = w
      <4>1. ~IsFirewall(w)
        BY <1>3, <2>4, <3>2 DEF Ends
      <4>2. snap'[w] = xml \/ (stage[w] = "update" /\ NMRefreshes(w))
        BY <1>2, <2>4, <3>2, <4>1 DEF OwnRow, Moves, SameHost, Ends
      <4>3. ~NMRefreshes(w) \/ stage[w] # "update"
        BY DEF NMRefreshes, Viewing
      <4>4. QED
        BY <2>2, <3>2, <4>2, <4>3
    <3>3. QED
      BY <3>1, <3>2
  <2>5. QED
    BY <2>1, <2>3, <2>4
<1>5. ASSUME NEW u \in WorkingOn(a)', stage'[u] \in OnBridge
      PROVE  job'[u].f = fixed'[a]
  <2>1. u \in WorkingOn(a) /\ job'[u] = job[u] /\ u \in Workers /\ u \in Floating
    BY <1>1 DEF WorkingOn, Floating, Busy
  <2>2. CASE stage[u] \in OnBridge
    BY <2>1, <2>2 DEF Lone
  <2>3. CASE stage[u] \notin OnBridge
    <3>1. u = w /\ ~IsFirewall(w) /\ job[w].a = a
      BY <1>1, <1>5, <2>1, <2>3 DEF WorkingOn, Floating
    <3>2. stage[w] = "iface" /\ stage'[w] = "commit"
      BY <1>2, <1>5, <2>3, <3>1 DEF OwnRow, Moves, OnBridge, Ends
    <3>3. Recorded(w)
      BY <3>2, IfaceRecords
    <3>4. QED
      BY <2>1, <3>1, <3>3 DEF Recorded, FipTyped
  <2>4. QED
    BY <2>2, <2>3
<1>6. QED
  BY <1>4, <1>5 DEF Lone

LEMMA StepSingle ==
  ASSUME FipTyped, Rules, Agreed, Single, NEW w \in Workers, Steps1(w)
  PROVE  Single'
<1> SUFFICES ASSUME NEW a \in Addresses, a \notin astray' PROVE Lone(a)'
  BY DEF Single
<1>1. a \notin astray
  BY FixedStep DEF Recorded
<1>2. Lone(a)
  BY <1>1 DEF Single
<1>3. CASE fixed'[a] = fixed[a]
  BY <1>2, <1>3, StepOldFixed
<1>4. CASE fixed'[a] # fixed[a]
  <2>1. /\ Iface(w) /\ Recorded(w) /\ stage' = [stage EXCEPT ![w] = "commit"]
        /\ With(w, device) # device
    BY <1>4, FixedStep
  <2>2. a = job[w].a /\ job[w].f # fixed[a]
    BY <1>4, <2>1 DEF Recorded, FipTyped
  <2>3. QED
    BY <1>1, <1>2, <2>1, <2>2, StepNewFixed
<1>5. QED
  BY <1>3, <1>4

LEMMA NextSingle ==
  ASSUME FipTyped, TypeOK', Rules, Agreed, Single, FipNext
  PROVE  Single'
<1>1. CASE \E w \in Workers : Steps1(w)
  BY <1>1, StepSingle
<1>2. ASSUME NEW w \in Workers, NEW j \in Jobs, Arrive(w, j)
      PROVE  Single'
  <2>1. /\ \A u \in Workers : u # w => job'[u] = job[u] /\ stage'[u] = stage[u]
        /\ stage'[w] \in {"lock", "iface"} /\ stage[w] = "idle"
        /\ snap' = snap /\ nat' = nat /\ xml' = xml /\ fixed' = fixed /\ astray' = astray
    BY <1>2, ArriveTyped DEF Arrive
  <2>2. w \in Floating' => stage'[w] = "iface"
    BY <1>2, <2>1 DEF Arrive, Floating, Busy, IsFirewall, GoOn, FipTyped
  <2>3. ASSUME NEW a \in Addresses, Lone(a) PROVE Lone(a)'
    <3>1. \A u \in Workers : stage'[u] = "update" => stage[u] = "update"
      BY <2>1
    <3>2. \A u \in WorkingOn(a)' : stage'[u] \in OnBridge => u \in WorkingOn(a) /\ u # w
      BY <2>1, <2>2 DEF WorkingOn, Floating, Busy, IsFirewall, OnBridge
    <3>3. \A u \in WorkingOn(a) : u \in Workers
      BY DEF WorkingOn, Floating, Busy
    <3>4. QED
      BY <2>1, <2>3, <3>1, <3>2, <3>3 DEF Lone
  <2>4. QED
    BY <2>1, <2>3 DEF Single
<1>3. CASE FipCrash \/ FipReboot
  <2>1. /\ fixed' = fixed /\ astray' = astray /\ nat' \in {nat, xml} /\ xml' = xml
    BY <1>3 DEF FipCrash, FipReboot, HandlersDie, hostVars
  <2>2. Floating' = {} /\ \A w \in Workers : stage'[w] = "idle"
    BY <1>3, EndTyped
  <2>3. \A a \in Addresses : Lone(a) => Lone(a)'
    BY <2>1, <2>2 DEF Lone, WorkingOn
  <2>4. QED
    BY <2>1, <2>3 DEF Single
<1>4. QED
  BY <1>1, <1>2, <1>3 DEF FipNext, Steps1

-----------------------------------------------------------------------------
(* As long as there is no trouble every handler has its address to itself, *)
(* finds it on the bridge and in the rules alike, and hence finds the      *)
(* rules to change when it comes to them: none leaves without save().      *)
Apart ==
  /\ \A a \in Addresses : agreed[a] \in {"all", "live"}
  /\ \A w \in Floating : job[w].a \notin met[w]

NotYetNat == {"commit", "lock", "check", "query", "apply"}
NotYetXml == NotYetNat \cup {"query_xml", "change_xml"}

Untouched(w) ==
  /\ stage[w] \in NotYetNat => (Rule(w) \in nat <=> ~Attaches(w))
  /\ stage[w] \in NotYetXml => (Rule(w) \in xml <=> ~Attaches(w))

Easy ==
  ~trouble => /\ ~overlapped /\ Apart /\ astray = {}
              /\ \A w \in Floating : Untouched(w)
              /\ Engaged = {} => stateFile # "1"

LEMMA ApartStep ==
  ASSUME FipTyped, TypeOK', Regular, Apart, ~Troubled'
  PROVE  ~overlapped' /\ Apart'
<1>1. FipTyped'
  BY ArriveTyped, TypedStep DEF Regular
<1>2. /\ ~overlapped'
      /\ \A a \in Addresses : agreed'[a] \notin {"no", "iface"}
      /\ \A a \in Addresses : \A u, v \in WorkingOn(a)' : u = v
  BY DEF Troubled
<1>3. \A a \in Addresses : agreed'[a] \in {"all", "live"}
  BY <1>1, <1>2 DEF FipTyped
<1>4. ASSUME NEW w \in Workers, Steps1(w)
      PROVE  \A u \in Floating' : job'[u].a \notin met'[u]
  BY <1>4, FloatingStep DEF Apart
<1>5. ASSUME NEW w \in Workers, NEW j \in Jobs, Arrive(w, j), NEW u \in Floating'
      PROVE  job'[u].a \notin met'[u]
  <2>1. /\ \A v \in Workers : v # w => job'[v] = job[v] /\ stage'[v] = stage[v]
        /\ job'[w] = j /\ stage[w] = "idle" /\ u \in Workers
    BY <1>5, ArriveTyped DEF Arrive, Floating, Busy
  <2>2. u # w => u \in Floating /\ job[u].a \notin met[u]
    BY <2>1 DEF Floating, Busy, IsFirewall, Apart
  <2>3. CASE j.kind = "firewall"
    <3>1. met' = met /\ u # w
      BY <1>5, <2>1, <2>3 DEF Arrive, Floating, IsFirewall
    <3>2. QED
      BY <2>1, <2>2, <3>1
  <2>4. CASE j.kind # "firewall"
    <3>1. met' = [v \in Workers |->
                    IF v = w THEN {job[x].a : x \in Floating}
                    ELSE IF v \in Floating THEN met[v] \cup {j.a} ELSE met[v]]
          /\ stage' = [stage EXCEPT ![w] = "iface"] /\ j.a \in Addresses
      BY <1>5, <2>4, JobsAssumption DEF Arrive, GoOn
    <3>2. w \in WorkingOn(j.a)'
      BY <1>5, <2>1, <2>4, <3>1 DEF WorkingOn, Floating, Busy, IsFirewall, FipTyped
    <3>3. \A x \in Floating : job[x].a # j.a
      <4> SUFFICES ASSUME NEW x \in Floating, job[x].a = j.a PROVE FALSE
        OBVIOUS
      <4>1. x \in Workers /\ x # w /\ job'[x] = job[x] /\ stage'[x] = stage[x]
        BY <2>1 DEF Floating, Busy
      <4>2. x \in WorkingOn(j.a)'
        BY <4>1 DEF WorkingOn, Floating, Busy, IsFirewall
      <4>3. QED
        BY <1>2, <3>1, <3>2, <4>1, <4>2
    <3>4. QED
      BY <2>1, <2>2, <3>1, <3>3
  <2>5. QED
    BY <2>3, <2>4
<1>6. \A u \in Floating' : job'[u].a \notin met'[u]
  BY <1>4, <1>5 DEF Regular
<1>7. QED
  BY <1>2, <1>3, <1>6 DEF Apart

LEMMA OwnUntouched ==
  ASSUME FipTyped, Meets, Agreed, Single, NEW w \in Floating, Steps1(w), w \in Floating',
         ~overlapped, Apart, astray = {}, astray' = {}, Untouched(w)
  PROVE  Untouched(w)'
<1>1. /\ w \in Workers /\ stage[w] # "idle" /\ ~IsFirewall(w) /\ job[w].a \in Addresses
      /\ WorkingOn(job[w].a) = {w} /\ Rule(w) \in Redirects /\ job[w].f \in Fixed
      /\ job[w].kind \in {"attach", "detach"}
  BY OwnAddress, JobParts DEF Apart
<1>2. OwnRow(w) /\ job'[w] = job[w] /\ stage'[w] # "idle" /\ Rule(w)' = Rule(w)
  BY <1>1, OwnTable, FloatingStep DEF Rule
<1>3. PICK a \in Addresses : a = job[w].a
  BY <1>1
<1>r. PICK r \in Redirects : r = Rule(w)
  BY <1>1
<1>4. PICK s : s = stage[w]
  OBVIOUS
<1>5. PICK t : t = stage'[w]
  OBVIOUS
<1>6. s = "iface" /\ t = "commit" => (r \in nat <=> ~Attaches(w)) /\ (r \in xml <=> ~Attaches(w))
  <2> SUFFICES ASSUME s = "iface", t = "commit"
               PROVE  (r \in nat <=> ~Attaches(w)) /\ (r \in xml <=> ~Attaches(w))
    OBVIOUS
  <2>1. RuleInStep(a) /\ Lone(a)
    BY <1>1, <1>3, <1>4 DEF Agreed, Calm, InStep, Apart, Single
  <2>2. a \in device <=> ~Attaches(w)
    BY <1>2, <1>3, <1>4, <1>5 DEF OwnRow, Moves, Ends
  <2>3. ~Strays(w)
    BY <1>1, <1>4, <1>5, IfaceRecords DEF Recorded
  <2>4. job[w].f = fixed[a] \/ Attaches(w)
    BY <1>1, <1>3, <2>3 DEF Strays, Attaches
  <2>5. r = <<a, job[w].f>>
    BY <1>3, <1>r DEF Rule
  <2>6. CASE job[w].f = fixed[a]
    BY <1>1, <2>1, <2>2, <2>5, <2>6 DEF RuleInStep
  <2>7. CASE job[w].f # fixed[a]
    BY <1>1, <2>1, <2>4, <2>5, <2>7 DEF Lone
  <2>8. QED
    BY <2>6, <2>7
<1>7. /\ s \in NotYetNat => (r \in nat <=> ~Attaches(w))
      /\ s \in NotYetXml => (r \in xml <=> ~Attaches(w))
  BY <1>r, <1>4 DEF Untouched
<1>8. t \in NotYetNat => (r \in nat' <=> ~Attaches(w))
  BY <1>2, <1>r, <1>4, <1>5, <1>6, <1>7 DEF OwnRow, Moves, SameHost, NotYetNat, Ends
<1>9. t \in NotYetXml => (r \in xml' <=> ~Attaches(w))
  BY <1>2, <1>r, <1>4, <1>5, <1>6, <1>7 DEF OwnRow, Moves, SameHost, NotYetNat, NotYetXml, Ends
<1>10. QED
  BY <1>2, <1>r, <1>5, <1>8, <1>9 DEF Untouched, Attaches

LEMMA StepUntouched ==
  ASSUME FipTyped, Meets, Rules, Agreed, Single, NEW w \in Workers, Steps1(w), ~overlapped, Apart,
         astray = {}, astray' = {}, \A u \in Floating : Untouched(u)
  PROVE  \A u \in Floating' : Untouched(u)'
<1>1. /\ \A u \in Floating' : u \in Floating /\ job'[u] = job[u]
      /\ \A u \in Workers : u # w => stage'[u] = stage[u]
  BY FloatingStep
<1>2. ASSUME NEW u \in Floating' PROVE Untouched(u)'
  <2>1. u \in Floating /\ Untouched(u) /\ job'[u] = job[u]
    BY <1>1
  <2>2. CASE u = w
    BY <2>1, <2>2, OwnUntouched
  <2>3. CASE u # w
    <3>1. u \in Workers /\ job[u].a \in Addresses /\ w \notin WorkingOn(job[u].a)
      BY <2>1, <2>3, OwnAddress DEF Apart
    <3>2. PICK a \in Addresses : a = job[u].a
      BY <3>1
    <3>3. /\ stage'[u] = stage[u] /\ job[u].f \in Fixed
          /\ Rule(u) = <<a, job[u].f>> /\ Rule(u)' = Rule(u)
      BY <1>1, <2>1, <2>3, <3>1, <3>2, JobParts DEF Rule, Floating, Busy
    <3>4. /\ Rule(u) \in nat' <=> Rule(u) \in nat
          /\ Rule(u) \in xml' <=> Rule(u) \in xml
      BY <3>1, <3>2, <3>3, OtherRules DEF Rules
    <3>5. QED
      BY <2>1, <3>3, <3>4 DEF Untouched, Attaches
  <2>4. QED
    BY <2>2, <2>3
<1>3. QED
  BY <1>2

(* Only Abandon leaves the region with a "1" in the file, and without      *)
(* trouble no handler comes to it.                                         *)
LEMMA StepFree ==
  ASSUME FipTyped, TypeOK', NEW w \in Workers, Steps1(w),
         \A u \in Floating : Untouched(u), Engaged = {} => stateFile # "1",
         \A u \in Workers : stage'[u] \notin {"failed", "skipped"}
  PROVE  Engaged' = {} => stateFile' # "1"
<1>1. TypeOK /\ stage \in [Workers -> Stages] /\ Placed(w)
  BY DEF FipTyped
<1>2. ~Abandon(w)
  <2> SUFFICES ASSUME Abandon(w) PROVE FALSE
    OBVIOUS
  <2>1. stage[w] \in Inside /\ stage[w] # "idle"
    BY <1>1 DEF Abandon, Placed, Inside
  <2>2. pc'[w] = "idle" /\ stage'[w] \notin Inside \cup {"failed", "skipped", "unset"}
    <3>1. pc'[w] = "idle"
      BY <1>1, FileMoves
    <3>2. FipTyped'
      BY TypedStep
    <3>3. QED
      BY <3>1, <3>2 DEF FipTyped, Placed, Unsetting
  <2>3. CASE IsFirewall(w)
    <3>1. stage[w] = "work"
      BY <1>1, <2>1, <2>3 DEF Placed
    <3>2. Work(w)
      BY <2>2, <2>3, <3>1 DEF Steps1, FipStep, NMRefreshes, Floating, Iface, Commit, CommitFails,
         Wait, Enter, Check, Apply, CommandFails, QueryXML, ChangeXML, DBusFails, GetSettings, Update,
         UndoIface, UndoCommit, Answer, At, Unset, UnsetOpen, UnsetClose, Open, Abandon
    <3>3. Finish(w)
      BY <1>1, <2>2, <3>2 DEF Work, GoOn
    <3>4. QED
      BY <1>1, <2>2, <3>3, FileMoves
  <2>4. CASE ~IsFirewall(w)
    <3>1. w \in Floating /\ Untouched(w) /\ OwnRow(w) /\ Rule(w) \in Redirects
      BY <2>1, <2>4, JobParts, OwnTable
    <3>2. stage[w] # "work"
      BY <1>1, <2>4 DEF Placed
    <3>3. PICK r \in Redirects : r = Rule(w)
      BY <3>1
    <3>4. PICK s : s = stage[w]
      OBVIOUS
    <3>5. PICK t : t = stage'[w]
      OBVIOUS
    <3>6. /\ s \in NotYetNat => (r \in nat <=> ~Attaches(w))
          /\ s \in NotYetXml => (r \in xml <=> ~Attaches(w))
      BY <3>1, <3>3, <3>4 DEF Untouched
    <3>7. s \in Inside \ {"work"} /\ t \notin Inside \cup {"failed", "skipped", "unset"}
      BY <2>1, <2>2, <3>2, <3>4, <3>5
    <3>8. QED
      BY <3>1, <3>3, <3>4, <3>5, <3>6, <3>7
      DEF OwnRow, Moves, SameHost, NotYetNat, NotYetXml, Inside, Ends
  <2>5. QED
    BY <2>3, <2>4
<1>3. CASE UNCHANGED stateFileVars
  BY <1>3 DEF stateFileVars, Engaged
<1>4. CASE ~UNCHANGED stateFileVars
  <2>1. Step(w) \/ (\E c \in Clients : Request(w, c))
    BY <1>4 DEF Steps1, FipStep, NMRefreshes, Iface, Commit, CommitFails, Wait, Enter,
       Work, Check, Apply, CommandFails, QueryXML, ChangeXML, DBusFails, GetSettings, Update, Unset,
       UndoIface, UndoCommit, Answer, NothingToDo, StayInside, Step, Clients
  <2>2. CASE \E c \in Clients : Request(w, c)
    BY <1>1, <2>2 DEF Request, Engaged, GoTo, TypeOK, Reading
  <2>3. CASE FirstRead(w) \/ LoopRead(w) \/ Sleep(w)
    BY <1>1, <2>3 DEF FirstRead, LoopRead, Sleep, Admitted, Engaged, GoTo, TypeOK, Reading
  <2>4. CASE ScrubOpen(w) \/ ScrubClose(w) \/ SetOpen(w) \/ UnsetOpen(w) \/ UnsetClose(w)
    BY <2>4 DEF ScrubOpen, ScrubClose, SetOpen, UnsetOpen, UnsetClose, Open
  <2>5. CASE SetClose(w) \/ Finish(w)
    <3>1. w \in Engaged'
      BY <1>1, <2>5 DEF SetClose, Finish, GoTo, TypeOK, Engaged, Reading
    <3>2. QED
      BY <3>1
  <2>6. QED
    BY <1>2, <2>1, <2>2, <2>3, <2>4, <2>5 DEF Step
<1>5. QED
  BY <1>3, <1>4

LEMMA ArriveEasy ==
  ASSUME FipTyped, TypeOK', NEW w \in Workers, NEW j \in Jobs, Arrive(w, j),
         \A u \in Floating : Untouched(u), Engaged = {} => stateFile # "1"
  PROVE  /\ \A u \in Floating' : Untouched(u)'
         /\ Engaged' = {} => stateFile' # "1"
<1>1. /\ \A u \in Workers : u # w => job'[u] = job[u] /\ stage'[u] = stage[u]
      /\ job'[w] = j /\ stage[w] = "idle" /\ stage \in [Workers -> Stages] /\ TypeOK
      /\ nat' = nat /\ xml' = xml
  BY ArriveTyped DEF Arrive, FipTyped
<1>2. w \in Floating' => stage'[w] = "iface"
  BY <1>1 DEF Arrive, Floating, IsFirewall, GoOn
<1>3. w \in Floating' => Untouched(w)'
  BY <1>2 DEF Untouched, NotYetNat, NotYetXml
<1>4. ASSUME NEW u \in Floating', u # w PROVE Untouched(u)'
  <2>1. u \in Floating /\ job'[u] = job[u] /\ stage'[u] = stage[u]
    BY <1>1, <1>4 DEF Floating, Busy, IsFirewall
  <2>2. QED
    BY <1>1, <2>1 DEF Untouched, Attaches, Rule
<1>5. Engaged' = {} => stateFile' # "1"
  <2>1. CASE UNCHANGED stateFileVars
    BY <2>1 DEF stateFileVars, Engaged
  <2>2. CASE Request(w, "mgr")
    BY <1>1, <2>2 DEF Request, Engaged, GoTo, TypeOK, Reading
  <2>3. QED
    BY <2>1, <2>2 DEF Arrive
<1>6. QED
  BY <1>3, <1>4, <1>5

LEMMA NextEasy ==
  ASSUME FipTyped, TypeOK', Meets, Rules, Agreed, Single, Easy, FipNext
  PROVE  Easy'
<1> SUFFICES ASSUME ~trouble'
             PROVE  /\ ~overlapped' /\ Apart' /\ astray' = {}
                    /\ \A w \in Floating' : Untouched(w)'
                    /\ Engaged' = {} => stateFile' # "1"
  BY DEF Easy
<1>1. CASE Regular /\ trouble' = (trouble \/ Troubled')
  <2>1. ~Troubled' /\ ~overlapped /\ Apart /\ astray = {} /\ (\A w \in Floating : Untouched(w))
        /\ (Engaged = {} => stateFile # "1")
    BY <1>1 DEF Easy
  <2>2. ~overlapped' /\ Apart' /\ astray' = {}
    BY <1>1, <2>1, ApartStep DEF Troubled
  <2>3. \A u \in Workers : stage'[u] \notin {"failed", "skipped"}
    BY <2>1 DEF Troubled
  <2>4. CASE \E w \in Workers, j \in Jobs : Arrive(w, j)
    BY <2>1, <2>2, <2>4, ArriveEasy
  <2>5. CASE \E w \in Workers : Steps1(w)
    <3>1. PICK w \in Workers : Steps1(w)
      BY <2>5
    <3>2. \A u \in Floating' : Untouched(u)'
      BY <2>1, <2>2, <3>1, StepUntouched
    <3>3. Engaged' = {} => stateFile' # "1"
      BY <2>1, <2>3, <3>1, StepFree
    <3>4. QED
      BY <2>2, <3>2, <3>3
  <2>6. QED
    BY <1>1, <2>4, <2>5 DEF Regular
<1>2. CASE FipCrash /\ trouble' = (trouble \/ Busy # {})
  <2>1. Floating' = {} /\ FipTyped'
    BY <1>2, EndTyped
  <2>2. ~trouble /\ Busy = {}
    BY <1>2
  <2>3. /\ overlapped' = overlapped /\ stateFile' = stateFile
        /\ agreed' = [a \in Addresses |-> IF WorkingOn(a) = {} THEN agreed[a] ELSE "no"]
        /\ astray' = astray
    BY <1>2 DEF FipCrash, Crash, HandlersDie
  <2>4. \A a \in Addresses : agreed'[a] = agreed[a]
    BY <2>2, <2>3 DEF WorkingOn, Floating
  <2>5. Engaged = {}
    BY <2>2 DEF Busy, FipTyped, Placed, Engaged, Unsetting, Inside
  <2>6. QED
    BY <2>1, <2>2, <2>3, <2>4, <2>5 DEF Easy, Apart
<1>3. CASE FipReboot /\ trouble' = Troubled'
  <2>1. Floating' = {} /\ FipTyped'
    BY <1>3, EndTyped
  <2>2. ~overlapped' /\ stateFile' = "absent"
    BY <1>3 DEF FipReboot, Reboot
  <2>3. astray' = {} /\ \A a \in Addresses : agreed'[a] \in {"all", "live"}
    BY <1>3, <2>1 DEF Troubled, FipTyped
  <2>4. QED
    BY <2>1, <2>2, <2>3 DEF Apart
<1>4. QED
  BY <1>1, <1>2, <1>3 DEF FipNext, Regular, Steps1

-----------------------------------------------------------------------------
(* The inductive invariant: each of its parts is kept with the help of     *)
(* those named before it.                                                  *)
FipInv == Meets /\ Rules /\ Owned /\ Agreed /\ Single /\ Easy

LEMMA InitInv == FipInit => FipInv
<1> SUFFICES ASSUME FipInit PROVE FipInv
  OBVIOUS
<1>1. /\ Floating = {} /\ Engaged = {} /\ stateFile = "absent" /\ raced = FALSE
      /\ overlapped = FALSE /\ nat = {} /\ xml = {} /\ device = {} /\ profile = {}
      /\ \A w \in Workers : stage[w] = "idle"
      /\ \A a \in Addresses : agreed[a] = "all"
      /\ astray = {}
  BY DEF FipInit, Init, Floating, Busy, Engaged
<1>2. Meets /\ Owned
  BY <1>1 DEF Meets, Owned, MineInv, SoleInv
<1>3. Rules
  BY <1>1 DEF Rules, Uniq, Crowded, RulesInv, SnapInv, HeldInv
<1>4. Agreed
  BY <1>1 DEF Agreed, InStep, Seen, RuleInStep
<1>s. Single
  BY <1>1 DEF Single, Lone, WorkingOn
<1>5. Easy
  BY <1>1 DEF Easy, Apart
<1>6. QED
  BY <1>2, <1>3, <1>4, <1>s, <1>5 DEF FipInv

LEMMA NextInv ==
  FipTyped /\ TypeOK' /\ FlagStandsUnlessRaced /\ FipInv /\ [FipNext]_floatingIPVars => FipInv'
<1> SUFFICES ASSUME FipTyped, TypeOK', FlagStandsUnlessRaced, FipInv, [FipNext]_floatingIPVars
             PROVE  FipInv'
  OBVIOUS
<1>1. CASE FipNext
  <2>1. Meets'
    <3>1. CASE FipCrash \/ FipReboot
      BY <3>1, EndTyped DEF Meets
    <3>2. CASE Regular
      BY <3>2, RegularMeets DEF FipInv
    <3>3. QED
      BY <1>1, <3>1, <3>2 DEF FipNext, Regular, Steps1
  <2>2. Rules' /\ Owned' /\ Agreed' /\ Single' /\ Easy'
    BY <1>1, NextRules, NextOwned, NextAgreed, NextSingle, NextEasy DEF FipInv
  <2>3. QED
    BY <2>1, <2>2 DEF FipInv
<1>2. CASE UNCHANGED floatingIPVars
  <2>1. /\ UNCHANGED <<device, profile, nat, xml, job, stage, view, snap, met, agreed>>
        /\ UNCHANGED <<stateFile, pc, raced, overlapped, trouble, fixed, astray>>
    BY <1>2 DEF floatingIPVars, fipVars, hostVars, stateFileVars
  <2>2. /\ Floating' = Floating /\ Engaged' = Engaged /\ Leaked' = Leaked
        /\ \A a \in Addresses : WorkingOn(a)' = WorkingOn(a)
        /\ \A w \in Workers : Attaches(w)' = Attaches(w) /\ Rule(w)' = Rule(w)
        /\ \A w \in Workers : RestAgrees(w)' = RestAgrees(w)
    BY <2>1 DEF Floating, Busy, IsFirewall, Engaged, Leaked, WorkingOn, Attaches, Rule, RestAgrees
  <2>3. Floating \subseteq Workers
    BY DEF Floating, Busy
  <2>4. Meets' /\ Owned'
    BY <2>1, <2>2, <2>3 DEF FipInv, Meets, Owned, MineInv, SoleInv, Mine, Sole
  <2>5. Uniq' /\ SnapInv' /\ HeldInv'
    BY <2>1, <2>2 DEF FipInv, Rules, Uniq, Crowded, SnapInv, HeldInv
  <2>6. \A r \in Redirects : Changing(r)' = Changing(r)
    BY <2>1, <2>2, <2>3 DEF Changing
  <2>7. RulesInv'
    BY <2>1, <2>2, <2>6 DEF FipInv, Rules, RulesInv
  <2>8. Agreed'
    BY <2>1, <2>2 DEF FipInv, Agreed, Calm, InStep, RuleInStep, Seen
  <2>9. Single'
    BY <2>1, <2>2 DEF FipInv, Single, Lone
  <2>10. Easy'
    BY <2>1, <2>2, <2>3 DEF FipInv, Easy, Apart, Untouched
  <2>11. QED
    BY <2>4, <2>5, <2>7, <2>8, <2>9, <2>10 DEF FipInv, Rules
<1>3. QED
  BY <1>1, <1>2

LEMMA AlwaysInv == FipSpec => []FipInv
<1>1. FipSpec => [](TypeOK /\ FlagStandsUnlessRaced)
  BY FileTyped
<1>2. FipSpec => []FipTyped
  BY AlwaysTyped
<1>3. QED
  BY <1>1, <1>2, InitInv, NextInv, PTL DEF FipSpec

(* An address is settled only where it is calm.                            *)
LEMMA SettledIsCalm ==
  ASSUME FipInv, NEW a \in Addresses, Settled(a)
  PROVE  InStep(a)
  BY DEF FipInv, Agreed, Calm, Settled

(* A handler that had the host to itself and answers with success leaves   *)
(* its address in bridge and connection, and the rule it named in iptables *)
(* and firewalld's configuration, or neither of them, whatever failed      *)
(* before it, and they stay so over crashes and reboots.                   *)
THEOREM SettledAgree == FipSpec => []AllAgree
<1>1. FipInv => AllAgree
  BY SettledIsCalm DEF AllAgree, InStep
<1>2. QED
  BY <1>1, AlwaysInv, PTL

(* One that shared the host with handlers of other addresses only leaves   *)
(* the redirect working until the host reboots.                            *)
THEOREM SharedAgree == FipSpec => []LiveAgree
<1>1. FipInv => LiveAgree
  BY SettledIsCalm DEF LiveAgree, InStep
<1>2. QED
  BY <1>1, AlwaysInv, PTL

(* One that is_locked() refused has rolled the bridge and the connection   *)
(* back together.                                                          *)
THEOREM RollbackAgrees == FipSpec => []RefusedAgree
<1>1. FipInv => RefusedAgree
  BY SettledIsCalm DEF RefusedAgree, InStep
<1>2. QED
  BY <1>1, AlwaysInv, PTL

(* Without trouble a floating address that no handler is at work on leads  *)
(* to the fixed address of its last attach and nowhere else: detach_ipaddr *)
(* finds the rule that attach_ipaddr made, for any addresses and requests. *)
THEOREM LeadsToOne == FipSpec => []OneRule
<1>1. FipTyped /\ FipInv => OneRule
  <2> SUFFICES ASSUME FipTyped, FipInv, NEW a \in Addresses, ~trouble, Settled(a)
               PROVE  {f \in Fixed : <<a, f>> \in nat} = IF a \in device THEN {fixed[a]} ELSE {}
    BY DEF OneRule
  <2>1. InStep(a) /\ agreed[a] \in {"all", "live"} /\ Lone(a)
    BY SettledIsCalm DEF FipInv, Easy, Apart, Single
  <2>2. RuleInStep(a) /\ (fixed[a] \in Fixed \/ <<a, fixed[a]>> \notin nat)
    BY <2>1 DEF InStep, FipTyped, Redirects
  <2>3. QED
    BY <2>1, <2>2 DEF RuleInStep, Lone
<1>2. QED
  BY <1>1, AlwaysTyped, AlwaysInv, PTL

(* The handlers that leave without save() never do so while all of them    *)
(* succeed, on different addresses when at the same time, and each detach  *)
(* names the fixed address of the attach: the state file comes free.       *)
THEOREM FlagFree == FipSpec => []FlagComesFree
<1>1. FipInv => FlagComesFree
  BY DEF FipInv, Easy, FlagComesFree
<1>2. QED
  BY <1>1, AlwaysInv, PTL
=============================================================================
