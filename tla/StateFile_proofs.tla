--------------------------- MODULE StateFile_proofs ---------------------------
(***************************************************************************)
(* What StateFile promises for every set of handler threads and every      *)
(* timeout.                                                                *)
(***************************************************************************)
EXTENDS StateFile, TLAPS


-----------------------------------------------------------------------------
(* The variables keep their types; in particular the count of is_locked()  *)
(* never passes the timeout.                                               *)

(* A worker in the loop of is_locked() has a sleep left.                   *)
SleepsLeft == \A w \in Workers : pc[w] \in Reading => seconds[w] < Timeout

TypeInv == TypeOK /\ SleepsLeft

LEMMA InitType == Init => TypeInv
<1> SUFFICES ASSUME Init PROVE TypeInv
  OBVIOUS
<1>1. 0 \in 0..Timeout
  BY TimeoutAssumption
<1>2. TypeOK
  BY <1>1 DEF Init, TypeOK, Contents, Steps, Clients
<1>3. SleepsLeft
  BY DEF Init, SleepsLeft, Reading
<1> QED
  BY <1>2, <1>3 DEF TypeInv

LEMMA RequestType ==
  ASSUME TypeInv, NEW w \in Workers, NEW c \in Clients, Request(w, c)
  PROVE  TypeInv'
  BY TimeoutAssumption
  DEF TypeInv, TypeOK, SleepsLeft, Request, GoTo, Contents, Steps, Reading

LEMMA StepType ==
  ASSUME TypeInv, NEW w \in Workers, Step(w)
  PROVE  TypeInv'
<1> USE TimeoutAssumption DEF TypeInv, TypeOK, SleepsLeft, GoTo, Contents,
                              Steps, Reading, Scrubbing, Setting, Holding
<1>a. ASSUME Admitted(w) PROVE TypeInv'
  BY <1>a DEF Admitted
<1>1. CASE FirstRead(w)
  BY <1>1, <1>a DEF FirstRead
<1>2. CASE Sleep(w)
  BY <1>2 DEF Sleep
<1>3. CASE LoopRead(w)
  BY <1>3, <1>a DEF LoopRead
<1>4. CASE ScrubOpen(w) \/ SetOpen(w) \/ UnsetOpen(w)
  BY <1>4 DEF ScrubOpen, SetOpen, UnsetOpen, Open
<1>5. CASE ScrubClose(w)
  BY <1>5 DEF ScrubClose
<1>6. CASE SetClose(w)
  BY <1>6 DEF SetClose
<1>7. CASE Finish(w)
  BY <1>7 DEF Finish
<1>8. CASE Abandon(w)
  BY <1>8 DEF Abandon, LeaveEngaged
<1>9. CASE UnsetClose(w)
  BY <1>9 DEF UnsetClose, LeaveEngaged
<1> QED
  BY <1>1, <1>2, <1>3, <1>4, <1>5, <1>6, <1>7, <1>8, <1>9 DEF Step

LEMMA CrashType ==
  ASSUME TypeInv, Crash \/ Reboot
  PROVE  TypeInv'
  BY DEF TypeInv, TypeOK, SleepsLeft, Crash, Reboot, Contents, Steps, Reading

LEMMA NextType == TypeInv /\ [Next]_stateFileVars => TypeInv'
<1>1. CASE UNCHANGED stateFileVars
  BY <1>1 DEF TypeInv, TypeOK, SleepsLeft, stateFileVars
<1> QED
  BY <1>1, RequestType, StepType, CrashType DEF Next

LEMMA TypeInvariant == Spec => []TypeInv
  BY InitType, NextType, PTL DEF Spec

(* Type correctness.                                                       *)
THEOREM TypeCorrect == Spec => []TypeOK
  BY TypeInvariant, PTL DEF TypeInv

-----------------------------------------------------------------------------
(* The flag excludes unless a handler read it during a write.  Exclusion   *)
(* alone is not inductive: an admission keeps it because a handler that is *)
(* inside shows its "1" (FlagStandsUnlessRaced), and the two together are. *)
ExclusionInv == ExclusiveUnlessRaced /\ FlagStandsUnlessRaced

(* An admission without a race finds nobody engaged.                       *)
LEMMA AdmittedAlone ==
  ASSUME TypeOK, ExclusionInv, NEW w \in Workers, pc[w] \in Reading,
         ~ReadsLocked, Admitted(w)
  PROVE  ExclusionInv'
<1>1. CASE raced'
  BY <1>1 DEF ExclusionInv, ExclusiveUnlessRaced, FlagStandsUnlessRaced
<1>2. CASE ~raced'
  <2>1. ~raced /\ Writing = {}
    BY <1>2 DEF Admitted
  <2>2. \A v \in Workers : pc[v] \notin Holding
    BY <2>1 DEF ExclusionInv, FlagStandsUnlessRaced, ReadsLocked
  <2>3. Engaged = {}
    BY <2>1, <2>2 DEF TypeOK, Writing, Engaged, Steps
  <2>4. Engaged' \subseteq {w}
    BY <2>3 DEF TypeOK, Engaged, Admitted, GoTo
  <2>5. \A v \in Workers : pc'[v] \notin Holding
    BY <2>2 DEF TypeOK, Admitted, GoTo, Holding
  <2> QED
    BY <2>4, <2>5 DEF ExclusionInv, ExclusiveUnlessRaced, FlagStandsUnlessRaced
<1> QED
  BY <1>1, <1>2

LEMMA StepExclusion ==
  ASSUME TypeOK, ExclusionInv, NEW w \in Workers, Step(w)
  PROVE  ExclusionInv'
<1> USE DEF TypeOK, ExclusionInv, ExclusiveUnlessRaced, FlagStandsUnlessRaced,
            GoTo, Engaged, Reading, Scrubbing, Setting, Holding
<1>1. CASE FirstRead(w)
  <2>1. CASE ReadsLocked
    BY <1>1, <2>1 DEF FirstRead, Admitted
  <2>2. CASE ~ReadsLocked
    BY <1>1, <2>2, AdmittedAlone DEF FirstRead
  <2> QED
    BY <2>1, <2>2
<1>2. CASE Sleep(w)
  BY <1>2 DEF Sleep
<1>3. CASE LoopRead(w)
  BY <1>3, AdmittedAlone DEF LoopRead
<1>4. CASE ScrubOpen(w) \/ SetOpen(w) \/ UnsetOpen(w)
  BY <1>4 DEF ScrubOpen, SetOpen, UnsetOpen, Open
<1>5. CASE ScrubClose(w)
  BY <1>5 DEF ScrubClose
<1>6. CASE SetClose(w)
  BY <1>6 DEF SetClose
<1>7. CASE Finish(w)
  BY <1>7 DEF Finish
<1>8. CASE Abandon(w)
  BY <1>8 DEF Abandon, LeaveEngaged
<1>9. CASE UnsetClose(w)
  BY <1>9 DEF UnsetClose, LeaveEngaged
<1> QED
  BY <1>1, <1>2, <1>3, <1>4, <1>5, <1>6, <1>7, <1>8, <1>9 DEF Step

LEMMA NextExclusion ==
  TypeOK /\ ExclusionInv /\ [Next]_stateFileVars => ExclusionInv'
<1> SUFFICES ASSUME TypeOK, ExclusionInv, [Next]_stateFileVars
             PROVE  ExclusionInv'
  OBVIOUS
<1> USE DEF ExclusionInv, ExclusiveUnlessRaced, FlagStandsUnlessRaced
<1>1. CASE \E w \in Workers, c \in Clients : Request(w, c)
  BY <1>1 DEF Request, GoTo, TypeOK, Engaged, Reading, Holding
<1>2. CASE \E w \in Workers : Step(w)
  BY <1>2, StepExclusion
<1>3. CASE Crash \/ Reboot
  BY <1>3 DEF Crash, Reboot, Engaged, Holding
<1>4. CASE UNCHANGED stateFileVars
  BY <1>4 DEF stateFileVars, Engaged, Holding
<1> QED
  BY <1>1, <1>2, <1>3, <1>4 DEF Next

LEMMA ExclusionInvariant == Spec => []ExclusionInv
<1>1. Init => ExclusionInv
  BY DEF Init, ExclusionInv, ExclusiveUnlessRaced, FlagStandsUnlessRaced,
         Engaged, Holding
<1> QED
  BY <1>1, NextExclusion, TypeCorrect, PTL DEF Spec

(* At most one handler changes the firewall at a time, unless one was      *)
(* admitted while another was writing the file.                            *)
THEOREM Exclusion == Spec => []ExclusiveUnlessRaced
  BY ExclusionInvariant, PTL DEF ExclusionInv

(* And meanwhile its "1" stays in the file: neither the "0" of another     *)
(* handler's unset_state() nor its truncation takes it away.               *)
THEOREM FlagStands == Spec => []FlagStandsUnlessRaced
  BY ExclusionInvariant, PTL DEF ExclusionInv

-----------------------------------------------------------------------------
(* A "1" is left behind only by a handler that skipped unset_state().      *)
THEOREM LeakOrigin == Spec => []LeakedOnlyByAbandon
<1>1. Init => LeakedOnlyByAbandon
  BY DEF Init, LeakedOnlyByAbandon
<1>2. TypeOK /\ LeakedOnlyByAbandon /\ [Next]_stateFileVars
        => LeakedOnlyByAbandon'
  <2> SUFFICES ASSUME TypeOK, LeakedOnlyByAbandon, [Next]_stateFileVars
               PROVE  LeakedOnlyByAbandon'
    OBVIOUS
  <2> USE DEF TypeOK, LeakedOnlyByAbandon, GoTo, Holding
  <2>1. CASE \E w \in Workers, c \in Clients : Request(w, c)
    BY <2>1 DEF Request
  <2>2. ASSUME NEW w \in Workers, Step(w) PROVE LeakedOnlyByAbandon'
    <3>1. CASE FirstRead(w) \/ LoopRead(w) \/ Sleep(w)
      BY <3>1 DEF FirstRead, LoopRead, Sleep, Admitted
    <3>2. CASE ScrubOpen(w) \/ SetOpen(w) \/ UnsetOpen(w)
      BY <3>2 DEF ScrubOpen, SetOpen, UnsetOpen, Open
    <3>3. CASE ScrubClose(w) \/ SetClose(w) \/ UnsetClose(w)
      BY <3>3 DEF ScrubClose, SetClose, UnsetClose, LeaveEngaged
    <3>4. CASE Finish(w) \/ Abandon(w)
      BY <3>4 DEF Finish, Abandon, LeaveEngaged
    <3> QED
      BY <2>2, <3>1, <3>2, <3>3, <3>4 DEF Step
  <2>3. CASE Crash \/ Reboot
    BY <2>3 DEF Crash, Reboot
  <2>4. CASE UNCHANGED stateFileVars
    BY <2>4 DEF stateFileVars
  <2> QED
    BY <2>1, <2>2, <2>3, <2>4 DEF Next
<1> QED
  BY <1>1, <1>2, TypeCorrect, PTL DEF Spec

(* Once leaked, the flag admits nobody: a handler can only find it locked. *)
LEMMA LeakStep ==
  ASSUME TypeOK, Leaked,
         \/ \E w \in Workers, c \in Clients : Request(w, c)
         \/ \E w \in Workers : Step(w)
         \/ Crash
  PROVE  Leaked'
<1> USE DEF TypeOK, Leaked, Engaged, GoTo, Reading
<1>1. CASE \E w \in Workers, c \in Clients : Request(w, c)
  BY <1>1 DEF Request
<1>2. ASSUME NEW w \in Workers, Step(w) PROVE Leaked'
  <2>1. pc[w] \in {"idle"} \cup Reading
    OBVIOUS
  <2>2. Sleep(w) \/ FirstRead(w)
    BY <1>2, <2>1
    DEF Step, ReadsLocked, LoopRead, ScrubOpen, SetOpen, UnsetOpen, Open,
        ScrubClose, SetClose, UnsetClose, Finish, Abandon
  <2> QED
    BY <2>2 DEF Sleep, FirstRead, ReadsLocked
<1>3. CASE Crash
  BY <1>3 DEF Crash
<1> QED
  BY <1>1, <1>2, <1>3

(* A leaked "1" is never taken back by the daemon.                         *)
THEOREM LeakStays == Spec => LeakIsForever
<1>1. ASSUME TypeOK, [Next]_stateFileVars, Leaked
      PROVE  Leaked' \/ stateFile' = "absent"
  <2>1. CASE Reboot
    BY <2>1 DEF Reboot
  <2>2. CASE UNCHANGED stateFileVars
    BY <1>1, <2>2 DEF stateFileVars, Leaked, Engaged
  <2> QED
    BY <1>1, <2>1, <2>2, LeakStep DEF Next
<1>2. TypeOK /\ [Next]_stateFileVars
        => [Leaked => Leaked' \/ stateFile' = "absent"]_stateFileVars
  BY <1>1
<1> QED
  BY <1>2, TypeCorrect, PTL DEF Spec, LeakIsForever

-----------------------------------------------------------------------------
(* For the modules that use the state file: a race starts only with two    *)
(* handlers engaged at once, the one admitted and the one writing.         *)
LEMMA RaceIsCrowd ==
  ASSUME TypeOK, Next
  PROVE  raced' => raced \/ Crowded'
<1> USE DEF GoTo
<1>a. ASSUME NEW w \in Workers, pc[w] \in Reading, Admitted(w)
      PROVE  raced' => raced \/ Crowded'
  <2> SUFFICES ASSUME raced', ~raced PROVE Crowded'
    OBVIOUS
  <2>1. PICK v \in Workers : v \in Writing
    BY <1>a DEF Admitted, Writing
  <2>2. v # w /\ v \in Engaged'
    BY <1>a, <2>1 DEF Admitted, Writing, Engaged, Reading, Scrubbing,
                      Setting, TypeOK
  <2>3. w \in Engaged'
    BY <1>a DEF Admitted, Engaged, Reading, TypeOK
  <2> QED
    BY <2>2, <2>3 DEF Crowded
<1>1. CASE \E w \in Workers, c \in Clients : Request(w, c)
  BY <1>1 DEF Request
<1>2. ASSUME NEW w \in Workers, Step(w) PROVE raced' => raced \/ Crowded'
  <2>1. CASE FirstRead(w) \/ LoopRead(w)
    BY <2>1, <1>a DEF FirstRead, LoopRead, Reading
  <2>2. CASE ~(FirstRead(w) \/ LoopRead(w))
    BY <1>2, <2>2
    DEF Step, Sleep, ScrubOpen, SetOpen, UnsetOpen, Open, ScrubClose,
        SetClose, UnsetClose, Finish, Abandon, LeaveEngaged
  <2> QED
    BY <2>1, <2>2
<1>3. CASE Crash \/ Reboot
  BY <1>3 DEF Crash, Reboot
<1> QED
  BY <1>1, <1>2, <1>3 DEF Next

=============================================================================
