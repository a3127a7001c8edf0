--------------------------- MODULE Firewall_proofs ---------------------------
(***************************************************************************)
(* What holds of FirewallMgr for all sets of workers, jobs, firewalls,     *)
(* addresses and rules: what it inherits from the state file, the order of *)
(* the rules of a chain, and the agreement of iptables with firewalld's    *)
(* configuration, of which the jumps, the chains and the order in which an *)
(* operation changes the two sides are the reasons.  At the end: that a    *)
(* request reported done is done, from what is left of a handler's plan    *)
(* and what it has behind it.                                              *)
(***************************************************************************)
EXTENDS Firewall, StateFile_proofs, FiniteSetTheorems

(* Every step of a firewall handler is a step of the state file's protocol *)
(* or leaves it alone.                                                     *)
LEMMA StepImplements ==
  ASSUME NEW w \in Workers, FwStep(w)
  PROVE  Step(w) \/ UNCHANGED stateFileVars
<1>1. CASE Wait(w)
  BY <1>1 DEF Wait, Step
<1>2. CASE Enter(w)
  BY <1>2 DEF Enter, Step
<1>3. CASE Query(w) \/ GetAllRules(w) \/ GetAllChains(w)
  BY <1>3 DEF Query, GetAllRules, GetAllChains, Continue, NextOp
<1>4. CASE Apply(w) \/ QueryCfg(w) \/ ApplyCfg(w)
  BY <1>4 DEF Apply, QueryCfg, ApplyCfg, Continue, NextOp
<1>5. CASE Raise(w) \/ DBusFails(w)
  BY <1>5 DEF Raise, DBusFails, Step
<1>6. CASE GetSettings(w)
  BY <1>6 DEF GetSettings, Continue
<1>7. CASE Update(w) \/ Unset(w)
  BY <1>7 DEF Update, Unset, Step
<1> QED
  BY <1>1, <1>2, <1>3, <1>4, <1>5, <1>6, <1>7 DEF FwStep

LEMMA NextImplements == [FwNext]_firewallVars => [Next]_stateFileVars
<1> SUFFICES ASSUME [FwNext]_firewallVars PROVE [Next]_stateFileVars
  OBVIOUS
<1>1. CASE \E w \in Workers, j \in Jobs : FwRequest(w, j)
  BY <1>1 DEF FwRequest, Next, Clients
<1>2. CASE \E w \in Workers : FwStep(w)
  BY <1>2, StepImplements DEF Next
<1>3. CASE FwCrash \/ FwReboot
  BY <1>3 DEF FwCrash, FwReboot, Next
<1>4. CASE UNCHANGED firewallVars
  BY <1>4 DEF firewallVars, stateFileVars
<1>5. CASE \E w \in Workers : CommandFails(w)
  BY <1>5 DEF CommandFails, NextOp, Continue
<1> QED
  BY <1>1, <1>2, <1>3, <1>4, <1>5 DEF FwNext

(* The firewall handlers follow the state file's protocol.                 *)
THEOREM FirewallImplementsStateFile == FwSpec => Spec
<1>1. FwInit => Init
  BY DEF FwInit
<1> QED
  BY <1>1, NextImplements, PTL DEF FwSpec, Spec

(* Hence at most one handler changes the firewall unless one was admitted  *)
(* during a write, and a leaked flag is never taken back.                  *)
THEOREM FirewallExclusion ==
  FwSpec => [](ExclusiveUnlessRaced /\ FlagStandsUnlessRaced)
BY FirewallImplementsStateFile, Exclusion, FlagStands, PTL

-----------------------------------------------------------------------------
(* A handler that ends half way through an operation keeps the others out. *)
(* This rests on the exclusion above (at the moment of the failure the     *)
(* handler is alone and its "1" stands) and on no admission being possible *)
(* afterwards.                                                             *)

(* A race is an overlap: the handler admitted and the one writing.         *)
OverlapInv ==
  /\ overlapped \/ \A v, w \in Engaged : v = w
  /\ raced => overlapped
  /\ overlapped \in BOOLEAN

CutInv == OverlapInv /\ CutKeepsOthersOut

LEMMA InitCut == FwInit => CutInv
BY DEF FwInit, Init, CutInv, OverlapInv, CutKeepsOthersOut, Engaged

(* The part of FwNext that records overlaps keeps OverlapInv if a race     *)
(* starts only with two handlers engaged.                                  *)
LEMMA OverlapStep ==
  ASSUME OverlapInv, overlapped' = (overlapped \/ Crowded'),
         raced' => raced \/ Crowded'
  PROVE  OverlapInv'
BY DEF OverlapInv, Crowded

(* A handler that is alone and half way through an operation shows its "1" *)
(* to the others.                                                          *)
LEMMA HalfDoneAlone ==
  ASSUME CutInv, FlagStandsUnlessRaced, ~overlapped,
         NEW w \in Workers, HalfDone(w)
  PROVE  stateFile = "1" /\ Engaged = {w}
BY DEF CutInv, OverlapInv, FlagStandsUnlessRaced, HalfDone, Engaged, Holding,
       Reading

(* Of the steps of a handler, only a failure of firewalld cuts it.         *)
LEMMA OnlyFailuresCut ==
  ASSUME NEW w \in Workers, FwStep(w), cut', ~cut
  PROVE  DBusFails(w) /\ HalfDone(w)
<1>1. CASE DBusFails(w)
  BY <1>1 DEF DBusFails
<1>2. CASE Wait(w) \/ Enter(w) \/ Raise(w) \/ Update(w) \/ Unset(w)
  BY <1>2 DEF Wait, Enter, Raise, Update, Unset
<1>3. CASE Query(w) \/ GetAllRules(w) \/ GetAllChains(w) \/ GetSettings(w)
  BY <1>3 DEF Query, GetAllRules, GetAllChains, GetSettings, Continue, NextOp
<1>4. CASE Apply(w) \/ QueryCfg(w) \/ ApplyCfg(w)
  BY <1>4 DEF Apply, QueryCfg, ApplyCfg, Continue, NextOp
<1> QED
  BY <1>1, <1>2, <1>3, <1>4 DEF FwStep

LEMMA NextCut ==
  ASSUME TypeOK, FlagStandsUnlessRaced, CutInv, [FwNext]_firewallVars
  PROVE  CutInv'
<1>1. CASE FwReboot
  BY <1>1 DEF FwReboot, Reboot, CutInv, OverlapInv, CutKeepsOthersOut, Engaged
<1>2. CASE UNCHANGED firewallVars
  BY <1>2 DEF firewallVars, stateFileVars, CutInv, OverlapInv,
              CutKeepsOthersOut, Engaged
<1>3. ASSUME overlapped' = (overlapped \/ Crowded'),
             \/ \E w \in Workers, j \in Jobs : FwRequest(w, j)
             \/ \E w \in Workers : FwStep(w)
             \/ FwCrash
      PROVE  CutInv'
  <2>1. \/ \E w \in Workers, c \in Clients : Request(w, c)
        \/ \E w \in Workers : Step(w)
        \/ Crash
        \/ UNCHANGED stateFileVars
    BY <1>3, StepImplements DEF FwRequest, FwCrash, Clients
  <2>2. raced' => raced \/ Crowded'
    BY <2>1, RaceIsCrowd DEF Next, stateFileVars
  <2>3. OverlapInv'
    BY <1>3, <2>2, OverlapStep DEF CutInv
  <2>4. ASSUME cut', ~overlapped' PROVE stateFile' = "1" /\ Engaged' = {}
    <3>1. ~overlapped
      BY <1>3, <2>4 DEF CutInv, OverlapInv
    <3>2. CASE cut
      <4>1. Leaked
        BY <3>1, <3>2 DEF CutInv, CutKeepsOthersOut, Leaked
      <4>2. Leaked'
        BY <2>1, <4>1, LeakStep DEF Leaked, Engaged, stateFileVars
      <4> QED
        BY <4>2 DEF Leaked
    <3>3. CASE ~cut
      <4>1. CASE \E w \in Workers : DBusFails(w) /\ HalfDone(w)
        <5>1. PICK w \in Workers : DBusFails(w) /\ HalfDone(w)
          BY <4>1
        <5>2. stateFile = "1" /\ Engaged = {w}
          BY <3>1, <5>1, HalfDoneAlone
        <5> QED
          BY <5>1, <5>2 DEF DBusFails, Abandon, LeaveEngaged, GoTo, Engaged,
                            TypeOK, Reading
      <4>2. CASE FwCrash
        <5>1. PICK w \in Workers : HalfDone(w)
          BY <2>4, <3>3, <4>2 DEF FwCrash
        <5>2. stateFile = "1"
          BY <3>1, <5>1, HalfDoneAlone
        <5> QED
          BY <4>2, <5>2 DEF FwCrash, Crash, Engaged
      <4>3. FwCrash \/ \E w \in Workers : DBusFails(w) /\ HalfDone(w)
        BY <1>3, <2>4, <3>3, OnlyFailuresCut DEF FwRequest
      <4> QED
        BY <4>1, <4>2, <4>3
    <3> QED
      BY <3>2, <3>3
  <2> QED
    BY <2>3, <2>4 DEF CutInv, CutKeepsOthersOut
<1>4. CASE (\E w \in Workers : CommandFails(w)) /\ UNCHANGED overlapped
  BY <1>4 DEF CommandFails, NextOp, Continue, stateFileVars, CutInv, OverlapInv,
              CutKeepsOthersOut, Engaged
<1> QED
  BY <1>1, <1>2, <1>3, <1>4 DEF FwNext, Recorded

(* Where a handler ended half way through an operation, everybody else     *)
(* stays out until the host reboots.                                       *)
THEOREM CutIsContained == FwSpec => []CutKeepsOthersOut
<1>1. FwSpec => [](TypeOK /\ FlagStandsUnlessRaced)
  BY FirewallImplementsStateFile, TypeCorrect, FlagStands, PTL
<1>2. TypeOK /\ FlagStandsUnlessRaced /\ CutInv /\ [FwNext]_firewallVars
        => CutInv'
  BY NextCut
<1>3. CutInv => CutKeepsOthersOut
  BY DEF CutInv
<1> QED
  BY <1>1, <1>2, <1>3, InitCut, PTL DEF FwSpec

-----------------------------------------------------------------------------
(* The operators on sequences that the plans and the chains are built with. *)

(* A finite set as a sequence: every element once.                         *)
LEMMA SetToSeqLists ==
  ASSUME NEW S, IsFiniteSet(S)
  PROVE  /\ SetToSeq(S) \in Seq(S)
         /\ ToSet(SetToSeq(S)) = S
         /\ IsInjective(SetToSeq(S))
<1> DEFINE n == Cardinality(S)
           s == SetToSeq(S)
<1>1. n \in Nat /\ ExistsBijection(1..n, S)
  BY FS_CardinalityType
<1>2. \E f \in [1..n -> S] : IsInjective(f)
  BY <1>1 DEF ExistsBijection, Bijection, Injection
<1>3. s \in [1..n -> S] /\ IsInjective(s)
  BY <1>2 DEF SetToSeq
<1>4. s \in Injection(1..n, S)
  BY <1>3 DEF Injection
<1>5. Cardinality(1..n) = n
  BY <1>1, FS_Interval
<1>6. s \in Surjection(1..n, S)
  BY <1>4, <1>5, FS_Injection
<1>7. ToSet(s) = S
  BY <1>3, <1>6 DEF Surjection, ToSet
<1>8. s \in Seq(S)
  BY <1>1, <1>3
<1> QED
  BY <1>3, <1>7, <1>8

(* A set of numbers has a least one.                                       *)
LEMMA LeastOne ==
  ASSUME NEW I \in SUBSET Nat, I # {}
  PROVE  Min(I) \in I /\ \A i \in I : Min(I) <= i
<1>1. PICK m \in I : \A i \in I : ~(<<i, m>> \in OpToRel(<, Nat))
  BY NatLessThanWellFounded, WFMin
<1>2. \A i \in I : m <= i
  <2> SUFFICES ASSUME NEW i \in I PROVE m <= i
    OBVIOUS
  <2>1. <<i, m>> \in Nat \X Nat
    OBVIOUS
  <2>2. ~(i < m)
    BY <1>1, <2>1 DEF OpToRel
  <2> QED
    BY <2>2
<1> QED
  BY <1>2 DEF Min

(* RemoveFirst() takes out one element and keeps the order of the others.  *)
LEMMA RemoveFirstDrops ==
  ASSUME NEW R, NEW s \in Seq(R), NEW e \in ToSet(s)
  PROVE  \E n \in 1..Len(s) :
           /\ s[n] = e
           /\ RemoveFirst(s, e) =
                [i \in 1..Len(s) - 1 |-> IF i < n THEN s[i] ELSE s[i + 1]]
<1> DEFINE I == {i \in 1..Len(s) : s[i] = e}
           n == Min(I)
           t == RemoveFirst(s, e)
<1>1. I \in SUBSET Nat /\ I # {}
  BY DEF ToSet
<1>2. n \in 1..Len(s) /\ s[n] = e
  BY <1>1, LeastOne
<1>3. SelectInSeq(s, LAMBDA v : v = e) = n
  BY <1>1 DEF SelectInSeq
<1>4. t = SubSeq(s, 1, n - 1) \o SubSeq(s, n + 1, Len(s))
  BY <1>1, <1>3 DEF RemoveFirst, RemoveAt
<1> HIDE DEF n, t
<1> DEFINE a == SubSeq(s, 1, n - 1)
           b == SubSeq(s, n + 1, Len(s))
<1>5. a \in Seq(R) /\ Len(a) = n - 1 /\ \A i \in 1..n - 1 : a[i] = s[i]
  BY <1>2
<1>6. b \in Seq(R) /\ Len(b) = Len(s) - n /\ \A i \in 1..Len(s) - n : b[i] = s[n + i]
  BY <1>2
<1>7. t = a \o b
  BY <1>4
<1> HIDE DEF a, b
<1>8. t \in Seq(R) /\ Len(t) = Len(s) - 1
  BY <1>2, <1>5, <1>6, <1>7
<1>9. \A i \in 1..Len(s) - 1 : t[i] = IF i < n THEN s[i] ELSE s[i + 1]
  <2> SUFFICES ASSUME NEW i \in 1..Len(s) - 1
               PROVE  t[i] = IF i < n THEN s[i] ELSE s[i + 1]
    OBVIOUS
  <2>1. /\ i <= Len(a) => (a \o b)[i] = a[i]
        /\ i > Len(a) => (a \o b)[i] = b[i - Len(a)]
    <3>1. i \in 1..Len(a) + Len(b)
      BY <1>2, <1>5, <1>6
    <3> QED
      BY <1>2, <1>5, <1>6, <3>1
  <2>2. CASE i < n
    BY <1>2, <1>5, <1>7, <2>1, <2>2
  <2>3. CASE ~(i < n)
    <3>1. i - Len(a) \in 1..Len(s) - n /\ n + (i - Len(a)) = i + 1
      BY <1>2, <1>5, <2>3
    <3>2. i > Len(a)
      BY <1>2, <1>5, <2>3
    <3>3. PICK k : k = i - Len(a)
      OBVIOUS
    <3>4. t[i] = b[k]
      BY <1>7, <2>1, <3>2, <3>3
    <3>5. b[k] = s[n + k]
      BY <1>6, <3>1, <3>3
    <3> QED
      BY <2>3, <3>1, <3>3, <3>4, <3>5
  <2> QED
    BY <2>2, <2>3
<1>10. t = [i \in 1..Len(s) - 1 |-> IF i < n THEN s[i] ELSE s[i + 1]]
  BY <1>8, <1>9
<1> QED
  BY <1>2, <1>10 DEF t

(* An ACCEPT is never behind a DROP of the same chain.                     *)
InOrder(s) ==
  \A i, k \in DOMAIN s : IsDrop(s[i]) /\ s[k][1] = "ACCEPT" => k < i

LEMMA RemoveFirstKeeps ==
  ASSUME NEW R, NEW s \in Seq(R), NEW e \in ToSet(s)
  PROVE  /\ RemoveFirst(s, e) \in Seq(R)
         /\ ToSet(RemoveFirst(s, e)) \subseteq ToSet(s)
         /\ ToSet(s) \ {e} \subseteq ToSet(RemoveFirst(s, e))
         /\ IsInjective(s) =>
              IsInjective(RemoveFirst(s, e)) /\ e \notin ToSet(RemoveFirst(s, e))
         /\ InOrder(s) => InOrder(RemoveFirst(s, e))
<1> DEFINE t == RemoveFirst(s, e)
           len == Len(s)
<1>1. PICK n \in 1..len :
        /\ s[n] = e
        /\ t = [i \in 1..len - 1 |-> IF i < n THEN s[i] ELSE s[i + 1]]
  BY RemoveFirstDrops
<1> HIDE DEF t
<1>2. len \in Nat /\ DOMAIN s = 1..len /\ \A i \in 1..len : s[i] \in R
  OBVIOUS
<1> HIDE DEF len
<1>3. DOMAIN t = 1..len - 1
  BY <1>1
<1>4. \A i \in 1..len - 1 : t[i] = IF i < n THEN s[i] ELSE s[i + 1]
  BY <1>1
<1> DEFINE Was(i) == IF i < n THEN i ELSE i + 1
<1>5. \A i \in 1..len - 1 : Was(i) \in 1..len /\ Was(i) # n /\ t[i] = s[Was(i)]
  BY <1>2, <1>4
<1>6. \A i, k \in 1..len - 1 : Was(i) < Was(k) <=> i < k
  BY <1>2
<1>7. \A m \in 1..len : m # n => \E i \in 1..len - 1 : m = Was(i)
  <2> SUFFICES ASSUME NEW m \in 1..len, m # n
               PROVE  \E i \in 1..len - 1 : m = Was(i)
    OBVIOUS
  <2>1. CASE m < n
    BY <1>2, <2>1
  <2>2. CASE m > n
    <3>1. m - 1 \in 1..len - 1 /\ m = Was(m - 1)
      BY <1>2, <2>2
    <3> QED
      BY <3>1
  <2> QED
    BY <1>2, <2>1, <2>2
<1> HIDE DEF Was
<1>8. t \in Seq(R)
  <2>1. \A i \in 1..len - 1 : t[i] \in R
    BY <1>2, <1>5
  <2>2. t = [i \in 1..len - 1 |-> t[i]]
    BY <1>1
  <2>3. len - 1 \in Nat
    BY <1>2
  <2> QED
    BY <2>1, <2>2, <2>3
<1>9. ToSet(t) \subseteq ToSet(s)
  BY <1>2, <1>3, <1>5 DEF ToSet
<1>10. ToSet(s) \ {e} \subseteq ToSet(t)
  <2> SUFFICES ASSUME NEW m \in 1..len, s[m] # e PROVE s[m] \in ToSet(t)
    BY <1>2 DEF ToSet
  <2>1. PICK i \in 1..len - 1 : m = Was(i)
    BY <1>1, <1>7
  <2> QED
    BY <1>3, <1>5, <2>1 DEF ToSet
<1>11. ASSUME IsInjective(s) PROVE IsInjective(t) /\ e \notin ToSet(t)
  <2>1. \A i, k \in 1..len : s[i] = s[k] => i = k
    BY <1>2, <1>11 DEF IsInjective
  <2>2. \A i, k \in 1..len - 1 : t[i] = t[k] => Was(i) = Was(k)
    BY <1>5, <2>1
  <2>3. \A i, k \in 1..len - 1 : Was(i) = Was(k) => i = k
    <3> SUFFICES ASSUME NEW i \in 1..len - 1, NEW k \in 1..len - 1,
                        Was(i) = Was(k)
                 PROVE  i = k
      OBVIOUS
    <3>1. Was(i) \in Nat /\ Was(k) \in Nat
      BY <1>2, <1>5
    <3>2. ~(i < k) /\ ~(k < i)
      BY <1>6, <3>1
    <3> QED
      BY <1>2, <3>2
  <2>4. e \notin ToSet(t)
    BY <1>1, <1>3, <1>5, <2>1 DEF ToSet
  <2> QED
    BY <1>3, <2>2, <2>3, <2>4 DEF IsInjective
<1>12. ASSUME InOrder(s) PROVE InOrder(t)
  <2> SUFFICES ASSUME NEW i \in 1..len - 1, NEW k \in 1..len - 1,
                      IsDrop(t[i]), t[k][1] = "ACCEPT"
               PROVE  k < i
    BY <1>3 DEF InOrder
  <2>1. Was(k) < Was(i)
    BY <1>2, <1>5, <1>12 DEF InOrder
  <2> QED
    BY <1>6, <2>1
<1> QED
  BY <1>8, <1>9, <1>10, <1>11, <1>12 DEF t

(* A rule added at the tail or at the head of a chain.                     *)
LEMMA AddedKeeps ==
  ASSUME NEW R, NEW s \in Seq(R), NEW r \in R, NEW t,
         \/ IsDrop(r) /\ t = Append(s, r)
         \/ ~IsDrop(r) /\ t = <<r>> \o s
  PROVE  /\ t \in Seq(R)
         /\ ToSet(t) = ToSet(s) \cup {r}
         /\ IsInjective(s) /\ r \notin ToSet(s) => IsInjective(t)
         /\ InOrder(s) => InOrder(t)
<1> DEFINE len == Len(s)
<1>1. len \in Nat /\ DOMAIN s = 1..len /\ \A i \in 1..len : s[i] \in R
  OBVIOUS
<1>2. CASE IsDrop(r) /\ t = Append(s, r)
  <2>1. t \in Seq(R) /\ DOMAIN t = 1..len + 1
    BY <1>1, <1>2
  <2>2. t[len + 1] = r /\ \A i \in 1..len : t[i] = s[i]
    BY <1>1, <1>2
  <2>3. 1..len + 1 = 1..len \cup {len + 1}
    BY <1>1
  <2> HIDE DEF len
  <2>4. ToSet(t) = ToSet(s) \cup {r}
    BY <1>1, <2>1, <2>2, <2>3 DEF ToSet
  <2>5. ASSUME IsInjective(s), r \notin ToSet(s) PROVE IsInjective(t)
    BY <1>1, <2>1, <2>2, <2>3, <2>5 DEF IsInjective, ToSet
  <2>6. ASSUME InOrder(s) PROVE InOrder(t)
    <3> SUFFICES ASSUME NEW i \in 1..len + 1, NEW k \in 1..len + 1,
                        IsDrop(t[i]), t[k][1] = "ACCEPT"
                 PROVE  k < i
      BY <2>1 DEF InOrder
    <3>1. k \in 1..len
      BY <1>2, <2>2, <2>3 DEF IsDrop
    <3>2. CASE i = len + 1
      BY <1>1, <3>1, <3>2
    <3>3. CASE i # len + 1
      <4>1. i \in 1..len /\ t[i] = s[i] /\ t[k] = s[k]
        BY <2>2, <2>3, <3>1, <3>3
      <4> QED
        BY <1>1, <2>6, <3>1, <4>1 DEF InOrder
    <3> QED
      BY <3>2, <3>3
  <2> QED
    BY <2>1, <2>4, <2>5, <2>6
<1>3. CASE ~IsDrop(r) /\ t = <<r>> \o s
  <2>1. t \in Seq(R) /\ DOMAIN t = 1..len + 1
    BY <1>1, <1>3
  <2>2. t[1] = r /\ \A i \in 2..len + 1 : t[i] = s[i - 1]
    BY <1>1, <1>3
  <2>3. /\ 1..len + 1 = 2..len + 1 \cup {1}
        /\ \A i \in 2..len + 1 : i - 1 \in 1..len
        /\ \A i \in 1..len : i + 1 \in 2..len + 1 /\ (i + 1) - 1 = i
    BY <1>1
  <2> HIDE DEF len
  <2>4. ToSet(t) = ToSet(s) \cup {r}
    <3>1. ASSUME NEW i \in 1..len + 1 PROVE t[i] \in ToSet(s) \cup {r}
      <4>1. CASE i = 1
        BY <2>2, <4>1
      <4>2. CASE i # 1
        <5>1. t[i] = s[i - 1] /\ i - 1 \in 1..len
          BY <2>2, <2>3, <4>2
        <5> QED
          BY <1>1, <5>1 DEF ToSet
      <4> QED
        BY <4>1, <4>2
    <3>2. ASSUME NEW i \in 1..len PROVE s[i] \in ToSet(t)
      <4>1. t[i + 1] = s[i] /\ i + 1 \in DOMAIN t
        BY <2>1, <2>2, <2>3
      <4> QED
        BY <4>1 DEF ToSet
    <3>3. r \in ToSet(t)
      BY <1>1, <2>1, <2>2 DEF ToSet
    <3> QED
      BY <1>1, <2>1, <3>1, <3>2, <3>3 DEF ToSet
  <2>5. ASSUME IsInjective(s), r \notin ToSet(s) PROVE IsInjective(t)
    <3> SUFFICES ASSUME NEW i \in 1..len + 1, NEW k \in 1..len + 1, t[i] = t[k]
                 PROVE  i = k
      BY <2>1 DEF IsInjective
    <3>1. CASE i # 1 /\ k # 1
      <4>1. i \in 2..len + 1 /\ k \in 2..len + 1
        BY <2>3, <3>1
      <4>2. s[i - 1] = s[k - 1] /\ i - 1 \in 1..len /\ k - 1 \in 1..len
        BY <2>2, <2>3, <4>1
      <4>3. i - 1 = k - 1
        BY <1>1, <2>5, <4>2 DEF IsInjective
      <4> QED
        BY <4>3
    <3>2. CASE i = 1 \/ k = 1
      BY <1>1, <2>2, <2>3, <2>5, <3>2 DEF ToSet
    <3> QED
      BY <3>1, <3>2
  <2>6. ASSUME InOrder(s) PROVE InOrder(t)
    <3> SUFFICES ASSUME NEW i \in 1..len + 1, NEW k \in 1..len + 1,
                        IsDrop(t[i]), t[k][1] = "ACCEPT"
                 PROVE  k < i
      BY <2>1 DEF InOrder
    <3>1. i \in 2..len + 1
      BY <1>3, <2>2, <2>3
    <3>2. CASE k = 1
      BY <3>1, <3>2
    <3>3. CASE k # 1
      <4>1. i - 1 \in 1..len /\ k - 1 \in 1..len /\ t[k] = s[k - 1] /\ t[i] = s[i - 1]
        BY <2>2, <2>3, <3>1, <3>3
      <4>2. k - 1 < i - 1
        BY <1>1, <2>6, <4>1 DEF InOrder
      <4> QED
        BY <3>1, <4>2
    <3> QED
      BY <3>2, <3>3
  <2> QED
    BY <2>1, <2>4, <2>5, <2>6
<1> QED
  BY <1>2, <1>3

-----------------------------------------------------------------------------
(* What the requests can name.                                             *)
Names == {j.f : j \in Jobs}
FwChains == UNION {ChainsOf(f) : f \in Names}
Requested == UNION {JumpsOf(j) \cup ToSet(j.inbound) \cup ToSet(j.outbound) : j \in Jobs}
Supported == {r \in Requested : ~Unsupported(r)}

ChainOps == [verb : {"new_chain", "drop_chain"}, chain : FwChains, rule : {Nothing}]
RuleOps  == [verb : {"add", "delete", "purge_rule"},
             chain : FwChains \cup {FORWARD}, rule : Requested]
PassOps  == [verb : {"purge", "drop"}, chain : Names, rule : {Nothing}]
Ops == ChainOps \cup RuleOps \cup PassOps

Entries == {Entry(c, r) : c \in FwChains \cup {FORWARD}, r \in Supported}
Configs == {cfg \in [chains : SUBSET FwChains, rules : SUBSET Entries] :
              IsFiniteSet(cfg.chains) /\ IsFiniteSet(cfg.rules)}

LEMMA ForwardIsNoFirewalls == FORWARD \notin FwChains
BY DEF FORWARD, FwChains, ChainsOf, In, Out

LEMMA Targets ==
  /\ \A r \in Requested :
       r[1] \in {"jump", "ACCEPT", "DROP", "several", "unsupported"}
  /\ \A r \in Supported : r[1] \in {"jump", "ACCEPT", "DROP", "several"}
<1>1. ASSUME NEW j \in Jobs, NEW r \in JumpsOf(j) PROVE r[1] = "jump"
  BY DEF JumpsOf, Jump
<1>2. ASSUME NEW j \in Jobs, NEW r \in ToSet(j.inbound) \cup ToSet(j.outbound)
      PROVE  r[1] \in {"ACCEPT", "DROP", "several", "unsupported"}
  BY JobsAssumption
<1> QED
  BY <1>1, <1>2 DEF Requested, Supported, Unsupported

(* An operation and the element of its plan.                               *)
LEMMA RulePlan ==
  ASSUME NEW rules, NEW Q, rules \in Seq(Q), Q \subseteq Requested,
         NEW c \in FwChains, NEW v \in {"add", "delete"}
  PROVE  [i \in DOMAIN rules |-> Op(v, c, rules[i])] \in Seq(RuleOps)
<1> DEFINE plan == [i \in 1..Len(rules) |-> Op(v, c, rules[i])]
<1>1. DOMAIN rules = 1..Len(rules) /\ Len(rules) \in Nat
  OBVIOUS
<1>2. \A i \in 1..Len(rules) : rules[i] \in Requested
  OBVIOUS
<1>3. \A i \in 1..Len(rules) : Op(v, c, rules[i]) \in RuleOps
  BY <1>2 DEF Op, RuleOps
<1>4. plan \in [1..Len(rules) -> RuleOps]
  BY <1>3
<1> QED
  BY <1>1, <1>4

(* Four operations for each address, one after the other.                  *)
LEMMA FourEach ==
  ASSUME NEW n \in Nat, NEW k \in 1..4 * n
  PROVE  /\ 1 + ((k - 1) \div 4) \in 1..n
         /\ 1 + ((k - 1) % 4) \in 1..4
<1>1. k - 1 \in 0..4 * n - 1
  OBVIOUS
<1>2. /\ (k - 1) \div 4 \in Int /\ (k - 1) % 4 \in 0..3
      /\ k - 1 = 4 * ((k - 1) \div 4) + ((k - 1) % 4)
  BY <1>1
<1> QED
  BY <1>1, <1>2

LEMMA AddressPlan ==
  ASSUME NEW j \in Jobs
  PROVE  /\ create_firewall(j.f, j.addrs) \in Seq(ChainOps \cup RuleOps)
         /\ delete_firewall(j.f, j.addrs) \in Seq(RuleOps \cup PassOps)
<1> DEFINE n == Len(j.addrs)
<1>1. n \in Nat /\ \A i \in 1..n : j.addrs[i] \in ToSet(j.addrs)
  BY JobsAssumption DEF ToSet
<1>2. j.f \in Names /\ In(j.f) \in FwChains /\ Out(j.f) \in FwChains
  BY DEF Names, FwChains, ChainsOf
<1>3. \A i \in 1..n : /\ Jump(j.addrs[i], In(j.f)) \in Requested
                      /\ Jump(j.addrs[i], Out(j.f)) \in Requested
  <2>1. \A i \in 1..n : /\ Jump(j.addrs[i], In(j.f)) \in JumpsOf(j)
                        /\ Jump(j.addrs[i], Out(j.f)) \in JumpsOf(j)
    BY <1>1 DEF JumpsOf, ChainsOf
  <2> QED
    BY <2>1 DEF Requested
<1>4. \A i \in 1..n, m \in 1..4 :
        /\ CreateOps(j.f, j.addrs[i])[m] \in ChainOps \cup RuleOps
        /\ DeleteOps(j.f, j.addrs[i])[m] \in RuleOps \cup PassOps
  <2> SUFFICES ASSUME NEW i \in 1..n, NEW m \in 1..4
               PROVE  /\ CreateOps(j.f, j.addrs[i])[m] \in ChainOps \cup RuleOps
                      /\ DeleteOps(j.f, j.addrs[i])[m] \in RuleOps \cup PassOps
    OBVIOUS
  <2>1. m = 1 \/ m = 2 \/ m = 3 \/ m = 4
    OBVIOUS
  <2> QED
    BY <1>2, <1>3, <2>1
    DEF CreateOps, DeleteOps, Op, ChainOps, RuleOps, PassOps
<1> HIDE DEF n
<1>5. \A k \in 1..4 * n : 1 + ((k - 1) \div 4) \in 1..n /\ 1 + ((k - 1) % 4) \in 1..4
  BY <1>1, FourEach
<1>6. \A k \in 1..4 * n :
        /\ CreateOps(j.f, j.addrs[1 + ((k - 1) \div 4)])[1 + ((k - 1) % 4)]
             \in ChainOps \cup RuleOps
        /\ DeleteOps(j.f, j.addrs[1 + ((k - 1) \div 4)])[1 + ((k - 1) % 4)]
             \in RuleOps \cup PassOps
  BY <1>4, <1>5
<1>7. 4 * n \in Nat
  BY <1>1
<1>8. create_firewall(j.f, j.addrs) \in [1..4 * n -> ChainOps \cup RuleOps]
  BY <1>6 DEF create_firewall, n
<1>9. delete_firewall(j.f, j.addrs) \in [1..4 * n -> RuleOps \cup PassOps]
  BY <1>6 DEF delete_firewall, n
<1> QED
  BY <1>7, <1>8, <1>9

LEMMA PlanType ==
  ASSUME NEW j \in Jobs
  PROVE  Plan(j) \in Seq(Ops)
<1>1. /\ j.kind \in {"attach", "detach", "attach_rule", "detach_rule"}
      /\ j.inbound \in Seq(ToSet(j.inbound)) /\ j.outbound \in Seq(ToSet(j.outbound))
  BY JobsAssumption
<1>2. In(j.f) \in FwChains /\ Out(j.f) \in FwChains
  BY DEF Names, FwChains, ChainsOf
<1>3. ToSet(j.inbound) \subseteq Requested /\ ToSet(j.outbound) \subseteq Requested
  BY DEF Requested
<1>4. /\ create_rule(In(j.f), j.inbound) \in Seq(RuleOps)
      /\ create_rule(Out(j.f), j.outbound) \in Seq(RuleOps)
      /\ delete_rule(In(j.f), j.inbound) \in Seq(RuleOps)
      /\ delete_rule(Out(j.f), j.outbound) \in Seq(RuleOps)
  BY <1>1, <1>2, <1>3, RulePlan DEF create_rule, delete_rule
<1>5. Seq(RuleOps) \subseteq Seq(Ops) /\ Seq(ChainOps \cup RuleOps) \subseteq Seq(Ops)
      /\ Seq(RuleOps \cup PassOps) \subseteq Seq(Ops)
  BY DEF Ops
<1>6. \A a, b \in Seq(Ops) : a \o b \in Seq(Ops)
  OBVIOUS
<1> QED
  BY <1>1, <1>4, <1>5, <1>6, AddressPlan DEF Plan

-----------------------------------------------------------------------------
(* iptables, whatever runs at once: every rule is one of a request, every  *)
(* jump leads to a chain that exists.                                      *)
KernelInv ==
  /\ FORWARD \in Chains
  /\ \A c \in Chains : kernel[c] \in Seq(Supported)
  /\ \A c \in Chains : \A r \in Rules(c) : Loadable(r)
  /\ \A c \in Chains : InOrder(kernel[c])

(* iptables and a configuration hold the same, every rule once.            *)
Agree(cfg) ==
  /\ Chains = {FORWARD} \cup cfg.chains
  /\ \A e \in cfg.rules : e.rule \in Rules(e.chain)
  /\ \A c \in Chains : \A r \in Rules(c) : Entry(c, r) \in cfg.rules
  /\ \A c \in Chains : IsInjective(kernel[c])

(* What the commands do, chain by chain.                                   *)
LEMMA NewChain ==
  ASSUME NEW op, op.verb = "new_chain", Succeeds(op), kernel' = AfterCommand(op)
  PROVE  /\ op.chain \notin Chains
         /\ Chains' = Chains \cup {op.chain}
         /\ kernel'[op.chain] = <<>>
         /\ \A c \in Chains : kernel'[c] = kernel[c]
BY DEF Succeeds, AfterCommand, Chains

LEMMA AddRule ==
  ASSUME KernelInv, NEW op \in RuleOps, op.verb = "add", ~Unsupported(op.rule),
         Succeeds(op), kernel' = AfterCommand(op)
  PROVE  /\ op.chain \in Chains /\ Loadable(op.rule)
         /\ Chains' = Chains
         /\ \A c \in Chains : c # op.chain => kernel'[c] = kernel[c]
         /\ kernel'[op.chain] \in Seq(Supported)
         /\ ToSet(kernel'[op.chain]) = Rules(op.chain) \cup {op.rule}
         /\ IsInjective(kernel[op.chain]) /\ op.rule \notin Rules(op.chain)
              => IsInjective(kernel'[op.chain])
         /\ InOrder(kernel'[op.chain])
<1>1. op.chain \in Chains /\ Loadable(op.rule)
  BY DEF Succeeds
<1>2. /\ Chains' = Chains
      /\ \A c \in Chains : c # op.chain => kernel'[c] = kernel[c]
      /\ kernel'[op.chain] = Inserted(op)
  BY <1>1 DEF AfterCommand, Chains
<1>3. op.rule \in Supported
  BY DEF RuleOps, Supported
<1>4. \/ IsDrop(op.rule) /\ kernel'[op.chain] = Append(kernel[op.chain], op.rule)
      \/ ~IsDrop(op.rule) /\ kernel'[op.chain] = <<op.rule>> \o kernel[op.chain]
  BY <1>2 DEF Inserted
<1>5. kernel[op.chain] \in Seq(Supported) /\ InOrder(kernel[op.chain])
      /\ Rules(op.chain) = ToSet(kernel[op.chain])
  BY <1>1 DEF KernelInv, Rules
<1> QED
  BY <1>1, <1>2, <1>3, <1>4, <1>5, AddedKeeps

LEMMA DeleteRule ==
  ASSUME KernelInv, NEW op \in RuleOps, op.verb \in {"delete", "purge_rule"},
         Succeeds(op), kernel' = AfterCommand(op)
  PROVE  /\ op.chain \in Chains /\ op.rule \in Rules(op.chain)
         /\ Chains' = Chains
         /\ \A c \in Chains : c # op.chain => kernel'[c] = kernel[c]
         /\ kernel'[op.chain] \in Seq(Supported)
         /\ ToSet(kernel'[op.chain]) \subseteq Rules(op.chain)
         /\ Rules(op.chain) \ {op.rule} \subseteq ToSet(kernel'[op.chain])
         /\ IsInjective(kernel[op.chain]) =>
              /\ IsInjective(kernel'[op.chain])
              /\ op.rule \notin ToSet(kernel'[op.chain])
         /\ InOrder(kernel'[op.chain])
<1>1. op.rule \in Rules(op.chain) /\ Loadable(op.rule)
  BY DEF Succeeds
<1>2. op.chain \in Chains /\ Rules(op.chain) = ToSet(kernel[op.chain])
  BY <1>1 DEF Rules
<1>3. /\ Chains' = Chains
      /\ \A c \in Chains : c # op.chain => kernel'[c] = kernel[c]
      /\ kernel'[op.chain] = RemoveFirst(kernel[op.chain], op.rule)
  BY <1>2 DEF AfterCommand, Chains
<1>4. kernel[op.chain] \in Seq(Supported) /\ InOrder(kernel[op.chain])
  BY <1>2 DEF KernelInv
<1> QED
  BY <1>1, <1>2, <1>3, <1>4, RemoveFirstKeeps

LEMMA DropChain ==
  ASSUME NEW op \in ChainOps, op.verb = "drop_chain", Succeeds(op),
         kernel' = AfterCommand(op)
  PROVE  /\ op.chain \in Chains
         /\ kernel[op.chain] = <<>>
         /\ ~Referenced(op.chain)
         /\ Chains' = Chains \ {op.chain}
         /\ \A c \in Chains' : kernel'[c] = kernel[c]
BY DEF Succeeds, AfterCommand, Chains

LEMMA CommandKeepsKernel ==
  ASSUME KernelInv, NEW op \in ChainOps \cup RuleOps, ~Unsupported(op.rule),
         Succeeds(op), kernel' = AfterCommand(op)
  PROVE  KernelInv'
<1>1. CASE op.verb = "new_chain"
  <2>1. /\ Chains' = Chains \cup {op.chain}
        /\ kernel'[op.chain] = <<>>
        /\ \A c \in Chains : kernel'[c] = kernel[c]
    BY <1>1, NewChain
  <2>2. /\ <<>> \in Seq(Supported) /\ ToSet(<<>>) = {} /\ InOrder(<<>>)
    BY DEF ToSet, InOrder
  <2>3. \A c \in Chains : Rules(c)' = Rules(c)
    BY <2>1 DEF Rules
  <2>4. \A c \in Chains' : Rules(c)' = ToSet(kernel'[c])
    BY DEF Rules
  <2>5. ASSUME NEW c \in Chains'
        PROVE  kernel'[c] \in Seq(Supported) /\ InOrder(kernel'[c])
    BY <2>1, <2>2 DEF KernelInv
  <2>6. ASSUME NEW c \in Chains', NEW r \in Rules(c)' PROVE Loadable(r)'
    <3>1. c \in Chains /\ r \in Rules(c)
      BY <2>1, <2>2, <2>3, <2>4
    <3> QED
      BY <2>1, <3>1 DEF KernelInv, Loadable
  <2> QED
    BY <2>1, <2>5, <2>6 DEF KernelInv
<1>2. CASE op.verb = "add"
  <2>1. op \in RuleOps
    BY <1>2 DEF ChainOps
  <2>2. /\ op.chain \in Chains /\ Loadable(op.rule)
        /\ Chains' = Chains
        /\ \A c \in Chains : c # op.chain => kernel'[c] = kernel[c]
        /\ kernel'[op.chain] \in Seq(Supported)
        /\ ToSet(kernel'[op.chain]) = Rules(op.chain) \cup {op.rule}
        /\ InOrder(kernel'[op.chain])
    BY <1>2, <2>1, AddRule
  <2>3. \A c \in Chains : Rules(c)' \subseteq Rules(c) \cup {op.rule}
    BY <2>2 DEF Rules
  <2> QED
    BY <2>2, <2>3 DEF KernelInv, Loadable
<1>3. CASE op.verb \in {"delete", "purge_rule"}
  <2>1. op \in RuleOps
    BY <1>3 DEF ChainOps
  <2>2. /\ op.chain \in Chains
        /\ Chains' = Chains
        /\ \A c \in Chains : c # op.chain => kernel'[c] = kernel[c]
        /\ kernel'[op.chain] \in Seq(Supported)
        /\ ToSet(kernel'[op.chain]) \subseteq Rules(op.chain)
        /\ InOrder(kernel'[op.chain])
    BY <1>3, <2>1, DeleteRule
  <2>3. \A c \in Chains : Rules(c)' \subseteq Rules(c)
    BY <2>2 DEF Rules
  <2> QED
    BY <2>2, <2>3 DEF KernelInv, Loadable
<1>4. CASE op.verb = "drop_chain"
  <2>1. op \in ChainOps /\ op.chain # FORWARD
    BY <1>4, ForwardIsNoFirewalls DEF ChainOps, RuleOps
  <2>2. /\ ~Referenced(op.chain)
        /\ Chains' = Chains \ {op.chain}
        /\ \A c \in Chains' : kernel'[c] = kernel[c]
    BY <1>4, <2>1, DropChain
  <2>3. \A c \in Chains' : Rules(c)' = Rules(c)
    BY <2>2 DEF Rules
  <2>4. \A c \in Chains : \A r \in Rules(c) : IsJump(r) => r[3] # op.chain
    BY <2>2 DEF Referenced
  <2> QED
    BY <2>1, <2>2, <2>3, <2>4 DEF KernelInv, Loadable
<1> QED
  BY <1>1, <1>2, <1>3, <1>4 DEF ChainOps, RuleOps

(* What firewalld loads: the rules of priority 0, then those of priority 1. *)
LEMMA Joined ==
  ASSUME NEW R, NEW s \in Seq(R), NEW t \in Seq(R),
         \A x \in ToSet(s) : ~IsDrop(x), \A x \in ToSet(t) : IsDrop(x),
         IsInjective(s), IsInjective(t)
  PROVE  /\ s \o t \in Seq(R)
         /\ ToSet(s \o t) = ToSet(s) \cup ToSet(t)
         /\ IsInjective(s \o t)
         /\ InOrder(s \o t)
<1> DEFINE m == Len(s)
           n == Len(t)
           u == s \o t
<1>1. m \in Nat /\ n \in Nat /\ DOMAIN s = 1..m /\ DOMAIN t = 1..n
  OBVIOUS
<1>2. u \in Seq(R) /\ DOMAIN u = 1..m + n
  OBVIOUS
<1>3. /\ \A i \in 1..m : u[i] = s[i]
      /\ \A i \in m + 1..m + n : u[i] = t[i - m]
      /\ \A i \in 1..n : u[m + i] = t[i]
  OBVIOUS
<1>4. /\ 1..m + n = 1..m \cup (m + 1..m + n)
      /\ \A i \in m + 1..m + n : i - m \in 1..n
      /\ \A i \in 1..n : m + i \in m + 1..m + n
  BY <1>1
<1> HIDE DEF m, n, u
<1>5. /\ \A i \in 1..m : s[i] \in ToSet(s) /\ u[i] \in ToSet(u)
      /\ \A i \in 1..n : t[i] \in ToSet(t)
      /\ \A i \in m + 1..m + n : u[i] \in ToSet(u)
  BY <1>1, <1>2, <1>4 DEF ToSet
<1>6. ToSet(u) = ToSet(s) \cup ToSet(t)
  <2>1. ASSUME NEW i \in 1..m + n PROVE u[i] \in ToSet(s) \cup ToSet(t)
    BY <1>3, <1>4, <1>5
  <2>2. \A i \in 1..m : s[i] \in ToSet(u)
    BY <1>3, <1>5
  <2>3. \A i \in 1..n : t[i] \in ToSet(u)
    BY <1>3, <1>4, <1>5
  <2> QED
    BY <1>1, <1>2, <2>1, <2>2, <2>3 DEF ToSet
<1>7. /\ \A i \in 1..m : ~IsDrop(u[i])
      /\ \A i \in m + 1..m + n : IsDrop(u[i])
  BY <1>3, <1>4, <1>5
<1>8. IsInjective(u)
  <2> SUFFICES ASSUME NEW i \in 1..m + n, NEW k \in 1..m + n, u[i] = u[k]
               PROVE  i = k
    BY <1>2 DEF IsInjective
  <2>1. CASE i \in 1..m /\ k \in 1..m
    BY <1>1, <1>3, <2>1 DEF IsInjective
  <2>2. CASE i \in m + 1..m + n /\ k \in m + 1..m + n
    <3>1. t[i - m] = t[k - m] /\ i - m \in 1..n /\ k - m \in 1..n
      BY <1>3, <1>4, <2>2
    <3>2. i - m = k - m
      BY <1>1, <3>1 DEF IsInjective
    <3> QED
      BY <1>1, <3>2
  <2> QED
    BY <1>4, <1>7, <2>1, <2>2
<1>9. InOrder(u)
  <2> SUFFICES ASSUME NEW i \in 1..m + n, NEW k \in 1..m + n,
                      IsDrop(u[i]), u[k][1] = "ACCEPT"
               PROVE  k < i
    BY <1>2 DEF InOrder
  <2>1. ~IsDrop(u[k])
    BY DEF IsDrop
  <2>2. i \in m + 1..m + n /\ k \in 1..m
    BY <1>4, <1>7, <2>1
  <2> QED
    BY <1>1, <2>2
<1> QED
  BY <1>2, <1>6, <1>8, <1>9 DEF u

LEMMA RulesInList ==
  ASSUME NEW cfg \in Configs, NEW c, NEW p
  PROVE  LET s == RulesIn(cfg, c, p)
             S == {e.rule : e \in {e \in cfg.rules : e.chain = c /\ e.prio = p}}
         IN  s \in Seq(Supported) /\ ToSet(s) = S /\ IsInjective(s)
<1> DEFINE T == {e \in cfg.rules : e.chain = c /\ e.prio = p}
           S == {e.rule : e \in T}
           f == [e \in T |-> e.rule]
<1>1. IsFiniteSet(cfg.rules) /\ cfg.rules \subseteq Entries
  BY DEF Configs
<1>2. IsFiniteSet(T)
  BY <1>1, FS_Subset
<1>3. f \in Surjection(T, S)
  BY DEF Surjection
<1>4. IsFiniteSet(S)
  BY <1>2, <1>3, FS_Surjection
<1>5. S \subseteq Supported
  BY <1>1 DEF Entries, Entry
<1>6. /\ SetToSeq(S) \in Seq(S) /\ ToSet(SetToSeq(S)) = S
      /\ IsInjective(SetToSeq(S))
  BY <1>4, SetToSeqLists
<1>7. SetToSeq(S) \in Seq(Supported)
  BY <1>5, <1>6
<1> QED
  BY <1>6, <1>7 DEF RulesIn

(* A reboot brings iptables and the configuration together.                *)
LEMMA LoadedAgrees ==
  ASSUME direct \in Configs, kernel' = Loaded(direct), direct' = direct
  PROVE  /\ KernelInv'
         /\ Closed(direct) => Agree(direct)'
<1>1. CASE ~Closed(direct)
  <2>1. Chains' = {FORWARD} /\ kernel'[FORWARD] = <<>>
    BY <1>1 DEF Loaded, Chains
  <2>2. <<>> \in Seq(Supported) /\ ToSet(<<>>) = {} /\ InOrder(<<>>)
    BY DEF ToSet, InOrder
  <2> QED
    BY <1>1, <2>1, <2>2 DEF KernelInv, Rules
<1>2. CASE Closed(direct)
  <2>1. /\ Chains' = {FORWARD} \cup direct.chains
        /\ \A c \in Chains' :
             kernel'[c] = RulesIn(direct, c, 0) \o RulesIn(direct, c, 1)
    BY <1>2 DEF Loaded, Chains
  <2>2. \A e \in direct.rules : /\ e = Entry(e.chain, e.rule)
                                /\ e.prio = Prio(e.rule)
                                /\ e.rule \in Supported
                                /\ e.chain \in Chains'
                                /\ ~Several(e.rule)
                                /\ IsJump(e.rule) => e.rule[3] \in Chains'
    BY <1>2, <2>1 DEF Configs, Entries, Entry, Closed
  <2>3. ASSUME NEW c \in Chains'
        PROVE  /\ kernel'[c] \in Seq(Supported)
               /\ Rules(c)' = {e.rule : e \in {e \in direct.rules : e.chain = c}}
               /\ IsInjective(kernel'[c])
               /\ InOrder(kernel'[c])
    <3> DEFINE a == RulesIn(direct, c, 0)
               b == RulesIn(direct, c, 1)
    <3>1. /\ a \in Seq(Supported) /\ IsInjective(a)
          /\ ToSet(a) = {e.rule : e \in {e \in direct.rules : e.chain = c /\ e.prio = 0}}
          /\ b \in Seq(Supported) /\ IsInjective(b)
          /\ ToSet(b) = {e.rule : e \in {e \in direct.rules : e.chain = c /\ e.prio = 1}}
      BY RulesInList
    <3>2. kernel'[c] = a \o b
      BY <2>1
    <3> HIDE DEF a, b
    <3>3. \A x \in ToSet(a) : ~IsDrop(x)
      BY <2>2, <3>1 DEF Prio
    <3>4. \A x \in ToSet(b) : IsDrop(x)
      BY <2>2, <3>1 DEF Prio
    <3>5. /\ a \o b \in Seq(Supported)
          /\ ToSet(a \o b) = ToSet(a) \cup ToSet(b)
          /\ IsInjective(a \o b)
          /\ InOrder(a \o b)
      BY <3>1, <3>3, <3>4, Joined
    <3>6. ToSet(a) \cup ToSet(b)
            = {e.rule : e \in {e \in direct.rules : e.chain = c}}
      BY <2>2, <3>1 DEF Prio
    <3>7. Rules(c)' = ToSet(kernel'[c])
      BY DEF Rules
    <3> QED
      BY <3>2, <3>5, <3>6, <3>7
  <2>4. ASSUME NEW c \in Chains', NEW r \in Rules(c)' PROVE Entry(c, r) \in direct.rules
    BY <2>2, <2>3
  <2>5. ASSUME NEW e \in direct.rules PROVE e.rule \in Rules(e.chain)'
    BY <2>2, <2>3
  <2>6. ASSUME NEW c \in Chains', NEW r \in Rules(c)' PROVE Loadable(r)'
    BY <2>2, <2>3 DEF Loadable
  <2> QED
    BY <2>1, <2>3, <2>4, <2>5, <2>6 DEF KernelInv, Agree
<1> QED
  BY <1>1, <1>2

-----------------------------------------------------------------------------
(* The change of the configuration that belongs to a command.              *)

LEMMA JumpsLeadToFirewalls ==
  ASSUME NEW r \in Requested, IsJump(r)
  PROVE  r[3] \in FwChains
<1>1. PICK j \in Jobs : r \in JumpsOf(j) \cup ToSet(j.inbound) \cup ToSet(j.outbound)
  BY DEF Requested
<1>2. r \notin ToSet(j.inbound) \cup ToSet(j.outbound)
  BY JobsAssumption DEF IsJump
<1>3. r \in JumpsOf(j)
  BY <1>1, <1>2
<1> QED
  BY <1>3 DEF JumpsOf, Jump, FwChains, Names

LEMMA AgreeingCloses ==
  ASSUME KernelInv, NEW cfg \in Configs, Agree(cfg)
  PROVE  Closed(cfg)
<1> SUFFICES ASSUME NEW e \in cfg.rules
             PROVE  /\ e.chain \in cfg.chains \cup {FORWARD}
                    /\ ~Several(e.rule)
                    /\ IsJump(e.rule) => e.rule[3] \in cfg.chains
  BY DEF Closed
<1>1. e.rule \in Rules(e.chain)
  BY DEF Agree
<1>2. e.chain \in Chains
  BY <1>1 DEF Rules
<1>3. Loadable(e.rule)
  BY <1>1, <1>2 DEF KernelInv
<1>4. e.rule \in Requested
  BY DEF Configs, Entries, Entry, Supported
<1> QED
  BY <1>2, <1>3, <1>4, JumpsLeadToFirewalls, ForwardIsNoFirewalls
  DEF Agree, Loadable

LEMMA ChangeType ==
  ASSUME direct \in Configs, NEW op \in ChainOps \cup RuleOps, ~Unsupported(op.rule)
  PROVE  AfterChange(op) \in Configs
<1>1. /\ direct = [chains |-> direct.chains, rules |-> direct.rules]
      /\ direct.chains \subseteq FwChains /\ IsFiniteSet(direct.chains)
      /\ direct.rules \subseteq Entries /\ IsFiniteSet(direct.rules)
  BY DEF Configs
<1>2. \A S, x : IsFiniteSet(S) => IsFiniteSet(S \cup {x}) /\ IsFiniteSet(S \ {x})
  BY FS_AddElement, FS_RemoveElement
<1>3. op \in RuleOps => Entry(op.chain, op.rule) \in Entries
  BY DEF RuleOps, Entries, Supported
<1>4. CASE op.verb \in {"new_chain", "drop_chain"}
  <2>1. op.chain \in FwChains
    BY <1>4 DEF ChainOps, RuleOps
  <2> DEFINE cs == IF op.verb = "new_chain" THEN direct.chains \cup {op.chain}
                                            ELSE direct.chains \ {op.chain}
  <2>2. AfterChange(op) = [chains |-> cs, rules |-> direct.rules]
    BY <1>1, <1>4 DEF AfterChange
  <2>3. cs \subseteq FwChains /\ IsFiniteSet(cs)
    BY <1>1, <1>2, <2>1
  <2> QED
    BY <1>1, <2>2, <2>3 DEF Configs
<1>5. CASE op.verb \in {"add", "delete", "purge_rule"}
  <2>1. op \in RuleOps
    BY <1>5 DEF ChainOps
  <2> DEFINE e == Entry(op.chain, op.rule)
             rs == IF op.verb = "add" THEN direct.rules \cup {e}
                                      ELSE direct.rules \ {e}
  <2>2. AfterChange(op) = [chains |-> direct.chains, rules |-> rs]
    BY <1>1, <1>5 DEF AfterChange
  <2>3. rs \subseteq Entries /\ IsFiniteSet(rs)
    BY <1>1, <1>2, <1>3, <2>1
  <2> QED
    BY <1>1, <2>2, <2>3 DEF Configs
<1> QED
  BY <1>4, <1>5 DEF ChainOps, RuleOps

(* After a command, firewalld accepts the change that belongs to it, and   *)
(* that change brings the two together.                                    *)
LEMMA CommandAgrees ==
  ASSUME KernelInv, direct \in Configs, Agree(direct),
         NEW op \in ChainOps \cup RuleOps, ~Unsupported(op.rule),
         op.verb = "add" => op.rule \notin Rules(op.chain),
         Succeeds(op), kernel' = AfterCommand(op), direct' = direct
  PROVE  ~Rejected(op)' /\ Agree(AfterChange(op))'
<1>1. \A e \in direct.rules : e = Entry(e.chain, e.rule)
  BY DEF Configs, Entries, Entry
<1>2. \A c, d, r, q : Entry(c, r) = Entry(d, q) => c = d /\ r = q
  BY DEF Entry
<1>3. \A c, r : Entry(c, r).chain = c /\ Entry(c, r).rule = r
  BY DEF Entry
<1>4. /\ Chains = {FORWARD} \cup direct.chains
      /\ \A e \in direct.rules : e.chain \in Chains /\ e.rule \in ToSet(kernel[e.chain])
      /\ \A c \in Chains : \A r \in ToSet(kernel[c]) : Entry(c, r) \in direct.rules
      /\ \A c \in Chains : IsInjective(kernel[c])
  BY DEF Agree, Rules
<1>5. CASE op.verb = "new_chain"
  <2>1. op.chain # FORWARD
    BY <1>5, ForwardIsNoFirewalls DEF ChainOps, RuleOps
  <2>2. /\ op.chain \notin Chains
        /\ Chains' = Chains \cup {op.chain}
        /\ kernel'[op.chain] = <<>>
        /\ \A c \in Chains : kernel'[c] = kernel[c]
    BY <1>5, NewChain
  <2>3. ~Rejected(op)'
    BY <1>4, <1>5, <2>2 DEF Rejected, Adds, QueriedCfg
  <2>4. /\ AfterChange(op)'.chains = direct.chains \cup {op.chain}
        /\ AfterChange(op)'.rules = direct.rules
    BY <1>5 DEF AfterChange, Configs
  <2>5. ToSet(<<>>) = {} /\ IsInjective(<<>>)
    BY DEF ToSet, IsInjective
  <2> QED
    BY <1>4, <2>2, <2>3, <2>4, <2>5 DEF Agree, Rules
<1>6. CASE op.verb = "add"
  <2>1. op \in RuleOps
    BY <1>6 DEF ChainOps
  <2> DEFINE new == Entry(op.chain, op.rule)
  <2>2. /\ op.chain \in Chains
        /\ Chains' = Chains
        /\ \A c \in Chains : c # op.chain => kernel'[c] = kernel[c]
        /\ ToSet(kernel'[op.chain]) = Rules(op.chain) \cup {op.rule}
        /\ IsInjective(kernel[op.chain]) /\ op.rule \notin Rules(op.chain)
              => IsInjective(kernel'[op.chain])
    BY <1>6, <2>1, AddRule
  <2>3. Rules(op.chain) = ToSet(kernel[op.chain])
    BY <2>2 DEF Rules
  <2>4. new \notin direct.rules
    BY <1>3, <1>4, <1>6, <2>3
  <2>5. ~Rejected(op)'
    BY <1>6, <2>4 DEF Rejected, Adds, QueriedCfg
  <2>6. /\ AfterChange(op)'.chains = direct.chains
        /\ AfterChange(op)'.rules = direct.rules \cup {new}
    BY <1>6 DEF AfterChange, Configs
  <2> HIDE DEF new
  <2>7. new = Entry(op.chain, op.rule) /\ new.chain = op.chain /\ new.rule = op.rule
    BY <1>3 DEF new
  <2>8. \A e \in direct.rules \cup {new} :
          e.chain \in Chains /\ e.rule \in ToSet(kernel'[e.chain])
    BY <1>4, <2>2, <2>3, <2>7
  <2>9. \A c \in Chains : \A r \in ToSet(kernel'[c]) : Entry(c, r) \in direct.rules \cup {new}
    BY <1>4, <2>2, <2>3, <2>7
  <2>10. \A c \in Chains : IsInjective(kernel'[c])
    BY <1>4, <1>6, <2>2, <2>3
  <2> QED
    BY <1>4, <2>2, <2>5, <2>6, <2>8, <2>9, <2>10 DEF Agree, Rules
<1>7. CASE op.verb \in {"delete", "purge_rule"}
  <2>1. op \in RuleOps
    BY <1>7 DEF ChainOps
  <2> DEFINE old == Entry(op.chain, op.rule)
  <2>2. /\ op.chain \in Chains /\ op.rule \in Rules(op.chain)
        /\ Chains' = Chains
        /\ \A c \in Chains : c # op.chain => kernel'[c] = kernel[c]
        /\ ToSet(kernel'[op.chain]) \subseteq Rules(op.chain)
        /\ Rules(op.chain) \ {op.rule} \subseteq ToSet(kernel'[op.chain])
        /\ IsInjective(kernel[op.chain]) =>
              /\ IsInjective(kernel'[op.chain])
              /\ op.rule \notin ToSet(kernel'[op.chain])
    BY <1>7, <2>1, DeleteRule
  <2>3. Rules(op.chain) = ToSet(kernel[op.chain])
    BY <2>2 DEF Rules
  <2>4. old \in direct.rules
    BY <1>4, <2>2, <2>3
  <2>5. ~Rejected(op)'
    BY <1>7, <2>4 DEF Rejected, Adds, QueriedCfg
  <2>6. /\ AfterChange(op)'.chains = direct.chains
        /\ AfterChange(op)'.rules = direct.rules \ {old}
    BY <1>7 DEF AfterChange, Configs
  <2> HIDE DEF old
  <2>7. old = Entry(op.chain, op.rule) /\ old.chain = op.chain /\ old.rule = op.rule
    BY <1>3 DEF old
  <2>8. \A e \in direct.rules \ {old} :
          e.chain \in Chains /\ e.rule \in ToSet(kernel'[e.chain])
    <3> SUFFICES ASSUME NEW e \in direct.rules \ {old}
                 PROVE  e.chain \in Chains /\ e.rule \in ToSet(kernel'[e.chain])
      OBVIOUS
    <3>1. e.chain # op.chain \/ e.rule # op.rule
      BY <1>1, <2>7
    <3> QED
      BY <1>4, <2>2, <2>3, <3>1
  <2>9. \A c \in Chains : \A r \in ToSet(kernel'[c]) : Entry(c, r) \in direct.rules \ {old}
    <3> SUFFICES ASSUME NEW c \in Chains, NEW r \in ToSet(kernel'[c])
                 PROVE  Entry(c, r) \in direct.rules \ {old}
      OBVIOUS
    <3>1. c # op.chain \/ r # op.rule
      BY <1>4, <2>2
    <3> QED
      BY <1>2, <1>4, <2>2, <2>3, <2>7, <3>1
  <2>10. \A c \in Chains : IsInjective(kernel'[c])
    BY <1>4, <2>2
  <2> QED
    BY <1>4, <2>2, <2>5, <2>6, <2>8, <2>9, <2>10 DEF Agree, Rules
<1>8. CASE op.verb = "drop_chain"
  <2>1. op \in ChainOps /\ op.chain # FORWARD
    BY <1>8, ForwardIsNoFirewalls DEF ChainOps, RuleOps
  <2>2. /\ op.chain \in Chains
        /\ kernel[op.chain] = <<>>
        /\ Chains' = Chains \ {op.chain}
        /\ \A c \in Chains' : kernel'[c] = kernel[c]
    BY <1>8, <2>1, DropChain
  <2>3. ~Rejected(op)'
    BY <1>4, <1>8, <2>1, <2>2 DEF Rejected, Adds, QueriedCfg
  <2>4. /\ AfterChange(op)'.chains = direct.chains \ {op.chain}
        /\ AfterChange(op)'.rules = direct.rules
    BY <1>8 DEF AfterChange, Configs
  <2>5. ToSet(<<>>) = {}
    BY DEF ToSet
  <2>6. \A e \in direct.rules : e.chain \in Chains'
    BY <1>4, <2>2, <2>5
  <2> QED
    BY <1>4, <2>1, <2>2, <2>3, <2>4, <2>6 DEF Agree, Rules
<1> QED
  BY <1>5, <1>6, <1>7, <1>8 DEF ChainOps, RuleOps

-----------------------------------------------------------------------------
(* Types.  A handler that is at a call has an operation that makes it.     *)
FwTyping ==
  /\ job \in [Workers -> Jobs \cup {NoJob}]
  /\ todo \in [Workers -> Seq(Ops)]
  /\ phase \in [Workers -> Phases]
  /\ direct \in Configs
  /\ snap \in [Workers -> Configs]
  /\ requests \in 0..MaxRequests
  /\ overlapped \in BOOLEAN /\ cut \in BOOLEAN
  /\ faulty \in SUBSET Workers

Serving == \A w \in Workers : pc[w] # "idle" => job[w] \in Jobs

MidOp == {"apply", "query_cfg", "apply_cfg"}
Working ==
  \A w \in Workers :
    pc[w] = "inside" /\ phase[w] \in MidOp =>
      /\ todo[w] # <<>>
      /\ Current(w) \in ChainOps \cup RuleOps
      /\ ~Unsupported(Current(w).rule)

FwBase == TypeOK /\ FwTyping /\ Serving /\ Working

LEMMA NoConfigType == NoConfig \in Configs
BY FS_EmptySet DEF NoConfig, Configs

LEMMA InitBase == FwInit => FwBase /\ KernelInv
<1> SUFFICES ASSUME FwInit PROVE FwBase /\ KernelInv
  OBVIOUS
<1>1. TypeOK
  BY InitType DEF FwInit, TypeInv
<1>2. FwTyping
  <2>1. <<>> \in Seq(Ops) /\ 0 \in 0..MaxRequests
    BY BoundAssumption
  <2>2. todo \in [Workers -> Seq(Ops)]
    BY <2>1 DEF FwInit
  <2>3. job \in [Workers -> Jobs \cup {NoJob}]
    BY DEF FwInit
  <2>4. direct \in Configs /\ snap \in [Workers -> Configs]
    BY NoConfigType DEF FwInit
  <2> QED
    BY <2>1, <2>2, <2>3, <2>4 DEF FwInit, FwTyping, Phases
<1>3. Serving /\ Working
  BY DEF FwInit, Init, Serving, Working
<1>4. Chains = {FORWARD} /\ kernel[FORWARD] = <<>>
  BY DEF FwInit, Chains
<1>5. <<>> \in Seq(Supported) /\ ToSet(<<>>) = {} /\ InOrder(<<>>)
  BY DEF ToSet, InOrder
<1> QED
  BY <1>1, <1>2, <1>3, <1>4, <1>5 DEF FwBase, KernelInv, Rules

LEMMA RequestBase ==
  ASSUME FwBase, NEW w \in Workers, NEW j \in Jobs, FwRequest(w, j),
         overlapped' \in BOOLEAN, faulty' \in SUBSET Workers, TypeOK'
  PROVE  FwBase'
<1>1. FwTyping'
  BY BoundAssumption DEF FwBase, FwTyping, FwRequest
<1>2. Serving' /\ Working'
  BY DEF FwBase, TypeOK, FwTyping, Serving, Working, Current, FwRequest, Request, GoTo
<1> QED
  BY <1>1, <1>2 DEF FwBase

LEMMA WaitBase ==
  ASSUME FwBase, NEW w \in Workers, Wait(w), overlapped' \in BOOLEAN, faulty' \in SUBSET Workers, TypeOK'
  PROVE  FwBase'
<1>1. FwTyping'
  BY DEF FwBase, FwTyping, Wait
<1>2. CASE Sleep(w) /\ job' = IF pc'[w] = "idle" THEN [job EXCEPT ![w] = NoJob] ELSE job
  <2>1. /\ pc[w] = "loop_read" /\ pc'[w] # "inside"
        /\ \A v \in Workers : v # w => pc'[v] = pc[v] /\ job'[v] = job[v]
        /\ pc'[w] # "idle" => job'[w] = job[w]
    BY <1>2 DEF FwBase, TypeOK, FwTyping, Sleep, GoTo
  <2> QED
    BY <1>1, <2>1 DEF FwBase, Serving, Working, Current, Wait
<1>3. CASE (FirstRead(w) \/ LoopRead(w) \/ SetOpen(w)) /\ UNCHANGED job
  <2>1. /\ pc[w] # "idle" /\ pc'[w] # "inside"
        /\ \A v \in Workers : v # w => pc'[v] = pc[v]
    BY <1>3 DEF FwBase, TypeOK, FirstRead, LoopRead, SetOpen, Open, Admitted, GoTo
  <2> QED
    BY <1>1, <1>3, <2>1 DEF FwBase, Serving, Working, Current, Wait
<1> QED
  BY <1>2, <1>3 DEF Wait

LEMMA EnterBase ==
  ASSUME FwBase, NEW w \in Workers, Enter(w), overlapped' \in BOOLEAN, faulty' \in SUBSET Workers, TypeOK'
  PROVE  FwBase'
<1>1. job[w] \in Jobs /\ Plan(job[w]) \in Seq(Ops)
  BY PlanType DEF FwBase, Serving, Enter, SetClose
<1>2. FwTyping'
  BY <1>1 DEF FwBase, FwTyping, Enter, Phases
<1>3. Serving' /\ Working'
  BY DEF FwBase, TypeOK, FwTyping, Serving, Working, Current, Enter, SetClose, GoTo, MidOp
<1> QED
  BY <1>2, <1>3 DEF FwBase

LEMMA HeadAndTail ==
  ASSUME NEW S, NEW s \in Seq(S), s # <<>>
  PROVE  Head(s) \in S /\ Tail(s) \in Seq(S)
OBVIOUS

LEMMA FoundOps ==
  ASSUME NEW S, IsFiniteSet(S)
  PROVE  /\ DOMAIN SetToSeq(S) = 1..Len(SetToSeq(S)) /\ Len(SetToSeq(S)) \in Nat
         /\ \A i \in DOMAIN SetToSeq(S) : SetToSeq(S)[i] \in S
         /\ \A x \in S : \E i \in DOMAIN SetToSeq(S) : SetToSeq(S)[i] = x
<1>1. SetToSeq(S) \in Seq(S) /\ ToSet(SetToSeq(S)) = S
  BY SetToSeqLists
<1>2. \A x \in S : \E i \in DOMAIN SetToSeq(S) : SetToSeq(S)[i] = x
  BY <1>1 DEF ToSet
<1> QED
  BY <1>1, <1>2

LEMMA PurgeOps ==
  ASSUME NEW E \in SUBSET Entries, IsFiniteSet(E)
  PROVE  LET found == SetToSeq(E)
             ops == [i \in DOMAIN found |->
                       Op("purge_rule", found[i].chain, found[i].rule)]
         IN  /\ ops \in Seq(Ops)
             /\ \A i \in DOMAIN ops :
                  \E e \in E : ops[i] = Op("purge_rule", e.chain, e.rule)
             /\ \A e \in E :
                  \E i \in DOMAIN ops : ops[i] = Op("purge_rule", e.chain, e.rule)
<1> DEFINE found == SetToSeq(E)
           ops == [i \in DOMAIN found |->
                     Op("purge_rule", found[i].chain, found[i].rule)]
<1>1. /\ DOMAIN found = 1..Len(found) /\ Len(found) \in Nat
      /\ \A i \in DOMAIN found : found[i] \in E
      /\ \A x \in E : \E i \in DOMAIN found : found[i] = x
  BY FoundOps
<1> HIDE DEF found
<1>2. \A e \in E : Op("purge_rule", e.chain, e.rule) \in Ops
  BY DEF Entries, Entry, Op, Ops, RuleOps, Supported
<1>3. ops \in Seq(Ops)
  <2>1. ops \in [1..Len(found) -> Ops]
    BY <1>1, <1>2
  <2> QED
    BY <1>1, <2>1
<1>4. \A i \in DOMAIN ops : \E e \in E : ops[i] = Op("purge_rule", e.chain, e.rule)
  BY <1>1
<1>5. \A e \in E : \E i \in DOMAIN ops : ops[i] = Op("purge_rule", e.chain, e.rule)
  BY <1>1
<1> QED
  BY <1>3, <1>4, <1>5 DEF found

LEMMA DropOps ==
  ASSUME NEW C \in SUBSET FwChains, IsFiniteSet(C)
  PROVE  LET found == SetToSeq(C)
             ops == [i \in DOMAIN found |-> Op("drop_chain", found[i], Nothing)]
         IN  /\ ops \in Seq(Ops)
             /\ \A i \in DOMAIN ops :
                  \E c \in C : ops[i] = Op("drop_chain", c, Nothing)
             /\ \A c \in C :
                  \E i \in DOMAIN ops : ops[i] = Op("drop_chain", c, Nothing)
<1> DEFINE found == SetToSeq(C)
           ops == [i \in DOMAIN found |-> Op("drop_chain", found[i], Nothing)]
<1>1. /\ DOMAIN found = 1..Len(found) /\ Len(found) \in Nat
      /\ \A i \in DOMAIN found : found[i] \in C
      /\ \A x \in C : \E i \in DOMAIN found : found[i] = x
  BY FoundOps
<1> HIDE DEF found
<1>2. \A c \in C : Op("drop_chain", c, Nothing) \in Ops
  BY DEF Op, Ops, ChainOps
<1>3. ops \in Seq(Ops)
  <2>1. ops \in [1..Len(found) -> Ops]
    BY <1>1, <1>2
  <2> QED
    BY <1>1, <2>1
<1>4. \A i \in DOMAIN ops : \E c \in C : ops[i] = Op("drop_chain", c, Nothing)
  BY <1>1
<1>5. \A c \in C : \E i \in DOMAIN ops : ops[i] = Op("drop_chain", c, Nothing)
  BY <1>1
<1> QED
  BY <1>3, <1>4, <1>5 DEF found

(* The steps inside the critical region that leave the file alone.         *)
LEMMA InsideBase ==
  ASSUME FwBase, NEW w \in Workers, overlapped' \in BOOLEAN,
         faulty' \in SUBSET Workers, TypeOK',
         \/ Query(w) \/ GetAllRules(w) \/ GetAllChains(w) \/ Apply(w)
         \/ QueryCfg(w) \/ ApplyCfg(w) \/ GetSettings(w) \/ CommandFails(w)
  PROVE  FwBase'
<1>1. /\ pc[w] = "inside" /\ pc' = pc /\ job' = job /\ requests' = requests /\ cut' = cut
      /\ \A v \in Workers : v # w => todo'[v] = todo[v] /\ phase'[v] = phase[v]
  BY DEF FwBase, FwTyping, Query, GetAllRules, GetAllChains, Apply, QueryCfg, ApplyCfg,
         GetSettings, CommandFails, NextOp, Continue, Call, At, stateFileVars
<1>2. todo[w] \in Seq(Ops) /\ (todo[w] # <<>> => Current(w) \in Ops /\ Tail(todo[w]) \in Seq(Ops))
  BY HeadAndTail DEF FwBase, FwTyping, Current
<1>3. todo' \in [Workers -> Seq(Ops)]
  <2>1. CASE GetAllRules(w)
    <3> DEFINE E == {e \in direct.rules : e.chain \in ChainsOf(Current(w).chain)}
    <3>1. IsFiniteSet(E) /\ E \in SUBSET Entries
      BY FS_Subset DEF FwBase, FwTyping, Configs
    <3>2. PICK ops : /\ ops \in Seq(Ops)
                     /\ todo[w] # <<>> /\ todo' = [todo EXCEPT ![w] = ops \o Tail(@)]
      BY <2>1, <3>1, PurgeOps DEF GetAllRules, Call
    <3>3. ops \o Tail(todo[w]) \in Seq(Ops)
      BY <1>2, <3>2
    <3> QED
      BY <3>2, <3>3 DEF FwBase, FwTyping
  <2>2. CASE GetAllChains(w)
    <3> DEFINE C == direct.chains \cap ChainsOf(Current(w).chain)
    <3>1. IsFiniteSet(C) /\ C \in SUBSET FwChains
      BY FS_Subset DEF FwBase, FwTyping, Configs
    <3>2. PICK ops : /\ ops \in Seq(Ops)
                     /\ todo[w] # <<>> /\ todo' = [todo EXCEPT ![w] = ops \o Tail(@)]
      BY <2>2, <3>1, DropOps DEF GetAllChains, Call
    <3>3. ops \o Tail(todo[w]) \in Seq(Ops)
      BY <1>2, <3>2
    <3> QED
      BY <3>2, <3>3 DEF FwBase, FwTyping
  <2>3. CASE \/ Query(w) \/ Apply(w) \/ QueryCfg(w) \/ ApplyCfg(w) \/ GetSettings(w)
            \/ CommandFails(w)
    BY <1>2, <2>3 DEF FwBase, FwTyping, Query, Apply, QueryCfg, ApplyCfg, GetSettings,
                      CommandFails, NextOp, Call
  <2> QED
    BY <2>1, <2>2, <2>3
<1>4. phase' \in [Workers -> Phases]
  BY DEF FwBase, FwTyping, Query, GetAllRules, GetAllChains, Apply, QueryCfg, ApplyCfg,
         GetSettings, CommandFails, NextOp, Continue, Phases
<1>5. direct' \in Configs
  <2>1. CASE ApplyCfg(w)
    BY <2>1, ChangeType DEF ApplyCfg, Call, At, FwBase, FwTyping, Working, MidOp
  <2>2. CASE ~ApplyCfg(w)
    BY <2>2 DEF FwBase, FwTyping, Query, GetAllRules, GetAllChains, Apply, QueryCfg,
                GetSettings, CommandFails
  <2> QED
    BY <2>1, <2>2
<1>6. snap' \in [Workers -> Configs]
  BY DEF FwBase, FwTyping, Query, GetAllRules, GetAllChains, Apply, QueryCfg, ApplyCfg,
         GetSettings, CommandFails
<1>7. FwTyping'
  BY <1>1, <1>3, <1>4, <1>5, <1>6 DEF FwBase, FwTyping
<1>8. phase'[w] \in MidOp =>
        /\ todo'[w] = todo[w] /\ todo[w] # <<>>
        /\ Current(w) \in ChainOps \cup RuleOps /\ ~Unsupported(Current(w).rule)
  <2>1. CASE Query(w)
    BY <1>2, <2>1 DEF Query, Call, NextOp, Continue, FwBase, FwTyping, MidOp,
                      Ops, PassOps
  <2>2. CASE GetAllRules(w) \/ GetAllChains(w) \/ ApplyCfg(w) \/ GetSettings(w)
    BY <2>2 DEF GetAllRules, GetAllChains, ApplyCfg, GetSettings, NextOp, Continue,
                FwBase, FwTyping, MidOp
  <2>3. CASE Apply(w) \/ QueryCfg(w)
    BY <2>3 DEF Apply, QueryCfg, NextOp, Continue, Call, At, FwBase, FwTyping,
                Working, MidOp
  <2>4. CASE CommandFails(w)
    BY <1>2, <2>4 DEF CommandFails, NextOp, Continue, Call, At, FwBase, FwTyping,
                      Working, MidOp, Ops, PassOps
  <2> QED
    BY <2>1, <2>2, <2>3, <2>4
<1>9. Serving' /\ Working'
  BY <1>1, <1>8 DEF FwBase, Serving, Working, Current
<1> QED
  BY <1>7, <1>9 DEF FwBase

LEMMA LeaveBase ==
  ASSUME FwBase, NEW w \in Workers, Raise(w) \/ DBusFails(w) \/ Update(w) \/ Unset(w),
         overlapped' \in BOOLEAN, faulty' \in SUBSET Workers, TypeOK'
  PROVE  FwBase'
<1>1. CASE Raise(w) \/ DBusFails(w)
  <2>1. /\ pc'[w] = "idle" /\ Forget(w) /\ direct' = direct /\ requests' = requests
        /\ \A v \in Workers : v # w => pc'[v] = pc[v]
        /\ cut' \in BOOLEAN
    BY <1>1 DEF Raise, DBusFails, Abandon, LeaveEngaged, GoTo, FwBase, TypeOK, FwTyping
  <2>2. FwTyping'
    BY <2>1, NoConfigType DEF FwBase, FwTyping, Forget, Phases
  <2>3. Serving' /\ Working'
    BY <2>1 DEF FwBase, FwTyping, Serving, Working, Current, Forget
  <2> QED
    BY <2>2, <2>3 DEF FwBase
<1>2. CASE Update(w)
  BY <1>2 DEF Update, Finish, GoTo, FwBase, TypeOK, FwTyping, Serving, Working, Current
<1>3. CASE UnsetOpen(w) /\ UNCHANGED <<fwVars, cut>>
  BY <1>3 DEF UnsetOpen, Open, GoTo, FwBase, TypeOK, FwTyping, Serving, Working, Current,
              fwVars
<1>4. CASE UnsetClose(w) /\ Forget(w) /\ UNCHANGED <<kernel, direct, requests, cut>>
  <2>1. /\ pc'[w] = "idle"
        /\ \A v \in Workers : v # w => pc'[v] = pc[v]
    BY <1>4 DEF UnsetClose, LeaveEngaged, GoTo, FwBase, TypeOK
  <2>2. FwTyping'
    BY <1>4, NoConfigType DEF FwBase, FwTyping, Forget, Phases
  <2>3. Serving' /\ Working'
    BY <1>4, <2>1 DEF FwBase, FwTyping, Serving, Working, Current, Forget
  <2> QED
    BY <2>2, <2>3 DEF FwBase
<1> QED
  BY <1>1, <1>2, <1>3, <1>4 DEF Unset

LEMMA OutageBase ==
  ASSUME FwBase, FwCrash \/ FwReboot, overlapped' \in BOOLEAN, faulty' \in SUBSET Workers, TypeOK'
  PROVE  FwBase'
<1>1. /\ ForgetAll /\ direct' = direct /\ requests' = requests
      /\ \A w \in Workers : pc'[w] = "idle"
      /\ cut' \in BOOLEAN
  BY DEF FwCrash, FwReboot, Crash, Reboot, FwBase, FwTyping
<1>2. FwTyping'
  BY <1>1, NoConfigType DEF FwBase, FwTyping, ForgetAll, Phases
<1>3. Serving' /\ Working'
  BY <1>1 DEF Serving, Working
<1> QED
  BY <1>2, <1>3 DEF FwBase

LEMMA NextBase ==
  ASSUME FwBase, [FwNext]_firewallVars, TypeOK'
  PROVE  FwBase'
<1>1. CASE UNCHANGED firewallVars
  BY <1>1 DEF firewallVars, stateFileVars, fwVars, FwBase, TypeOK, FwTyping, Serving,
              Working, Current
<1>2. CASE FwNext
  <2>1. overlapped' \in BOOLEAN /\ faulty' \in SUBSET Workers
    BY <1>2 DEF FwNext, Recorded, FwReboot, FwBase, FwTyping
  <2>2. CASE \E w \in Workers : FwStep(w)
    BY <2>1, <2>2, WaitBase, EnterBase, InsideBase, LeaveBase DEF FwStep
  <2> QED
    BY <1>2, <2>1, <2>2, RequestBase, InsideBase, OutageBase DEF FwNext
<1> QED
  BY <1>1, <1>2

LEMMA NextKernel ==
  ASSUME FwBase, KernelInv, [FwNext]_firewallVars
  PROVE  KernelInv'
<1>1. ASSUME kernel' = kernel PROVE KernelInv'
  BY <1>1 DEF KernelInv, Chains, Rules, Loadable
<1>2. CASE FwReboot
  BY <1>2, LoadedAgrees DEF FwReboot, FwBase, FwTyping
<1>3. CASE \E w \in Workers : Apply(w)
  <2>1. PICK w \in Workers : Apply(w)
    BY <1>3
  <2>2. Current(w) \in ChainOps \cup RuleOps /\ ~Unsupported(Current(w).rule)
    BY <2>1 DEF Apply, Call, At, FwBase, Working, MidOp
  <2>3. CASE Succeeds(Current(w)) /\ kernel' = AfterCommand(Current(w))
    BY <2>2, <2>3, CommandKeepsKernel
  <2> QED
    BY <1>1, <2>1, <2>3 DEF Apply
<1>4. ASSUME NEW w \in Workers, FwStep(w), ~Apply(w) PROVE kernel' = kernel
  BY <1>4 DEF FwStep, Wait, Enter, Query, GetAllRules, GetAllChains, QueryCfg,
              ApplyCfg, Raise, DBusFails, GetSettings, Update, Unset, fwVars
<1>5. CASE UNCHANGED firewallVars
  BY <1>1, <1>5 DEF firewallVars, fwVars
<1>6. CASE FwCrash \/ \E w \in Workers, j \in Jobs : FwRequest(w, j)
  BY <1>1, <1>6 DEF FwCrash, FwRequest
<1>7. CASE \E w \in Workers : CommandFails(w)
  BY <1>1, <1>7 DEF CommandFails
<1> QED
  BY <1>1, <1>2, <1>3, <1>4, <1>5, <1>6, <1>7 DEF FwNext

-----------------------------------------------------------------------------
(* iptables and the configuration agree as long as no two handlers were    *)
(* engaged at once.  Half way through an operation they agree but for the  *)
(* change the handler is about to make; a handler that is about to add a   *)
(* rule has seen that it is missing; and save() writes back what stands.   *)
Agreement ==
  ~overlapped =>
    /\ Closed(direct)
    /\ ~cut /\ (\A w \in Workers : ~HalfDone(w)) => Agree(direct)
    /\ \A w \in Workers :
         HalfDone(w) => ~Rejected(Current(w)) /\ Agree(AfterChange(Current(w)))
    /\ \A w \in Workers :
         At(w, "apply") /\ Current(w).verb = "add"
           => Current(w).rule \notin Rules(Current(w).chain)
    /\ \A w \in Workers : At(w, "update") => snap[w] = direct

LEMMA InitAgreement == FwInit => Agreement
<1> SUFFICES ASSUME FwInit PROVE Agreement
  OBVIOUS
<1>1. \A w \in Workers : pc[w] # "inside"
  BY DEF FwInit, Init
<1>2. Closed(direct)
  BY DEF FwInit, NoConfig, Closed
<1>3. Chains = {FORWARD} /\ kernel[FORWARD] = <<>>
  BY DEF FwInit, Chains
<1>4. ToSet(<<>>) = {} /\ IsInjective(<<>>)
  BY DEF ToSet, IsInjective
<1>5. Agree(direct)
  BY <1>3, <1>4 DEF FwInit, NoConfig, Agree, Rules
<1> QED
  BY <1>1, <1>2, <1>5 DEF Agreement, HalfDone, At

(* Without an overlap the handler inside is alone, and nothing was cut.    *)
LEMMA InsideAlone ==
  ASSUME CutInv, ~overlapped, NEW w \in Workers, pc[w] \in {"set_close", "inside", "unset_open", "unset_close"}
  PROVE  ~cut /\ \A v \in Workers : v # w => pc[v] \in {"idle"} \cup Reading
BY DEF CutInv, OverlapInv, CutKeepsOthersOut, Engaged, Reading

(* Steps that leave iptables, firewalld and the handlers inside alone.     *)
LEMMA QuietAgreement ==
  ASSUME Agreement, ~overlapped, cut' = cut,
         UNCHANGED <<kernel, direct, todo, phase, snap>>,
         \A w \in Workers : pc'[w] = "inside" <=> pc[w] = "inside"
  PROVE  Agreement'
<1>1. \A w \in Workers : /\ HalfDone(w)' <=> HalfDone(w)
                         /\ Current(w)' = Current(w)
                         /\ At(w, "apply")' <=> At(w, "apply")
                         /\ At(w, "update")' <=> At(w, "update")
  BY DEF HalfDone, Current, At
<1>2. Agree(direct)' <=> Agree(direct)
  BY DEF Agree, Chains, Rules
<1>3. Closed(direct)' <=> Closed(direct)
  BY DEF Closed
<1>4. \A w \in Workers : /\ Rejected(Current(w))' <=> Rejected(Current(w))
                         /\ Agree(AfterChange(Current(w)))' <=> Agree(AfterChange(Current(w)))
                         /\ Rules(Current(w).chain)' = Rules(Current(w).chain)
  BY DEF Rejected, Adds, QueriedCfg, Agree, AfterChange, Chains, Rules, Current
<1> QED
  BY <1>1, <1>2, <1>3, <1>4 DEF Agreement

(* Only w can be inside afterwards: what is left to show.                  *)
LEMMA AloneAgreement ==
  ASSUME NEW w \in Workers,
         \A v \in Workers : v # w => pc'[v] # "inside",
         Closed(direct)',
         HalfDone(w)' =>
           /\ ~Rejected(Current(w))' /\ Agree(AfterChange(Current(w)))',
         ~HalfDone(w)' /\ ~cut' => Agree(direct)',
         At(w, "apply")' /\ Current(w)'.verb = "add"
           => Current(w)'.rule \notin Rules(Current(w).chain)',
         At(w, "update")' => snap'[w] = direct'
  PROVE  Agreement'
<1>1. \A v \in Workers : v # w => ~HalfDone(v)' /\ ~At(v, "apply")' /\ ~At(v, "update")'
  BY DEF HalfDone, At
<1> QED
  BY <1>1 DEF Agreement

LEMMA EnterAgreement ==
  ASSUME FwBase, CutInv, Agreement, ~overlapped, NEW w \in Workers, Enter(w)
  PROVE  Agreement'
<1>1. ~cut /\ \A v \in Workers : pc[v] # "inside"
  BY InsideAlone DEF Enter, SetClose, Reading
<1>2. Closed(direct) /\ Agree(direct)
  BY <1>1 DEF Agreement, HalfDone
<1>3. /\ kernel' = kernel /\ direct' = direct /\ phase'[w] = "query"
      /\ \A v \in Workers : v # w => pc'[v] # "inside"
  BY <1>1 DEF Enter, SetClose, GoTo, FwBase, TypeOK, FwTyping
<1>4. ~HalfDone(w)' /\ ~At(w, "apply")' /\ ~At(w, "update")'
  BY <1>3 DEF HalfDone, At
<1>5. Closed(direct)' /\ Agree(direct)'
  BY <1>2, <1>3 DEF Closed, Agree, Chains, Rules
<1> QED
  BY <1>3, <1>4, <1>5, AloneAgreement

(* The steps of the handler inside that change neither iptables nor the    *)
(* configuration.                                                          *)
LEMMA LookAgreement ==
  ASSUME FwBase, CutInv, Agreement, ~overlapped, NEW w \in Workers,
         pc[w] = "inside", pc' = pc, kernel' = kernel, direct' = direct,
         ~HalfDone(w), ~HalfDone(w)',
         At(w, "apply")' /\ Current(w)'.verb = "add"
           => Current(w)'.rule \notin Rules(Current(w).chain)',
         At(w, "update")' => snap'[w] = direct
  PROVE  Agreement'
<1>1. ~cut /\ \A v \in Workers : v # w => pc[v] # "inside"
  BY InsideAlone DEF Reading
<1>2. \A v \in Workers : ~HalfDone(v)
  BY <1>1 DEF HalfDone
<1>3. Closed(direct) /\ Agree(direct)
  BY <1>1, <1>2 DEF Agreement
<1>4. Closed(direct)' /\ Agree(direct)'
  BY <1>3 DEF Closed, Agree, Chains, Rules
<1> QED
  BY <1>1, <1>4, AloneAgreement

LEMMA QueryAgreement ==
  ASSUME FwBase, CutInv, KernelInv, Agreement, ~overlapped, NEW w \in Workers, Query(w)
  PROVE  Agreement'
<1>1. pc[w] = "inside" /\ pc' = pc /\ kernel' = kernel /\ direct' = direct
  BY DEF Query, Call, At, NextOp, Continue, stateFileVars
<1>2. phase[w] = "query" /\ phase'[w] \in {"query", "apply"}
  BY DEF Query, Call, At, NextOp, Continue, FwBase, FwTyping
<1>3. ~HalfDone(w) /\ ~HalfDone(w)' /\ ~At(w, "update")'
  BY <1>2 DEF HalfDone, At
<1>4. ASSUME At(w, "apply")', Current(w)'.verb = "add"
      PROVE  Current(w)'.rule \notin Rules(Current(w).chain)'
  <2>1. phase'[w] = "apply"
    BY <1>4 DEF At
  <2>2. /\ todo' = todo
        /\ \/ Current(w).verb \in {"purge_rule", "drop_chain"}
           \/ Queried(Current(w)) # Adds(Current(w))
    BY <1>2, <2>1 DEF Query, NextOp, Continue, FwBase, FwTyping
  <2>3. Current(w)' = Current(w)
    BY <2>2 DEF Current
  <2>4. Current(w).verb = "add"
    BY <1>4, <2>3
  <2>5. Adds(Current(w)) = TRUE
    BY <2>4 DEF Adds
  <2>6. ~Queried(Current(w))
    BY <2>2, <2>4, <2>5 DEF Queried
  <2>7. Current(w).rule \notin Rules(Current(w).chain)
    BY <2>4, <2>6 DEF Queried
  <2> QED
    BY <1>1, <2>2, <2>7 DEF Rules, Chains, Current
<1> QED
  BY <1>1, <1>3, <1>4, LookAgreement

LEMMA PassAgreement ==
  ASSUME FwBase, CutInv, KernelInv, Agreement, ~overlapped, NEW w \in Workers,
         GetAllRules(w) \/ GetAllChains(w) \/ GetSettings(w)
  PROVE  Agreement'
<1>1. /\ pc[w] = "inside" /\ pc' = pc /\ kernel' = kernel /\ direct' = direct
      /\ phase[w] = "query" /\ phase'[w] \in {"query", "update"}
  BY DEF GetAllRules, GetAllChains, GetSettings, Call, At, Continue, stateFileVars,
         FwBase, FwTyping
<1>2. ~HalfDone(w) /\ ~HalfDone(w)' /\ ~At(w, "apply")'
  BY <1>1 DEF HalfDone, At
<1>3. At(w, "update")' => snap'[w] = direct
  BY DEF GetAllRules, GetAllChains, GetSettings, Call, At, Continue, FwBase, FwTyping
<1> QED
  BY <1>1, <1>2, <1>3, LookAgreement

LEMMA ApplyAgreement ==
  ASSUME FwBase, CutInv, KernelInv, Agreement, ~overlapped, NEW w \in Workers, Apply(w)
  PROVE  Agreement'
<1>1. /\ pc[w] = "inside" /\ pc' = pc /\ phase[w] = "apply"
      /\ direct' = direct /\ snap' = snap
  BY DEF Apply, Call, At, NextOp, Continue, stateFileVars
<1>2. ~cut /\ \A v \in Workers : v # w => pc[v] # "inside"
  BY <1>1, InsideAlone DEF Reading
<1>3. /\ \A v \in Workers : ~HalfDone(v)
      /\ At(w, "apply")
  BY <1>1, <1>2 DEF HalfDone, At
<1>4. /\ Closed(direct) /\ Agree(direct)
      /\ Current(w).verb = "add" => Current(w).rule \notin Rules(Current(w).chain)
  BY <1>2, <1>3 DEF Agreement
<1>5. CASE Succeeds(Current(w))
  <2>1. /\ kernel' = AfterCommand(Current(w)) /\ todo' = todo
        /\ phase'[w] \in {"apply_cfg", "query_cfg"}
    BY <1>5 DEF Apply, Continue, FwBase, FwTyping
  <2>2. Current(w) \in ChainOps \cup RuleOps /\ ~Unsupported(Current(w).rule)
    BY <1>1 DEF FwBase, Working, MidOp
  <2>3. PICK op : op = Current(w)
    OBVIOUS
  <2>4. ~Rejected(op)' /\ Agree(AfterChange(op))'
    BY <1>1, <1>4, <1>5, <2>1, <2>2, <2>3, CommandAgrees DEF FwBase, FwTyping
  <2>5. Current(w)' = op
    BY <2>1, <2>3 DEF Current
  <2>6. ~Rejected(Current(w))' /\ Agree(AfterChange(Current(w)))'
    BY <2>4, <2>5 DEF Rejected, Adds, QueriedCfg, Agree, AfterChange
  <2>7. HalfDone(w)' /\ ~At(w, "apply")' /\ ~At(w, "update")'
    BY <1>1, <2>1 DEF HalfDone, At
  <2>8. Closed(direct)'
    BY <1>1, <1>4 DEF Closed
  <2> QED
    BY <1>1, <1>2, <2>6, <2>7, <2>8, AloneAgreement
<1>6. CASE ~Succeeds(Current(w))
  <2>1. kernel' = kernel /\ phase'[w] = "query"
    BY <1>6 DEF Apply, NextOp, Continue, FwBase, FwTyping
  <2>2. ~HalfDone(w) /\ ~HalfDone(w)' /\ ~At(w, "apply")' /\ ~At(w, "update")'
    BY <1>3, <2>1 DEF HalfDone, At
  <2> QED
    BY <1>1, <2>1, <2>2, LookAgreement
<1> QED
  BY <1>5, <1>6

LEMMA FaultAgreement ==
  ASSUME FwBase, CutInv, KernelInv, Agreement, ~overlapped, NEW w \in Workers,
         CommandFails(w)
  PROVE  Agreement'
<1>1. /\ pc[w] = "inside" /\ pc' = pc /\ kernel' = kernel /\ direct' = direct
      /\ phase[w] \in {"query", "apply"} /\ phase'[w] \in {"query", "apply"}
  BY DEF CommandFails, Call, At, NextOp, Continue, stateFileVars, FwBase, FwTyping
<1>2. ~HalfDone(w) /\ ~HalfDone(w)' /\ ~At(w, "update")'
  BY <1>1 DEF HalfDone, At
<1>3. At(w, "apply")' => Current(w)'.verb = "delete"
  BY DEF CommandFails, Call, At, NextOp, Continue, FwBase, FwTyping, Current
<1> QED
  BY <1>1, <1>2, <1>3, LookAgreement

LEMMA QueryCfgAgreement ==
  ASSUME FwBase, CutInv, KernelInv, Agreement, ~overlapped, NEW w \in Workers, QueryCfg(w)
  PROVE  Agreement'
<1>1. /\ pc[w] = "inside" /\ pc' = pc /\ HalfDone(w)
      /\ direct' = direct /\ snap' = snap /\ kernel' = kernel
  BY DEF QueryCfg, Call, At, NextOp, Continue, stateFileVars, HalfDone
<1>2. ~cut /\ \A v \in Workers : v # w => pc[v] # "inside"
  BY <1>1, InsideAlone DEF Reading
<1>3. /\ Closed(direct)
      /\ ~Rejected(Current(w)) /\ Agree(AfterChange(Current(w)))
  BY <1>1 DEF Agreement
<1>4. todo' = todo /\ phase'[w] = "apply_cfg"
  BY <1>3 DEF QueryCfg, Continue, FwBase, FwTyping
<1>5. ~Rejected(Current(w))' /\ Agree(AfterChange(Current(w)))'
  BY <1>1, <1>3, <1>4 DEF Rejected, Adds, QueriedCfg, Agree, AfterChange, Current,
                          Chains, Rules
<1>6. HalfDone(w)' /\ ~At(w, "apply")' /\ ~At(w, "update")'
  BY <1>1, <1>4 DEF HalfDone, At
<1>7. Closed(direct)'
  BY <1>1, <1>3 DEF Closed
<1> QED
  BY <1>1, <1>2, <1>5, <1>6, <1>7, AloneAgreement

LEMMA ApplyCfgAgreement ==
  ASSUME FwBase, CutInv, KernelInv, Agreement, ~overlapped, NEW w \in Workers, ApplyCfg(w)
  PROVE  Agreement'
<1>1. /\ pc[w] = "inside" /\ pc' = pc /\ HalfDone(w) /\ phase[w] \in MidOp
      /\ direct' = AfterChange(Current(w)) /\ snap' = snap /\ kernel' = kernel
      /\ phase'[w] = "query"
  BY DEF ApplyCfg, Call, At, NextOp, Continue, stateFileVars, HalfDone, FwBase,
         FwTyping, MidOp
<1>2. ~cut /\ \A v \in Workers : v # w => pc[v] # "inside"
  BY <1>1, InsideAlone DEF Reading
<1>3. Agree(AfterChange(Current(w)))
  BY <1>1 DEF Agreement
<1>4. AfterChange(Current(w)) \in Configs
  BY <1>1, ChangeType DEF FwBase, FwTyping, Working
<1>5. PICK cfg : cfg = AfterChange(Current(w))
  OBVIOUS
<1>6. Closed(cfg)
  BY <1>3, <1>4, <1>5, AgreeingCloses
<1>7. Closed(direct)' /\ Agree(direct)'
  BY <1>1, <1>3, <1>5, <1>6 DEF Closed, Agree, Chains, Rules
<1>8. ~HalfDone(w)' /\ ~At(w, "apply")' /\ ~At(w, "update")'
  BY <1>1 DEF HalfDone, At
<1> QED
  BY <1>1, <1>2, <1>7, <1>8, AloneAgreement

LEMMA FailAgreement ==
  ASSUME FwBase, CutInv, KernelInv, Agreement, ~overlapped,
         \/ \E w \in Workers : Raise(w) \/ DBusFails(w)
         \/ FwCrash
  PROVE  Agreement'
<1>1. kernel' = kernel /\ direct' = direct
  BY DEF Raise, DBusFails, FwCrash
<1>2. \A v \in Workers : pc'[v] # "inside"
  <2>1. CASE FwCrash
    BY <2>1 DEF FwCrash, Crash
  <2>2. CASE \E w \in Workers : Raise(w) \/ DBusFails(w)
    <3>1. PICK w \in Workers : pc[w] = "inside" /\ Abandon(w)
      BY <2>2 DEF Raise, DBusFails, Abandon
    <3>2. \A v \in Workers : v # w => pc[v] # "inside"
      BY <3>1, InsideAlone DEF Reading
    <3> QED
      BY <3>1, <3>2 DEF Abandon, LeaveEngaged, GoTo, FwBase, TypeOK
  <2> QED
    BY <2>1, <2>2
<1>3. Closed(direct)'
  BY <1>1 DEF Agreement, Closed
<1>4. ASSUME ~cut' PROVE Agree(direct)'
  <2>1. ~cut /\ \A v \in Workers : ~HalfDone(v)
    <3>1. CASE FwCrash
      BY <1>4, <3>1 DEF FwCrash
    <3>2. CASE \E w \in Workers : Raise(w) \/ DBusFails(w)
      <4>1. PICK w \in Workers : Raise(w) \/ DBusFails(w)
        BY <3>2
      <4>2. pc[w] = "inside"
        BY <4>1 DEF Raise, DBusFails, Abandon
      <4>3. ~cut /\ \A v \in Workers : v # w => ~HalfDone(v)
        BY <4>2, InsideAlone DEF Reading, HalfDone
      <4>4. ~HalfDone(w)
        <5>1. CASE DBusFails(w)
          BY <1>4, <5>1 DEF DBusFails
        <5>2. CASE Raise(w) /\ HalfDone(w)
          <6>1. Rejected(Current(w))
            BY <5>2 DEF Raise, Call, At, HalfDone
          <6> QED
            BY <5>2, <6>1 DEF Agreement
        <5> QED
          BY <4>1, <5>1, <5>2
      <4> QED
        BY <4>3, <4>4
    <3> QED
      BY <3>1, <3>2
  <2>2. Agree(direct)
    BY <2>1 DEF Agreement
  <2> QED
    BY <1>1, <2>2 DEF Agree, Chains, Rules
<1> QED
  BY <1>2, <1>3, <1>4 DEF Agreement, HalfDone, At

LEMMA SaveAgreement ==
  ASSUME FwBase, CutInv, KernelInv, Agreement, ~overlapped, NEW w \in Workers,
         Update(w) \/ Unset(w)
  PROVE  Agreement'
<1>1. /\ pc[w] \in {"inside", "unset_open", "unset_close"} /\ ~HalfDone(w)
      /\ kernel' = kernel /\ cut' = cut
  BY DEF Update, Unset, Finish, UnsetOpen, Open, UnsetClose, At, HalfDone, fwVars
<1>2. /\ ~cut
      /\ \A v \in Workers : v # w => pc[v] # "inside" /\ ~HalfDone(v)
  BY <1>1, InsideAlone DEF Reading, HalfDone
<1>3. Closed(direct) /\ Agree(direct)
  BY <1>1, <1>2 DEF Agreement
<1>4. direct' = direct
  <2>1. CASE Update(w)
    BY <2>1 DEF Update, Agreement
  <2>2. CASE Unset(w)
    BY <2>2 DEF Unset, fwVars
  <2> QED
    BY <2>1, <2>2
<1>5. \A v \in Workers : pc'[v] # "inside"
  BY <1>2 DEF Update, Unset, Finish, UnsetOpen, Open, UnsetClose, LeaveEngaged, GoTo,
              FwBase, TypeOK
<1>6. Closed(direct)' /\ Agree(direct)'
  BY <1>1, <1>3, <1>4 DEF Closed, Agree, Chains, Rules
<1> QED
  BY <1>5, <1>6 DEF Agreement, HalfDone, At

LEMMA WaitAgreement ==
  ASSUME FwBase, Agreement, ~overlapped, NEW w \in Workers,
         \/ Wait(w)
         \/ \E j \in Jobs : FwRequest(w, j)
  PROVE  Agreement'
<1>1. cut' = cut /\ UNCHANGED <<kernel, direct, todo, phase, snap>>
  BY DEF Wait, FwRequest
<1>2. \A v \in Workers : pc'[v] = "inside" <=> pc[v] = "inside"
  BY DEF Wait, FwRequest, FirstRead, LoopRead, SetOpen, Open, Sleep, Request, Admitted,
         GoTo, FwBase, TypeOK
<1> QED
  BY <1>1, <1>2, QuietAgreement

LEMMA NextAgreement ==
  ASSUME FwBase, CutInv, KernelInv, Agreement, [FwNext]_firewallVars
  PROVE  Agreement'
<1>1. CASE FwReboot
  <2>1. \A v \in Workers : pc'[v] # "inside"
    BY <1>1 DEF FwReboot, Reboot
  <2>2. ASSUME ~overlapped' PROVE Closed(direct)
    BY <1>1, <2>2 DEF FwReboot, Agreement
  <2>3. ASSUME ~overlapped' PROVE Closed(direct)' /\ Agree(direct)'
    <3>1. kernel' = Loaded(direct) /\ direct' = direct
      BY <1>1 DEF FwReboot
    <3> QED
      BY <2>2, <2>3, <3>1, LoadedAgrees DEF FwBase, FwTyping, Closed
  <2> QED
    BY <2>1, <2>3 DEF Agreement, HalfDone, At
<1>2. CASE UNCHANGED firewallVars
  <2>1. cut' = cut /\ overlapped' = overlapped /\ pc' = pc
        /\ UNCHANGED <<kernel, direct, todo, phase, snap>>
    BY <1>2 DEF firewallVars, fwVars, stateFileVars
  <2> QED
    BY <2>1, QuietAgreement DEF Agreement
<1>3. ASSUME overlapped' = (overlapped \/ Crowded'), ~overlapped',
             \/ \E w \in Workers, j \in Jobs : FwRequest(w, j)
             \/ \E w \in Workers : FwStep(w)
             \/ FwCrash
      PROVE  Agreement'
  <2>1. ~overlapped
    BY <1>3
  <2>2. CASE FwCrash
    BY <2>1, <2>2, FailAgreement
  <2>3. CASE \E w \in Workers, j \in Jobs : FwRequest(w, j)
    BY <2>1, <2>3, WaitAgreement
  <2>4. ASSUME NEW w \in Workers, FwStep(w) PROVE Agreement'
    BY <2>1, <2>4, WaitAgreement, EnterAgreement, QueryAgreement, PassAgreement,
       ApplyAgreement, QueryCfgAgreement, ApplyCfgAgreement, FailAgreement,
       SaveAgreement DEF FwStep
  <2> QED
    BY <1>3, <2>2, <2>3, <2>4
<1>4. overlapped' => Agreement'
  BY DEF Agreement
<1>5. CASE (\E w \in Workers : CommandFails(w)) /\ UNCHANGED overlapped
  BY <1>4, <1>5, FaultAgreement
<1> QED
  BY <1>1, <1>2, <1>3, <1>4, <1>5 DEF FwNext, Recorded

-----------------------------------------------------------------------------
FwInv == FwBase /\ KernelInv /\ CutInv /\ Agreement

LEMMA FwInvariant == FwSpec => []FwInv
<1>1. FwInit => FwInv
  BY InitBase, InitCut, InitAgreement DEF FwInv
<1>2. TypeOK' /\ FlagStandsUnlessRaced /\ FwInv /\ [FwNext]_firewallVars => FwInv'
  <2> SUFFICES ASSUME TypeOK', FlagStandsUnlessRaced, FwInv, [FwNext]_firewallVars
               PROVE  FwInv'
    OBVIOUS
  <2>1. FwBase'
    BY NextBase DEF FwInv
  <2>2. KernelInv'
    BY NextKernel DEF FwInv
  <2>3. CutInv'
    BY NextCut DEF FwInv, FwBase
  <2>4. Agreement'
    BY NextAgreement DEF FwInv
  <2> QED
    BY <2>1, <2>2, <2>3, <2>4 DEF FwInv
<1>3. FwSpec => [](TypeOK /\ FlagStandsUnlessRaced)
  BY FirewallImplementsStateFile, TypeCorrect, FlagStands, PTL
<1> QED
  BY <1>1, <1>2, <1>3, PTL DEF FwSpec

(* Type correctness: in particular iptables never gets a rule that         *)
(* rule_args() does not know.                                              *)
THEOREM FirewallTypes == FwSpec => []FwTypeOK
<1>1. FwInv => FwTypeOK
  <2> SUFFICES ASSUME FwInv PROVE FwTypeOK
    OBVIOUS
  <2>1. ASSUME NEW c \in Chains, NEW r \in Rules(c)
        PROVE  r[1] \in {"jump", "ACCEPT", "DROP"}
    <3>1. kernel[c] \in Seq(Supported) /\ Rules(c) = ToSet(kernel[c])
      BY DEF FwInv, KernelInv, Rules
    <3>2. ToSet(kernel[c]) \subseteq Supported
      BY <3>1 DEF ToSet
    <3>3. ~Several(r)
      BY DEF FwInv, KernelInv, Loadable
    <3> QED
      BY <3>1, <3>2, <3>3, Targets DEF Several
  <2>2. \A e \in direct.rules : e.prio \in {0, 1}
    BY DEF FwInv, FwBase, FwTyping, Configs, Entries, Entry, Prio
  <2> QED
    BY <2>1, <2>2 DEF FwInv, FwBase, FwTyping, KernelInv, FwTypeOK
<1> QED
  BY <1>1, FwInvariant, PTL

(* An ACCEPT is never behind a DROP of its chain, whatever handlers, in    *)
(* whatever order and however interleaved, put them there.                 *)
THEOREM AcceptsFirst == FwSpec => []AcceptBeforeDrop
<1>1. FwInv => AcceptBeforeDrop
  BY DEF FwInv, KernelInv, InOrder, AcceptBeforeDrop
<1> QED
  BY <1>1, FwInvariant, PTL

(* firewalld can load its configuration at any time.                       *)
THEOREM Loads == FwSpec => []ConfigLoads
<1>1. FwInv => ConfigLoads
  BY DEF FwInv, Agreement, ConfigLoads
<1> QED
  BY <1>1, FwInvariant, PTL

(* Between two operations iptables and firewalld hold the same.            *)
THEOREM Settled == FwSpec => []SettledAgrees
<1>1. FwInv => SettledAgrees
  <2> SUFFICES ASSUME FwInv, ~overlapped, ~cut, \A w \in Workers : ~HalfDone(w)
               PROVE  /\ Chains = {FORWARD} \cup direct.chains
                      /\ \A c \in Chains :
                           Rules(c) = {e.rule : e \in {e \in direct.rules : e.chain = c}}
                      /\ \A c \in Chains : IsInjective(kernel[c])
    BY DEF SettledAgrees
  <2>1. Agree(direct)
    BY DEF FwInv, Agreement
  <2>2. \A c, r : Entry(c, r).chain = c /\ Entry(c, r).rule = r
    BY DEF Entry
  <2> QED
    BY <2>1, <2>2 DEF Agree
<1> QED
  BY <1>1, FwInvariant, PTL

-----------------------------------------------------------------------------
(* What is left of a request, and what that leaves out is done.            *)

(* An operation that is behind the handler: it had its effect, or had none *)
(* to have.                                                                *)
Over(op) ==
  /\ op.verb = "new_chain" => op.chain \in Chains
  /\ op.verb = "add" /\ op.chain \in Chains /\ ~Several(op.rule)
       => op.rule \in Rules(op.chain)
  /\ op.verb \in {"delete", "purge_rule"} => op.rule \notin Rules(op.chain)
  /\ op.verb = "drop_chain" /\ op.chain \in Chains => Referenced(op.chain)

VerbsOf(j) ==
  IF j.kind \in {"attach", "attach_rule"} THEN {"new_chain", "add"}
  ELSE IF j.kind = "detach_rule" THEN {"delete"}
  ELSE IF j.addrs = <<>> THEN {}
  ELSE {"delete", "purge", "drop", "purge_rule", "drop_chain"}

Accounted(t, j) == \A o \in ToSet(Plan(j)) : o \in ToSet(t) \/ Over(o)

(* attach(): the chain a jump leads to is there by then, and the rules come *)
(* after the chains.                                                       *)
Prepared(t) ==
  \A i \in DOMAIN t :
    t[i].verb = "add" /\ IsJump(t[i].rule) =>
      \/ t[i].rule[3] \in Chains
      \/ \E k \in DOMAIN t : k < i /\ t[k].verb = "new_chain" /\ t[k].chain = t[i].rule[3]

RulesLast(t, j) ==
  \A k \in DOMAIN t : t[k].verb = "new_chain" =>
    \A o \in ToSet(Plan(j)) : o.verb = "add" /\ o.chain # FORWARD =>
      \E i \in DOMAIN t : k < i /\ t[i] = o

(* detach(): a chain is emptied before it is removed, and the last thing   *)
(* to do is to remove the chains that are not used any more.               *)
EmptiedBy(t, c, k) ==
  \A r \in Rules(c) : \E i \in DOMAIN t :
    i < k /\ (t[i].verb = "purge" \/ t[i] = Op("purge_rule", c, r))

EmptiesFirst(t, f) ==
  \A c \in ChainsOf(f) :
    /\ EmptiedBy(t, c, Len(t) + 1)
    /\ \A k \in DOMAIN t : t[k].verb \in {"drop", "drop_chain"} => EmptiedBy(t, c, k)

DropsUnused(t, f) ==
  \A c \in ChainsOf(f) : c \in Chains =>
    \/ Referenced(c)
    \/ \E i \in DOMAIN t : t[i].verb = "drop" \/ t[i] = Op("drop_chain", c, Nothing)

DropsLast(t) ==
  \A i \in DOMAIN t : t[i].verb \in {"delete", "purge", "purge_rule"} =>
    \E k \in DOMAIN t : i < k /\ t[k].verb = "drop"

OfFirewall(t, f) ==
  \A i \in DOMAIN t :
    /\ t[i].verb \in {"purge", "drop"} => t[i].chain = f
    /\ t[i].verb = "drop_chain" => t[i].chain \in ChainsOf(f)

Pending(t, j) ==
  /\ Accounted(t, j)
  /\ \A i \in DOMAIN t : t[i].verb \in VerbsOf(j)
  /\ j.kind \in {"attach", "attach_rule"} => Prepared(t) /\ RulesLast(t, j)
  /\ j.kind = "detach" /\ j.addrs # <<>> =>
       /\ EmptiesFirst(t, j.f) /\ DropsUnused(t, j.f)
       /\ DropsLast(t) /\ OfFirewall(t, j.f)

LEMMA SplitHead ==
  ASSUME NEW S, NEW t \in Seq(S), t # <<>>
  PROVE  /\ Len(t) \in Nat /\ Len(t) >= 1 /\ DOMAIN t = 1..Len(t)
         /\ Head(t) = t[1] /\ Len(Tail(t)) = Len(t) - 1
         /\ DOMAIN Tail(t) = 1..Len(t) - 1
         /\ \A i \in 1..Len(t) - 1 : Tail(t)[i] = t[i + 1]
         /\ \A i \in 2..Len(t) : i - 1 \in 1..Len(t) - 1 /\ Tail(t)[i - 1] = t[i]
         /\ ToSet(t) = {Head(t)} \cup ToSet(Tail(t))
<1>1. /\ Len(t) \in Nat /\ Len(t) >= 1 /\ DOMAIN t = 1..Len(t)
      /\ Head(t) = t[1] /\ Len(Tail(t)) = Len(t) - 1
      /\ DOMAIN Tail(t) = 1..Len(t) - 1
      /\ \A i \in 1..Len(t) - 1 : Tail(t)[i] = t[i + 1]
  OBVIOUS
<1>2. \A i \in 2..Len(t) : i - 1 \in 1..Len(t) - 1 /\ (i - 1) + 1 = i
  BY <1>1
<1>3. \A i \in 2..Len(t) : Tail(t)[i - 1] = t[i]
  BY <1>1, <1>2
<1>4. ToSet(t) \subseteq {Head(t)} \cup ToSet(Tail(t))
  <2> SUFFICES ASSUME NEW i \in 1..Len(t) PROVE t[i] \in {Head(t)} \cup ToSet(Tail(t))
    BY <1>1 DEF ToSet
  <2>1. CASE i = 1
    BY <1>1, <2>1
  <2>2. CASE i # 1
    <3>1. i \in 2..Len(t)
      BY <1>1, <2>2
    <3>2. t[i] = Tail(t)[i - 1] /\ i - 1 \in DOMAIN Tail(t)
      BY <1>1, <1>2, <1>3, <3>1
    <3> QED
      BY <3>2 DEF ToSet
  <2> QED
    BY <2>1, <2>2
<1>5. {Head(t)} \cup ToSet(Tail(t)) \subseteq ToSet(t)
  <2>1. Head(t) \in ToSet(t)
    BY <1>1 DEF ToSet
  <2>2. \A i \in 1..Len(t) - 1 : Tail(t)[i] \in ToSet(t)
    <3> SUFFICES ASSUME NEW i \in 1..Len(t) - 1 PROVE t[i + 1] \in ToSet(t)
      BY <1>1
    <3>1. i + 1 \in DOMAIN t
      BY <1>1
    <3> QED
      BY <3>1 DEF ToSet
  <2> QED
    BY <1>1, <2>1, <2>2 DEF ToSet
<1> QED
  BY <1>1, <1>2, <1>3, <1>4, <1>5

(* Going on to the next operation.                                         *)
LEMMA TailPending ==
  ASSUME NEW j, NEW t \in Seq(Ops), t # <<>>, Pending(t, j), Over(Head(t)),
         Head(t).verb \notin {"purge", "drop"}
  PROVE  Pending(Tail(t), j)
<1> DEFINE n == Len(t)
           u == Tail(t)
<1>1. /\ n \in Nat /\ n >= 1 /\ DOMAIN t = 1..n /\ Head(t) = t[1] /\ Len(u) = n - 1
      /\ DOMAIN u = 1..n - 1
      /\ \A i \in 1..n - 1 : u[i] = t[i + 1]
      /\ \A i \in 2..n : i - 1 \in 1..n - 1 /\ u[i - 1] = t[i]
      /\ ToSet(t) = {Head(t)} \cup ToSet(u)
  BY SplitHead
<1>2. \A i \in 1..n - 1 : i + 1 \in 2..n /\ i + 1 \in 1..n
  BY <1>1
<1> HIDE DEF n, u
<1>3. Accounted(u, j)
  BY <1>1 DEF Pending, Accounted
<1>4. \A i \in DOMAIN u : u[i].verb \in VerbsOf(j)
  BY <1>1, <1>2 DEF Pending
<1>5. ASSUME j.kind \in {"attach", "attach_rule"} PROVE Prepared(u)
  <2> SUFFICES ASSUME NEW i \in 1..n - 1, u[i].verb = "add", IsJump(u[i].rule),
                      u[i].rule[3] \notin Chains
               PROVE  \E k \in 1..n - 1 : /\ k < i /\ u[k].verb = "new_chain"
                                          /\ u[k].chain = u[i].rule[3]
    BY <1>1 DEF Prepared
  <2> DEFINE m == i + 1
  <2>0. Prepared(t)
    BY <1>5 DEF Pending
  <2>1. m \in DOMAIN t /\ u[i] = t[m]
    BY <1>1, <1>2
  <2> HIDE DEF m
  <2>2. PICK k \in 1..n : k < m /\ t[k].verb = "new_chain" /\ t[k].chain = u[i].rule[3]
    BY <1>1, <2>0, <2>1 DEF Prepared
  <2>3. k # 1
    BY <1>1, <2>2 DEF Over
  <2>4. k \in 2..n /\ k - 1 < i
    BY <1>1, <2>2, <2>3 DEF m
  <2>5. k - 1 \in 1..n - 1 /\ u[k - 1] = t[k]
    BY <1>1, <2>4
  <2> QED
    BY <2>2, <2>4, <2>5
<1>6. ASSUME j.kind \in {"attach", "attach_rule"} PROVE RulesLast(u, j)
  <2> SUFFICES ASSUME NEW k \in DOMAIN u, u[k].verb = "new_chain",
                      NEW o \in ToSet(Plan(j)), o.verb = "add", o.chain # FORWARD
               PROVE  \E i \in DOMAIN u : k < i /\ u[i] = o
    BY DEF RulesLast
  <2> DEFINE m == k + 1
  <2>0. RulesLast(t, j)
    BY <1>6 DEF Pending
  <2>1. m \in DOMAIN t /\ t[m].verb = "new_chain" /\ k \in 1..n - 1
    BY <1>1, <1>2
  <2> HIDE DEF m
  <2>2. PICK i \in DOMAIN t : m < i /\ t[i] = o
    BY <2>0, <2>1 DEF RulesLast
  <2>3. i \in 2..n /\ k < i - 1
    BY <1>1, <2>1, <2>2 DEF m
  <2>4. i - 1 \in 1..n - 1 /\ u[i - 1] = o
    BY <1>1, <2>2, <2>3
  <2> QED
    BY <1>1, <2>3, <2>4
<1>7. ASSUME j.kind = "detach", j.addrs # <<>>
      PROVE  /\ EmptiesFirst(u, j.f) /\ DropsUnused(u, j.f)
             /\ DropsLast(u) /\ OfFirewall(u, j.f)
  <2>1. /\ EmptiesFirst(t, j.f) /\ DropsUnused(t, j.f)
        /\ DropsLast(t) /\ OfFirewall(t, j.f)
    BY <1>7 DEF Pending
  <2>2. ASSUME NEW c \in ChainsOf(j.f), NEW k \in 1..n, EmptiedBy(t, c, k + 1)
        PROVE  EmptiedBy(u, c, k)
    <3> SUFFICES ASSUME NEW r \in Rules(c)
                 PROVE  \E i \in 1..n - 1 :
                          i < k /\ (u[i].verb = "purge" \/ u[i] = Op("purge_rule", c, r))
      BY <1>1 DEF EmptiedBy
    <3>1. PICK i \in 1..n :
            i < k + 1 /\ (t[i].verb = "purge" \/ t[i] = Op("purge_rule", c, r))
      BY <1>1, <2>2 DEF EmptiedBy
    <3>2. i # 1
      <4>1. t[1] # Op("purge_rule", c, r)
        BY <1>1 DEF Over, Op
      <4> QED
        BY <1>1, <3>1, <4>1
    <3>3. i \in 2..n /\ i - 1 < k
      BY <1>1, <3>1, <3>2
    <3> QED
      BY <1>1, <3>1, <3>3
  <2>3. EmptiesFirst(u, j.f)
    <3> SUFFICES ASSUME NEW c \in ChainsOf(j.f)
                 PROVE  /\ EmptiedBy(u, c, Len(u) + 1)
                        /\ \A k \in DOMAIN u : u[k].verb \in {"drop", "drop_chain"}
                             => EmptiedBy(u, c, k)
      BY DEF EmptiesFirst
    <3>1. EmptiedBy(u, c, Len(u) + 1)
      <4>1. EmptiedBy(t, c, n + 1) /\ Len(u) + 1 = n /\ n \in 1..n
        BY <1>1, <2>1 DEF EmptiesFirst, n
      <4> QED
        BY <2>2, <4>1
    <3>2. ASSUME NEW k \in 1..n - 1, u[k].verb \in {"drop", "drop_chain"}
          PROVE  EmptiedBy(u, c, k)
      <4>1. k + 1 \in 1..n /\ k \in 1..n /\ t[k + 1].verb \in {"drop", "drop_chain"}
        BY <1>1, <1>2, <3>2
      <4>2. EmptiedBy(t, c, k + 1)
        BY <1>1, <2>1, <4>1 DEF EmptiesFirst
      <4> QED
        BY <2>2, <4>1, <4>2
    <3> QED
      BY <1>1, <3>1, <3>2
  <2>4. DropsUnused(u, j.f)
    <3> SUFFICES ASSUME NEW c \in ChainsOf(j.f), c \in Chains, ~Referenced(c)
                 PROVE  \E i \in 1..n - 1 :
                          u[i].verb = "drop" \/ u[i] = Op("drop_chain", c, Nothing)
      BY <1>1 DEF DropsUnused
    <3>1. PICK i \in 1..n : t[i].verb = "drop" \/ t[i] = Op("drop_chain", c, Nothing)
      BY <1>1, <2>1 DEF DropsUnused
    <3>2. i # 1
      <4>1. t[1] # Op("drop_chain", c, Nothing)
        BY <1>1 DEF Over, Op
      <4> QED
        BY <1>1, <3>1, <4>1
    <3>3. i \in 2..n
      BY <1>1, <3>2
    <3> QED
      BY <1>1, <3>1, <3>3
  <2>5. DropsLast(u)
    <3> SUFFICES ASSUME NEW i \in 1..n - 1, u[i].verb \in {"delete", "purge", "purge_rule"}
                 PROVE  \E k \in 1..n - 1 : i < k /\ u[k].verb = "drop"
      BY <1>1 DEF DropsLast
    <3>1. i + 1 \in 1..n /\ t[i + 1] = u[i]
      BY <1>1, <1>2
    <3>2. PICK k \in 1..n : i + 1 < k /\ t[k].verb = "drop"
      BY <1>1, <2>1, <3>1 DEF DropsLast
    <3>3. k \in 2..n /\ i < k - 1
      BY <1>1, <3>2
    <3> QED
      BY <1>1, <3>2, <3>3
  <2>6. OfFirewall(u, j.f)
    BY <1>1, <1>2, <2>1 DEF OfFirewall
  <2> QED
    BY <2>3, <2>4, <2>5, <2>6
<1> QED
  BY <1>3, <1>4, <1>5, <1>6, <1>7 DEF Pending, u

(* The plans.                                                              *)
LEMMA Concat ==
  ASSUME NEW S, NEW s \in Seq(S), NEW t \in Seq(S)
  PROVE  /\ s \o t \in Seq(S) /\ Len(s) \in Nat /\ Len(t) \in Nat
         /\ Len(s \o t) = Len(s) + Len(t)
         /\ \A i \in 1..Len(s) : i \in 1..Len(s \o t) /\ (s \o t)[i] = s[i]
         /\ \A i \in 1..Len(t) : Len(s) + i \in 1..Len(s \o t)
                                 /\ (s \o t)[Len(s) + i] = t[i]
         /\ \A k \in Len(s) + 1..Len(s \o t) :
              k - Len(s) \in 1..Len(t) /\ (s \o t)[k] = t[k - Len(s)]
OBVIOUS

(* Rules added or deleted one by one: first those of one chain, then those *)
(* of the other.                                                           *)
LEMMA RulesPart ==
  ASSUME NEW j \in Jobs, NEW v \in {"add", "delete"}, NEW a, NEW b,
         a = [i \in DOMAIN j.inbound |-> Op(v, In(j.f), j.inbound[i])],
         b = [i \in DOMAIN j.outbound |-> Op(v, Out(j.f), j.outbound[i])]
  PROVE  a \in Seq(RuleOps) /\ b \in Seq(RuleOps)
<1>1. j.inbound \in Seq(ToSet(j.inbound)) /\ j.outbound \in Seq(ToSet(j.outbound))
  BY JobsAssumption
<1>2. In(j.f) \in FwChains /\ Out(j.f) \in FwChains
  BY DEF Names, FwChains, ChainsOf
<1>3. ToSet(j.inbound) \subseteq Requested /\ ToSet(j.outbound) \subseteq Requested
  BY DEF Requested
<1> QED
  BY <1>1, <1>2, <1>3, RulePlan

LEMMA FourAt ==
  ASSUME NEW n \in Nat, NEW i \in 1..n, NEW m \in 1..4
  PROVE  /\ 4 * (i - 1) + m \in 1..4 * n
         /\ 1 + (((4 * (i - 1) + m) - 1) \div 4) = i
         /\ 1 + (((4 * (i - 1) + m) - 1) % 4) = m
OBVIOUS

LEMMA FourOf ==
  ASSUME NEW n \in Nat, NEW k \in 1..4 * n
  PROVE  \E i \in 1..n, m \in 1..4 : k = 4 * (i - 1) + m
<1> DEFINE i == 1 + ((k - 1) \div 4)
           m == 1 + ((k - 1) % 4)
<1>1. i \in 1..n /\ m \in 1..4
  BY FourEach
<1>2. k - 1 = 4 * ((k - 1) \div 4) + ((k - 1) % 4)
  OBVIOUS
<1>3. k = 4 * (i - 1) + m
  BY <1>1, <1>2
<1> QED
  BY <1>1, <1>3

OfAddresses(j) ==
  LET n == Len(j.addrs)
      c == create_firewall(j.f, j.addrs)
      d == delete_firewall(j.f, j.addrs)
  IN  /\ n \in Nat /\ Len(c) = 4 * n /\ Len(d) = 4 * n
      /\ \A i \in 1..n, m \in 1..4 :
           /\ 4 * (i - 1) + m \in 1..4 * n
           /\ c[4 * (i - 1) + m] = CreateOps(j.f, j.addrs[i])[m]
           /\ d[4 * (i - 1) + m] = DeleteOps(j.f, j.addrs[i])[m]
      /\ \A k \in 1..4 * n : \E i \in 1..n, m \in 1..4 : k = 4 * (i - 1) + m

LEMMA AddressesPart ==
  ASSUME NEW j \in Jobs
  PROVE  OfAddresses(j)
<1> DEFINE n == Len(j.addrs)
           c == create_firewall(j.f, j.addrs)
           d == delete_firewall(j.f, j.addrs)
<1>1. n \in Nat
  BY JobsAssumption
<1>2. DOMAIN c = 1..4 * n /\ DOMAIN d = 1..4 * n
  BY DEF create_firewall, delete_firewall
<1>3. c \in Seq(ChainOps \cup RuleOps) /\ d \in Seq(RuleOps \cup PassOps)
  BY AddressPlan
<1>4. DOMAIN c = 1..Len(c) /\ DOMAIN d = 1..Len(d) /\ Len(c) \in Nat /\ Len(d) \in Nat
  BY <1>3
<1>5. Len(c) = 4 * n /\ Len(d) = 4 * n
  <2> HIDE DEF n, c, d
  <2>1. \A x, y \in Nat : 1..x = 1..y => x = y
    <3> SUFFICES ASSUME NEW x \in Nat, NEW y \in Nat, 1..x = 1..y PROVE x = y
      OBVIOUS
    <3>1. x <= y
      <4>1. CASE x = 0
        BY <4>1
      <4>2. CASE x # 0
        <5>1. x \in 1..y
          BY <4>2
        <5> QED
          BY <5>1
      <4> QED
        BY <4>1, <4>2
    <3>2. y <= x
      <4>1. CASE y = 0
        BY <4>1
      <4>2. CASE y # 0
        <5>1. y \in 1..x
          BY <4>2
        <5> QED
          BY <5>1
      <4> QED
        BY <4>1, <4>2
    <3> QED
      BY <3>1, <3>2
  <2>2. 4 * n \in Nat
    BY <1>1
  <2> QED
    BY <1>2, <1>4, <2>1, <2>2
<1>6. ASSUME NEW i \in 1..n, NEW m \in 1..4
      PROVE  /\ 4 * (i - 1) + m \in 1..4 * n
             /\ c[4 * (i - 1) + m] = CreateOps(j.f, j.addrs[i])[m]
             /\ d[4 * (i - 1) + m] = DeleteOps(j.f, j.addrs[i])[m]
  <2> DEFINE k == 4 * (i - 1) + m
  <2> HIDE DEF n
  <2>1. k \in 1..4 * n /\ 1 + ((k - 1) \div 4) = i /\ 1 + ((k - 1) % 4) = m
    BY <1>1, FourAt
  <2> HIDE DEF k
  <2>2. /\ c[k] = CreateOps(j.f, j.addrs[1 + ((k - 1) \div 4)])[1 + ((k - 1) % 4)]
        /\ d[k] = DeleteOps(j.f, j.addrs[1 + ((k - 1) \div 4)])[1 + ((k - 1) % 4)]
    BY <2>1 DEF create_firewall, delete_firewall, n
  <2>3. /\ c[k] = CreateOps(j.f, j.addrs[i])[m]
        /\ d[k] = DeleteOps(j.f, j.addrs[i])[m]
    BY <2>1, <2>2
  <2> QED
    BY <2>1, <2>3 DEF k
<1>7. \A k \in 1..4 * n : \E i \in 1..n, m \in 1..4 : k = 4 * (i - 1) + m
  BY <1>1, FourOf
<1> QED
  BY <1>1, <1>5, <1>6, <1>7 DEF OfAddresses

(* A plan that adds: the chains and jumps of each address, then the rules. *)
Adding(p, j) ==
  \E b :
    /\ p \in Seq(Ops) /\ b \in Nat
    /\ j.kind = "attach" =>
         \A i \in 1..Len(j.addrs), m \in 1..4 :
           /\ 4 * (i - 1) + m \in DOMAIN p
           /\ p[4 * (i - 1) + m] = CreateOps(j.f, j.addrs[i])[m]
    /\ \A k \in DOMAIN p : k <= b =>
         j.kind = "attach" /\ \E i \in 1..Len(j.addrs), m \in 1..4 : k = 4 * (i - 1) + m
    /\ \A k \in DOMAIN p : k > b =>
         \/ \E r \in ToSet(j.inbound) : p[k] = Op("add", In(j.f), r)
         \/ \E r \in ToSet(j.outbound) : p[k] = Op("add", Out(j.f), r)
    /\ \A r \in ToSet(j.inbound) :
         \E k \in DOMAIN p : k > b /\ p[k] = Op("add", In(j.f), r)
    /\ \A r \in ToSet(j.outbound) :
         \E k \in DOMAIN p : k > b /\ p[k] = Op("add", Out(j.f), r)

LEMMA AddingPlan ==
  ASSUME NEW j \in Jobs, j.kind \in {"attach", "attach_rule"}
  PROVE  Adding(Plan(j), j)
<1> DEFINE p == Plan(j)
           b == IF j.kind = "attach" THEN 4 * Len(j.addrs) ELSE 0
           c == IF j.kind = "attach" THEN create_firewall(j.f, j.addrs) ELSE <<>>
<1>0. PICK x, y : x = create_rule(In(j.f), j.inbound) /\ y = create_rule(Out(j.f), j.outbound)
  OBVIOUS
<1>1. p \in Seq(Ops)
  BY PlanType
<1>2. Seq(RuleOps) \subseteq Seq(Ops) /\ Seq(ChainOps \cup RuleOps) \subseteq Seq(Ops)
      /\ <<>> \in Seq(Ops)
  BY DEF Ops
<1>3. /\ x \in Seq(Ops) /\ y \in Seq(Ops)
      /\ \A i \in 1..Len(x) : \E r \in ToSet(j.inbound) : x[i] = Op("add", In(j.f), r)
      /\ \A i \in 1..Len(y) : \E r \in ToSet(j.outbound) : y[i] = Op("add", Out(j.f), r)
      /\ \A r \in ToSet(j.inbound) : \E i \in 1..Len(x) : x[i] = Op("add", In(j.f), r)
      /\ \A r \in ToSet(j.outbound) : \E i \in 1..Len(y) : y[i] = Op("add", Out(j.f), r)
  <2>1. /\ x = [i \in DOMAIN j.inbound |-> Op("add", In(j.f), j.inbound[i])]
        /\ y = [i \in DOMAIN j.outbound |-> Op("add", Out(j.f), j.outbound[i])]
    BY <1>0 DEF create_rule
  <2>2. x \in Seq(RuleOps) /\ y \in Seq(RuleOps)
    BY <2>1, RulesPart
  <2>3. /\ \A i \in 1..Len(x) : \E r \in ToSet(j.inbound) : x[i] = Op("add", In(j.f), r)
        /\ \A i \in 1..Len(y) : \E r \in ToSet(j.outbound) : y[i] = Op("add", Out(j.f), r)
        /\ \A r \in ToSet(j.inbound) : \E i \in 1..Len(x) : x[i] = Op("add", In(j.f), r)
        /\ \A r \in ToSet(j.outbound) : \E i \in 1..Len(y) : y[i] = Op("add", Out(j.f), r)
    <3>1. /\ x \in Seq(RuleOps) /\ DOMAIN x = DOMAIN j.inbound
          /\ \A i \in DOMAIN x : x[i] = Op("add", In(j.f), j.inbound[i])
      BY <2>1, <2>2
    <3>2. /\ \A i \in 1..Len(x) : \E r \in ToSet(j.inbound) : x[i] = Op("add", In(j.f), r)
          /\ \A r \in ToSet(j.inbound) : \E i \in 1..Len(x) : x[i] = Op("add", In(j.f), r)
      BY <3>1 DEF ToSet
    <3>3. /\ y \in Seq(RuleOps) /\ DOMAIN y = DOMAIN j.outbound
          /\ \A i \in DOMAIN y : y[i] = Op("add", Out(j.f), j.outbound[i])
      BY <2>1, <2>2
    <3>4. /\ \A i \in 1..Len(y) : \E r \in ToSet(j.outbound) : y[i] = Op("add", Out(j.f), r)
          /\ \A r \in ToSet(j.outbound) : \E i \in 1..Len(y) : y[i] = Op("add", Out(j.f), r)
      BY <3>3 DEF ToSet
    <3> QED
      BY <3>2, <3>4
  <2> QED
    BY <1>2, <2>2, <2>3
<1>4. c \in Seq(Ops)
  BY <1>2, AddressPlan
<1>a. OfAddresses(j)
  BY AddressesPart
<1>5. b \in Nat /\ Len(c) = b
  <2>1. CASE j.kind = "attach"
    <3>1. Len(j.addrs) \in Nat /\ Len(create_firewall(j.f, j.addrs)) = 4 * Len(j.addrs)
      BY <1>a DEF OfAddresses
    <3> QED
      BY <2>1, <3>1
  <2>2. CASE j.kind # "attach"
    BY <2>2
  <2> QED
    BY <2>1, <2>2
<1>6. j.kind = "attach" =>
        \A i \in 1..Len(j.addrs), m \in 1..4 :
          /\ 4 * (i - 1) + m \in 1..b
          /\ c[4 * (i - 1) + m] = CreateOps(j.f, j.addrs[i])[m]
  BY <1>a DEF OfAddresses
<1>7. \A k \in 1..b : j.kind = "attach" /\ \E i \in 1..Len(j.addrs), m \in 1..4 :
                                              k = 4 * (i - 1) + m
  <2>1. CASE j.kind = "attach"
    BY <1>a, <2>1 DEF OfAddresses
  <2>2. CASE j.kind # "attach"
    BY <2>2
  <2> QED
    BY <2>1, <2>2
<1>8. p = (c \o x) \o y
  <2>1. CASE j.kind = "attach"
    BY <1>0, <2>1 DEF Plan
  <2>2. CASE j.kind = "attach_rule"
    <3>1. p = x \o y
      BY <1>0, <2>2 DEF Plan
    <3>2. c \o x = x
      BY <1>3, <2>2
    <3> QED
      BY <3>1, <3>2
  <2> QED
    BY <2>1, <2>2
<1> HIDE DEF p, b, c
<1> DEFINE u == c \o x
<1>9. /\ u \in Seq(Ops) /\ Len(u) = b + Len(x) /\ Len(x) \in Nat /\ Len(y) \in Nat
      /\ \A i \in 1..b : u[i] = c[i]
      /\ \A i \in 1..Len(x) : b + i \in 1..Len(u) /\ u[b + i] = x[i]
      /\ \A k \in b + 1..Len(u) : k - b \in 1..Len(x) /\ u[k] = x[k - b]
  <2>1. /\ u \in Seq(Ops) /\ Len(u) = Len(c) + Len(x) /\ Len(x) \in Nat /\ Len(y) \in Nat
        /\ \A i \in 1..Len(c) : u[i] = c[i]
        /\ \A i \in 1..Len(x) : Len(c) + i \in 1..Len(u) /\ u[Len(c) + i] = x[i]
        /\ \A k \in Len(c) + 1..Len(u) : k - Len(c) \in 1..Len(x) /\ u[k] = x[k - Len(c)]
    BY <1>3, <1>4, Concat
  <2> HIDE DEF u
  <2> QED
    BY <1>5, <2>1
<1> HIDE DEF u
<1>10. /\ Len(p) = Len(u) + Len(y) /\ DOMAIN p = 1..Len(p) /\ Len(p) \in Nat
       /\ \A i \in 1..Len(u) : i \in 1..Len(p) /\ p[i] = u[i]
       /\ \A i \in 1..Len(y) : Len(u) + i \in 1..Len(p) /\ p[Len(u) + i] = y[i]
       /\ \A k \in Len(u) + 1..Len(p) : k - Len(u) \in 1..Len(y) /\ p[k] = y[k - Len(u)]
  <2>1. p = u \o y
    BY <1>8 DEF u
  <2>2. DOMAIN p = 1..Len(p) /\ Len(p) \in Nat
    BY <1>1
  <2> QED
    <3>1. u \in Seq(Ops) /\ y \in Seq(Ops)
      BY <1>3, <1>9
    <3>2. /\ Len(u \o y) = Len(u) + Len(y)
          /\ \A i \in 1..Len(u) : i \in 1..Len(u \o y) /\ (u \o y)[i] = u[i]
          /\ \A i \in 1..Len(y) : Len(u) + i \in 1..Len(u \o y) /\ (u \o y)[Len(u) + i] = y[i]
          /\ \A k \in Len(u) + 1..Len(u \o y) :
               k - Len(u) \in 1..Len(y) /\ (u \o y)[k] = y[k - Len(u)]
      BY <3>1, Concat
    <3> QED
      BY <2>1, <2>2, <3>2
<1>11. \A i \in 1..b : i \in 1..Len(u) /\ i \in DOMAIN p /\ p[i] = c[i]
  BY <1>5, <1>9, <1>10
<1>12. ASSUME NEW k \in DOMAIN p, k > b
       PROVE  \/ \E r \in ToSet(j.inbound) : p[k] = Op("add", In(j.f), r)
              \/ \E r \in ToSet(j.outbound) : p[k] = Op("add", Out(j.f), r)
  <2>1. CASE k \in b + 1..Len(u)
    <3>1. k \in 1..Len(u) /\ k - b \in 1..Len(x) /\ p[k] = x[k - b]
      BY <1>5, <1>9, <1>10, <2>1
    <3> QED
      BY <1>3, <3>1
  <2>2. CASE k \in Len(u) + 1..Len(p)
    <3>1. k - Len(u) \in 1..Len(y) /\ p[k] = y[k - Len(u)]
      BY <1>10, <2>2
    <3> QED
      BY <1>3, <3>1
  <2> QED
    BY <1>5, <1>9, <1>10, <1>12, <2>1, <2>2
<1>13. ASSUME NEW r \in ToSet(j.inbound)
       PROVE  \E k \in DOMAIN p : k > b /\ p[k] = Op("add", In(j.f), r)
  <2>1. PICK i \in 1..Len(x) : x[i] = Op("add", In(j.f), r)
    BY <1>3
  <2>2. b + i \in DOMAIN p /\ p[b + i] = x[i] /\ b + i > b
    BY <1>5, <1>9, <1>10
  <2> QED
    BY <2>1, <2>2
<1>14. ASSUME NEW r \in ToSet(j.outbound)
       PROVE  \E k \in DOMAIN p : k > b /\ p[k] = Op("add", Out(j.f), r)
  <2>1. PICK i \in 1..Len(y) : y[i] = Op("add", Out(j.f), r)
    BY <1>3
  <2>2. Len(u) + i \in DOMAIN p /\ p[Len(u) + i] = y[i] /\ Len(u) + i > b
    BY <1>5, <1>9, <1>10
  <2> QED
    BY <2>1, <2>2
<1>15. j.kind = "attach" =>
         \A i \in 1..Len(j.addrs), m \in 1..4 :
           /\ 4 * (i - 1) + m \in DOMAIN p
           /\ p[4 * (i - 1) + m] = CreateOps(j.f, j.addrs[i])[m]
  BY <1>6, <1>11
<1>16. \A k \in DOMAIN p : k <= b => k \in 1..b
  BY <1>10
<1> QED
  <2>1. Adding(p, j)
    BY <1>1, <1>5, <1>7, <1>12, <1>13, <1>14, <1>15, <1>16 DEF Adding
  <2> QED
    BY <2>1 DEF p

(* A plan that deletes rules.                                              *)
LEMMA DeletingPlan ==
  ASSUME NEW j \in Jobs, j.kind = "detach_rule"
  PROVE  LET p == Plan(j)
         IN  /\ \A k \in DOMAIN p : p[k].verb = "delete"
             /\ \A r \in ToSet(j.inbound) : Op("delete", In(j.f), r) \in ToSet(p)
             /\ \A r \in ToSet(j.outbound) : Op("delete", Out(j.f), r) \in ToSet(p)
<1> DEFINE p == Plan(j)
<1>0. PICK x, y : x = delete_rule(In(j.f), j.inbound) /\ y = delete_rule(Out(j.f), j.outbound)
  OBVIOUS
<1>1. p = x \o y
  BY <1>0 DEF Plan
<1>2. /\ x \in Seq(RuleOps) /\ y \in Seq(RuleOps)
      /\ \A i \in 1..Len(x) : \E r \in ToSet(j.inbound) : x[i] = Op("delete", In(j.f), r)
      /\ \A i \in 1..Len(y) : \E r \in ToSet(j.outbound) : y[i] = Op("delete", Out(j.f), r)
      /\ \A r \in ToSet(j.inbound) : \E i \in 1..Len(x) : x[i] = Op("delete", In(j.f), r)
      /\ \A r \in ToSet(j.outbound) : \E i \in 1..Len(y) : y[i] = Op("delete", Out(j.f), r)
  <2>1. /\ x = [i \in DOMAIN j.inbound |-> Op("delete", In(j.f), j.inbound[i])]
        /\ y = [i \in DOMAIN j.outbound |-> Op("delete", Out(j.f), j.outbound[i])]
    BY <1>0 DEF delete_rule
  <2>2. x \in Seq(RuleOps) /\ y \in Seq(RuleOps)
    BY <2>1, RulesPart
  <2> QED
    <3>1. /\ x \in Seq(RuleOps) /\ DOMAIN x = DOMAIN j.inbound
          /\ \A i \in DOMAIN x : x[i] = Op("delete", In(j.f), j.inbound[i])
      BY <2>1, <2>2
    <3>2. /\ \A i \in 1..Len(x) : \E r \in ToSet(j.inbound) : x[i] = Op("delete", In(j.f), r)
          /\ \A r \in ToSet(j.inbound) : \E i \in 1..Len(x) : x[i] = Op("delete", In(j.f), r)
      BY <3>1 DEF ToSet
    <3>3. /\ y \in Seq(RuleOps) /\ DOMAIN y = DOMAIN j.outbound
          /\ \A i \in DOMAIN y : y[i] = Op("delete", Out(j.f), j.outbound[i])
      BY <2>1, <2>2
    <3>4. /\ \A i \in 1..Len(y) : \E r \in ToSet(j.outbound) : y[i] = Op("delete", Out(j.f), r)
          /\ \A r \in ToSet(j.outbound) : \E i \in 1..Len(y) : y[i] = Op("delete", Out(j.f), r)
      BY <3>3 DEF ToSet
    <3> QED
      BY <2>2, <3>2, <3>4
<1> HIDE DEF p
<1>3. /\ p \in Seq(RuleOps) /\ Len(p) = Len(x) + Len(y) /\ Len(x) \in Nat /\ Len(y) \in Nat
      /\ DOMAIN p = 1..Len(p)
      /\ \A i \in 1..Len(x) : i \in 1..Len(p) /\ p[i] = x[i]
      /\ \A i \in 1..Len(y) : Len(x) + i \in 1..Len(p) /\ p[Len(x) + i] = y[i]
      /\ \A k \in Len(x) + 1..Len(p) : k - Len(x) \in 1..Len(y) /\ p[k] = y[k - Len(x)]
  <2>1. p \in Seq(RuleOps)
    BY <1>1, <1>2
  <2>2. DOMAIN p = 1..Len(p)
    BY <2>1
  <2> QED
    BY <1>1, <1>2, <2>1, <2>2, Concat
<1>4. \A c, r : Op("delete", c, r).verb = "delete"
  BY DEF Op
<1>5. ASSUME NEW k \in DOMAIN p PROVE p[k].verb = "delete"
  <2>1. CASE k \in 1..Len(x)
    <3>1. PICK r : x[k] = Op("delete", In(j.f), r)
      BY <1>2, <2>1
    <3> QED
      BY <1>3, <1>4, <2>1, <3>1
  <2>2. CASE k \in Len(x) + 1..Len(p)
    <3>1. k - Len(x) \in 1..Len(y) /\ p[k] = y[k - Len(x)]
      BY <1>3, <2>2
    <3>2. PICK r : y[k - Len(x)] = Op("delete", Out(j.f), r)
      BY <1>2, <3>1
    <3> QED
      BY <1>4, <3>1, <3>2
  <2> QED
    BY <1>3, <2>1, <2>2
<1>6. /\ \A i \in 1..Len(x) : x[i] \in ToSet(p)
      /\ \A i \in 1..Len(y) : y[i] \in ToSet(p)
  BY <1>3 DEF ToSet
<1>7. \A r \in ToSet(j.inbound) : Op("delete", In(j.f), r) \in ToSet(p)
  BY <1>2, <1>6
<1>8. \A r \in ToSet(j.outbound) : Op("delete", Out(j.f), r) \in ToSet(p)
  BY <1>2, <1>6
<1> QED
  BY <1>5, <1>7, <1>8 DEF p

(* A request begins with all of its plan to do.                            *)
LEMMA FirstAdding ==
  ASSUME NEW j \in Jobs, j.kind \in {"attach", "attach_rule"}
  PROVE  Pending(Plan(j), j)
<1> DEFINE p == Plan(j)
           n == Len(j.addrs)
<1>1. PICK b : /\ p \in Seq(Ops) /\ b \in Nat
               /\ j.kind = "attach" =>
                    \A i \in 1..n, m \in 1..4 :
                      /\ 4 * (i - 1) + m \in DOMAIN p
                      /\ p[4 * (i - 1) + m] = CreateOps(j.f, j.addrs[i])[m]
               /\ \A k \in DOMAIN p : k <= b =>
                    j.kind = "attach" /\ \E i \in 1..n, m \in 1..4 : k = 4 * (i - 1) + m
               /\ \A k \in DOMAIN p : k > b =>
                    \/ \E r \in ToSet(j.inbound) : p[k] = Op("add", In(j.f), r)
                    \/ \E r \in ToSet(j.outbound) : p[k] = Op("add", Out(j.f), r)
  <2>1. Adding(p, j)
    BY AddingPlan
  <2> HIDE DEF p
  <2> QED
    BY <2>1 DEF Adding
<1> HIDE DEF p, n
<1>2. DOMAIN p = 1..Len(p) /\ Len(p) \in Nat
  BY <1>1
<1>3. ASSUME NEW k \in DOMAIN p, k <= b
      PROVE  \E i \in 1..n, m \in 1..4 :
               k = 4 * (i - 1) + m /\ p[k] = CreateOps(j.f, j.addrs[i])[m]
  BY <1>1, <1>3
<1>4. ASSUME NEW k \in DOMAIN p, k > b
      PROVE  /\ p[k].verb = "add" /\ p[k].chain # FORWARD /\ ~IsJump(p[k].rule)
  <2>1. PICK c, r : /\ p[k] = Op("add", c, r) /\ c \in ChainsOf(j.f)
                    /\ r \in ToSet(j.inbound) \cup ToSet(j.outbound)
    BY <1>1, <1>4 DEF ChainsOf
  <2>2. ~IsJump(r)
    BY <2>1, JobsAssumption DEF IsJump
  <2>3. c # FORWARD
    BY <2>1 DEF ChainsOf, In, Out, FORWARD
  <2> QED
    BY <2>1, <2>2, <2>3 DEF Op
<1>5. \A a : /\ CreateOps(j.f, a)[1] = Op("new_chain", In(j.f), Nothing)
             /\ CreateOps(j.f, a)[2] = Op("add", FORWARD, Jump(a, In(j.f)))
             /\ CreateOps(j.f, a)[3] = Op("new_chain", Out(j.f), Nothing)
             /\ CreateOps(j.f, a)[4] = Op("add", FORWARD, Jump(a, Out(j.f)))
  BY DEF CreateOps
<1>5a. \A a : /\ CreateOps(j.f, a)[1].verb = "new_chain"
              /\ CreateOps(j.f, a)[2].verb = "add" /\ CreateOps(j.f, a)[2].chain = FORWARD
              /\ CreateOps(j.f, a)[2].rule[3] = In(j.f)
              /\ CreateOps(j.f, a)[3].verb = "new_chain"
              /\ CreateOps(j.f, a)[4].verb = "add" /\ CreateOps(j.f, a)[4].chain = FORWARD
              /\ CreateOps(j.f, a)[4].rule[3] = Out(j.f)
  BY DEF CreateOps, Op, Jump
<1>6. Accounted(p, j)
  BY DEF Accounted, p
<1>7. \A k \in DOMAIN p : p[k].verb \in VerbsOf(j)
  <2> SUFFICES ASSUME NEW k \in DOMAIN p PROVE p[k].verb \in {"new_chain", "add"}
    BY DEF VerbsOf
  <2>1. CASE k > b
    BY <1>4, <2>1
  <2>2. CASE k <= b
    <3>1. PICK i \in 1..n, m \in 1..4 : p[k] = CreateOps(j.f, j.addrs[i])[m]
      BY <1>3, <2>2
    <3>2. m \in {1, 2, 3, 4}
      OBVIOUS
    <3> QED
      BY <1>5a, <3>1, <3>2
  <2> QED
    BY <1>1, <1>2, <2>1, <2>2
<1>8. Prepared(p)
  <2> SUFFICES ASSUME NEW k \in DOMAIN p, p[k].verb = "add", IsJump(p[k].rule)
               PROVE  \E l \in DOMAIN p : /\ l < k /\ p[l].verb = "new_chain"
                                          /\ p[l].chain = p[k].rule[3]
    BY DEF Prepared
  <2>1. k <= b
    BY <1>1, <1>2, <1>4
  <2>2. PICK i \in 1..n, m \in 1..4 :
          k = 4 * (i - 1) + m /\ p[k] = CreateOps(j.f, j.addrs[i])[m]
    BY <1>3, <2>1
  <2>3. j.kind = "attach"
    BY <1>1, <2>1
  <2>4. \A q \in 1..4 : /\ 4 * (i - 1) + q \in DOMAIN p
                        /\ p[4 * (i - 1) + q] = CreateOps(j.f, j.addrs[i])[q]
    BY <1>1, <2>3
  <2>5. m \in {2, 4}
    <3>1. m # 1 /\ m # 3
      BY <1>5, <2>2 DEF Op
    <3> QED
      BY <3>1
  <2>6. CASE m = 2
    <3>1. /\ 4 * (i - 1) + 1 \in DOMAIN p /\ 4 * (i - 1) + 1 < k
          /\ p[4 * (i - 1) + 1] = Op("new_chain", In(j.f), Nothing)
      <4>1. n \in Nat
        BY JobsAssumption DEF n
      <4> QED
        BY <1>5, <2>2, <2>4, <2>6, <4>1
    <3>2. p[k].rule[3] = In(j.f)
      BY <1>5a, <2>2, <2>6
    <3> QED
      BY <3>1, <3>2 DEF Op
  <2>7. CASE m = 4
    <3>1. /\ 4 * (i - 1) + 3 \in DOMAIN p /\ 4 * (i - 1) + 3 < k
          /\ p[4 * (i - 1) + 3] = Op("new_chain", Out(j.f), Nothing)
      <4>1. n \in Nat
        BY JobsAssumption DEF n
      <4> QED
        BY <1>5, <2>2, <2>4, <2>7, <4>1
    <3>2. p[k].rule[3] = Out(j.f)
      BY <1>5a, <2>2, <2>7
    <3> QED
      BY <3>1, <3>2 DEF Op
  <2> QED
    BY <2>5, <2>6, <2>7
<1>9. RulesLast(p, j)
  <2> SUFFICES ASSUME NEW k \in DOMAIN p, p[k].verb = "new_chain",
                      NEW i \in DOMAIN p, p[i].verb = "add", p[i].chain # FORWARD
               PROVE  k < i
    BY DEF RulesLast, ToSet, p
  <2>1. k <= b
    BY <1>1, <1>2, <1>4
  <2>2. i > b
    <3> SUFFICES ASSUME i <= b PROVE FALSE
      BY <1>1, <1>2
    <3>1. PICK l \in 1..n, m \in 1..4 : p[i] = CreateOps(j.f, j.addrs[l])[m]
      BY <1>3
    <3>2. m \in {1, 2, 3, 4}
      OBVIOUS
    <3> QED
      BY <1>5a, <3>1, <3>2
  <2> QED
    BY <1>1, <1>2, <2>1, <2>2
<1> QED
  BY <1>6, <1>7, <1>8, <1>9 DEF Pending, p

LEMMA FirstDetach ==
  ASSUME NEW j \in Jobs, j.kind = "detach"
  PROVE  Pending(Plan(j), j)
<1> DEFINE p == Plan(j)
           n == Len(j.addrs)
<1>1. n \in Nat /\ (n = 0 <=> j.addrs = <<>>)
  BY JobsAssumption
<1>2. p = delete_firewall(j.f, j.addrs)
  BY DEF Plan
<1>3. /\ Len(p) = 4 * n
      /\ \A i \in 1..n, m \in 1..4 :
           /\ 4 * (i - 1) + m \in 1..4 * n
           /\ p[4 * (i - 1) + m] = DeleteOps(j.f, j.addrs[i])[m]
      /\ \A k \in 1..4 * n : \E i \in 1..n, m \in 1..4 : k = 4 * (i - 1) + m
  <2>1. OfAddresses(j)
    BY AddressesPart
  <2> QED
    BY <1>2, <2>1 DEF OfAddresses
<1>4. p \in Seq(Ops)
  BY PlanType
<1> HIDE DEF p, n
<1>5. DOMAIN p = 1..4 * n
  BY <1>3, <1>4
<1>6. \A a : /\ DeleteOps(j.f, a)[1] = Op("delete", FORWARD, Jump(a, In(j.f)))
             /\ DeleteOps(j.f, a)[2] = Op("delete", FORWARD, Jump(a, Out(j.f)))
             /\ DeleteOps(j.f, a)[3] = Op("purge", j.f, Nothing)
             /\ DeleteOps(j.f, a)[4] = Op("drop", j.f, Nothing)
  BY DEF DeleteOps
<1>6a. \A a : /\ DeleteOps(j.f, a)[1].verb = "delete" /\ DeleteOps(j.f, a)[2].verb = "delete"
              /\ DeleteOps(j.f, a)[3].verb = "purge" /\ DeleteOps(j.f, a)[3].chain = j.f
              /\ DeleteOps(j.f, a)[4].verb = "drop" /\ DeleteOps(j.f, a)[4].chain = j.f
  BY DEF DeleteOps, Op
<1>7. ASSUME NEW k \in DOMAIN p
      PROVE  /\ n >= 1
             /\ \/ p[k].verb \in {"delete", "purge"} /\ k < 4 * n
                \/ p[k].verb = "drop" /\ k - 1 \in DOMAIN p /\ p[k - 1].verb = "purge"
             /\ p[k].verb \in {"purge", "drop"} => p[k].chain = j.f
  <2>1. PICK i \in 1..n, m \in 1..4 : k = 4 * (i - 1) + m
    BY <1>3, <1>5
  <2>2. p[k] = DeleteOps(j.f, j.addrs[i])[m]
    BY <1>3, <2>1
  <2>3. n >= 1
    BY <1>1
  <2>4. CASE m = 4
    <3>1. 4 * (i - 1) + 3 \in DOMAIN p /\ p[4 * (i - 1) + 3] = DeleteOps(j.f, j.addrs[i])[3]
      BY <1>3, <1>5
    <3>2. k - 1 = 4 * (i - 1) + 3
      BY <1>1, <2>1, <2>4
    <3> QED
      BY <1>6a, <2>2, <2>3, <2>4, <3>1, <3>2
  <2>5. CASE m \in {1, 2, 3}
    <3>1. k < 4 * n
      BY <1>1, <2>1, <2>5
    <3> QED
      BY <1>6a, <2>2, <2>3, <2>5, <3>1
  <2> QED
    BY <2>4, <2>5
<1>8. n >= 1 => /\ 4 * n \in DOMAIN p /\ p[4 * n].verb = "drop"
                /\ 3 \in DOMAIN p /\ p[3].verb = "purge"
  <2> SUFFICES ASSUME n >= 1
               PROVE  /\ 4 * n \in DOMAIN p /\ p[4 * n].verb = "drop"
                      /\ 3 \in DOMAIN p /\ p[3].verb = "purge"
    OBVIOUS
  <2>1. /\ n \in 1..n /\ 1 \in 1..n /\ 4 \in 1..4 /\ 3 \in 1..4
        /\ 4 * (n - 1) + 4 = 4 * n /\ 4 * (1 - 1) + 3 = 3
    BY <1>1
  <2>2. 4 * (n - 1) + 4 \in DOMAIN p /\ p[4 * (n - 1) + 4] = DeleteOps(j.f, j.addrs[n])[4]
    BY <1>3, <1>5, <2>1
  <2>3. 4 * (1 - 1) + 3 \in DOMAIN p /\ p[4 * (1 - 1) + 3] = DeleteOps(j.f, j.addrs[1])[3]
    BY <1>3, <1>5, <2>1
  <2> QED
    BY <1>6a, <2>1, <2>2, <2>3
<1>9. Accounted(p, j)
  BY DEF Accounted, p
<1>10. \A k \in DOMAIN p : p[k].verb \in VerbsOf(j)
  BY <1>1, <1>7 DEF VerbsOf
<1>11. ASSUME j.addrs # <<>>
       PROVE  /\ EmptiesFirst(p, j.f) /\ DropsUnused(p, j.f)
              /\ DropsLast(p) /\ OfFirewall(p, j.f)
  <2>1. n >= 1
    BY <1>1, <1>11
  <2>2. Len(p) + 1 > 3
    BY <1>1, <1>3, <2>1
  <2>3. \A c : EmptiedBy(p, c, Len(p) + 1)
    BY <1>8, <2>1, <2>2 DEF EmptiedBy
  <2>4. \A c : \A k \in DOMAIN p : p[k].verb \in {"drop", "drop_chain"} => EmptiedBy(p, c, k)
    <3> SUFFICES ASSUME NEW c, NEW k \in DOMAIN p, p[k].verb \in {"drop", "drop_chain"}
                 PROVE  \E l \in DOMAIN p : l < k /\ p[l].verb = "purge"
      BY DEF EmptiedBy
    <3>1. k - 1 \in DOMAIN p /\ p[k - 1].verb = "purge"
      BY <1>7
    <3>2. k - 1 < k
      BY <1>1, <1>5
    <3> QED
      BY <3>1, <3>2
  <2>5. EmptiesFirst(p, j.f)
    BY <2>3, <2>4 DEF EmptiesFirst
  <2>6. DropsUnused(p, j.f)
    BY <1>8, <2>1 DEF DropsUnused
  <2>7. DropsLast(p)
    BY <1>7, <1>8 DEF DropsLast
  <2>8. OfFirewall(p, j.f)
    BY <1>7 DEF OfFirewall
  <2> QED
    BY <2>5, <2>6, <2>7, <2>8
<1> QED
  BY <1>9, <1>10, <1>11 DEF Pending, p

LEMMA FirstPending ==
  ASSUME NEW j \in Jobs
  PROVE  Pending(Plan(j), j)
<1>1. CASE j.kind = "detach_rule"
  BY <1>1, DeletingPlan DEF Pending, Accounted, VerbsOf
<1> QED
  BY <1>1, FirstAdding, FirstDetach, JobsAssumption
(* A request with nothing left to do has done what it reports.             *)
LEMMA NothingPending ==
  ASSUME KernelInv, NEW j \in Jobs, Pending(<<>>, j)
  PROVE  Achieved(j)
<1> DEFINE p == Plan(j)
           n == Len(j.addrs)
<1>1. \A o \in ToSet(p) : Over(o)
  BY DEF Pending, Accounted, ToSet
<1>2. FORWARD \in Chains
  BY DEF KernelInv
<1>3. p \in Seq(Ops) /\ DOMAIN p = 1..Len(p)
  BY PlanType
<1>4. \A k \in DOMAIN p : p[k] \in ToSet(p)
  BY DEF ToSet
<1>5. /\ n \in Nat /\ (n = 0 <=> j.addrs = <<>>)
      /\ \A a \in ToSet(j.addrs) : \E i \in 1..n : j.addrs[i] = a
  BY JobsAssumption DEF ToSet
<1> HIDE DEF p
<1>6. \A c, r : Op("add", c, r) \in ToSet(p) =>
                (c \in Chains /\ ~Several(r) => r \in Rules(c))
  BY <1>1 DEF Over, Op
<1>7. \A c, r : Op("delete", c, r) \in ToSet(p) => r \notin Rules(c)
  BY <1>1 DEF Over, Op
<1>8. \A c : Op("new_chain", c, Nothing) \in ToSet(p) => c \in Chains
  BY <1>1 DEF Over, Op
<1>9. ASSUME j.kind \in {"attach", "attach_rule"}
      PROVE  Installed(In(j.f), j.inbound) /\ Installed(Out(j.f), j.outbound)
  <2>1. /\ \A r \in ToSet(j.inbound) : Op("add", In(j.f), r) \in ToSet(p)
        /\ \A r \in ToSet(j.outbound) : Op("add", Out(j.f), r) \in ToSet(p)
    <3>1. /\ \A r \in ToSet(j.inbound) : \E k \in DOMAIN p : p[k] = Op("add", In(j.f), r)
          /\ \A r \in ToSet(j.outbound) : \E k \in DOMAIN p : p[k] = Op("add", Out(j.f), r)
      <4>1. Adding(p, j)
        BY <1>9, AddingPlan DEF p
      <4> QED
        BY <4>1 DEF Adding
    <3> QED
      BY <1>4, <3>1
  <2> QED
    BY <1>6, <2>1 DEF Installed, Readable
<1>10. CASE j.kind = "attach"
  <2>1. \A i \in 1..n, m \in 1..4 : CreateOps(j.f, j.addrs[i])[m] \in ToSet(p)
    <3>1. \A i \in 1..n, m \in 1..4 :
            /\ 4 * (i - 1) + m \in DOMAIN p
            /\ p[4 * (i - 1) + m] = CreateOps(j.f, j.addrs[i])[m]
      <4>1. Adding(p, j)
        BY <1>10, AddingPlan DEF p
      <4> QED
        BY <1>10, <4>1 DEF Adding, n
    <3> QED
      BY <1>4, <3>1
  <2>2. ASSUME NEW i \in 1..n
        PROVE  /\ In(j.f) \in Chains /\ Out(j.f) \in Chains
               /\ Jump(j.addrs[i], In(j.f)) \in Rules(FORWARD)
               /\ Jump(j.addrs[i], Out(j.f)) \in Rules(FORWARD)
    <3>1. /\ Op("new_chain", In(j.f), Nothing) \in ToSet(p)
          /\ Op("add", FORWARD, Jump(j.addrs[i], In(j.f))) \in ToSet(p)
          /\ Op("new_chain", Out(j.f), Nothing) \in ToSet(p)
          /\ Op("add", FORWARD, Jump(j.addrs[i], Out(j.f))) \in ToSet(p)
      <4>1. \A m \in {1, 2, 3, 4} : CreateOps(j.f, j.addrs[i])[m] \in ToSet(p)
        BY <2>1
      <4> QED
        BY <4>1 DEF CreateOps
    <3>2. \A c : ~Several(Jump(j.addrs[i], c))
      BY DEF Several, Jump
    <3> QED
      BY <1>2, <1>6, <1>8, <3>1, <3>2
  <2>3. j.addrs # <<>> => ChainsOf(j.f) \subseteq Chains
    <3>1. j.addrs # <<>> => 1 \in 1..n
      BY <1>5
    <3> QED
      BY <2>2, <3>1 DEF ChainsOf
  <2>4. JumpsOf(j) \subseteq Rules(FORWARD)
    BY <1>5, <2>2 DEF JumpsOf, ChainsOf
  <2> QED
    BY <1>9, <1>10, <2>3, <2>4 DEF Achieved
<1>11. CASE j.kind = "detach"
  <2>1. \A i \in 1..n, m \in 1..4 : DeleteOps(j.f, j.addrs[i])[m] \in ToSet(p)
    <3>1. p = delete_firewall(j.f, j.addrs)
      BY <1>11 DEF Plan, p
    <3>2. /\ Len(p) = 4 * n
          /\ \A i \in 1..n, m \in 1..4 :
               /\ 4 * (i - 1) + m \in 1..4 * n
               /\ p[4 * (i - 1) + m] = DeleteOps(j.f, j.addrs[i])[m]
      <4>1. OfAddresses(j)
        BY AddressesPart
      <4> QED
        BY <3>1, <4>1 DEF OfAddresses
    <3> HIDE DEF n
    <3> QED
      BY <1>3, <1>4, <3>2
  <2>2. ASSUME NEW i \in 1..n
        PROVE  /\ Jump(j.addrs[i], In(j.f)) \notin Rules(FORWARD)
               /\ Jump(j.addrs[i], Out(j.f)) \notin Rules(FORWARD)
    <3>1. /\ Op("delete", FORWARD, Jump(j.addrs[i], In(j.f))) \in ToSet(p)
          /\ Op("delete", FORWARD, Jump(j.addrs[i], Out(j.f))) \in ToSet(p)
      <4>1. \A m \in {1, 2, 3, 4} : DeleteOps(j.f, j.addrs[i])[m] \in ToSet(p)
        BY <2>1
      <4> QED
        BY <4>1 DEF DeleteOps
    <3> QED
      BY <1>7, <3>1
  <2>3. JumpsOf(j) \cap Rules(FORWARD) = {}
    BY <1>5, <2>2 DEF JumpsOf, ChainsOf
  <2>4. ASSUME j.addrs # <<>>
        PROVE  /\ \A c \in ChainsOf(j.f) : Rules(c) = {}
               /\ \A c \in ChainsOf(j.f) : c \in Chains => Referenced(c)
    <3>1. EmptiesFirst(<<>>, j.f) /\ DropsUnused(<<>>, j.f)
      BY <1>11, <2>4 DEF Pending
    <3>2. DOMAIN <<>> = {}
      OBVIOUS
    <3> QED
      BY <3>1, <3>2 DEF EmptiesFirst, DropsUnused, EmptiedBy
  <2> QED
    BY <1>11, <2>3, <2>4 DEF Achieved
<1>12. CASE j.kind = "attach_rule"
  BY <1>9, <1>12 DEF Achieved
<1>13. CASE j.kind = "detach_rule"
  <2>1. /\ \A r \in ToSet(j.inbound) : Op("delete", In(j.f), r) \in ToSet(p)
        /\ \A r \in ToSet(j.outbound) : Op("delete", Out(j.f), r) \in ToSet(p)
    BY <1>13, DeletingPlan DEF p
  <2> QED
    BY <1>7, <1>13, <2>1 DEF Achieved, Removed
<1> QED
  BY <1>10, <1>11, <1>12, <1>13, JobsAssumption

(* What a plan is made of.                                                 *)
LEMMA PlanVerbs ==
  ASSUME NEW j \in Jobs
  PROVE  /\ \A o \in ToSet(Plan(j)) : o \in Ops /\ o.verb \in VerbsOf(j)
         /\ \A o \in ToSet(Plan(j)) : o.verb \notin {"purge_rule", "drop_chain"}
<1>1. Plan(j) \in Seq(Ops)
  BY PlanType
<1>2. Pending(Plan(j), j)
  BY FirstPending
<1>3. \A o \in ToSet(Plan(j)) : o \in Ops
  BY <1>1 DEF ToSet
<1>4. \A o \in ToSet(Plan(j)) : o.verb \in VerbsOf(j)
  BY <1>2 DEF Pending, ToSet
<1>5. ASSUME j.kind = "detach", NEW o \in ToSet(Plan(j))
      PROVE  o.verb \notin {"purge_rule", "drop_chain"}
  <2> DEFINE p == Plan(j)
             n == Len(j.addrs)
  <2>1. p = delete_firewall(j.f, j.addrs)
    BY <1>5 DEF Plan
  <2>2. /\ n \in Nat /\ Len(p) = 4 * n
        /\ \A i \in 1..n, m \in 1..4 : p[4 * (i - 1) + m] = DeleteOps(j.f, j.addrs[i])[m]
        /\ \A k \in 1..4 * n : \E i \in 1..n, m \in 1..4 : k = 4 * (i - 1) + m
    <3>1. OfAddresses(j)
      BY AddressesPart
    <3> QED
      BY <2>1, <3>1 DEF OfAddresses
  <2> HIDE DEF p, n
  <2>3. PICK k \in 1..4 * n : o = p[k]
    BY <1>1, <1>5, <2>2 DEF ToSet, p
  <2>4. PICK i \in 1..n, m \in 1..4 : k = 4 * (i - 1) + m
    BY <2>2
  <2>5. o = DeleteOps(j.f, j.addrs[i])[m]
    BY <2>2, <2>3, <2>4
  <2>6. m \in {1, 2, 3, 4}
    OBVIOUS
  <2> QED
    BY <2>5, <2>6 DEF DeleteOps, Op
<1>6. ASSUME j.kind # "detach", NEW o \in ToSet(Plan(j))
      PROVE  o.verb \notin {"purge_rule", "drop_chain"}
  BY <1>4, <1>6, JobsAssumption DEF VerbsOf
<1> QED
  BY <1>3, <1>4, <1>5, <1>6

(* An operation that asks iptables for nothing has nothing to do: a rule   *)
(* that leads to a chain which does not exist is not in the plan before    *)
(* the chain is, and one of several addresses is not expected in its chain.*)
LEMMA NextIsPrepared ==
  ASSUME NEW j, NEW t \in Seq(Ops), t # <<>>, Pending(t, j), Head(t).verb = "add"
  PROVE  Several(Head(t).rule) \/ Loadable(Head(t).rule)
<1>1. Prepared(t)
  BY SplitHead DEF Pending, VerbsOf
<1>2. 1 \in DOMAIN t /\ Head(t) = t[1] /\ \A k \in DOMAIN t : ~(k < 1)
  BY SplitHead
<1> QED
  BY <1>1, <1>2 DEF Prepared, Loadable

LEMMA SkippedIsOver ==
  ASSUME NEW j, NEW t \in Seq(Ops), t # <<>>, Pending(t, j),
         Head(t).verb \in {"new_chain", "add", "delete"},
         Queried(Head(t)) = Adds(Head(t))
  PROVE  Over(Head(t))
<1>1. CASE Head(t).verb = "new_chain"
  <2>1. Adds(Head(t)) = TRUE
    BY <1>1 DEF Adds
  <2> QED
    BY <1>1, <2>1 DEF Queried, Over
<1>2. CASE Head(t).verb = "add"
  <2>1. Adds(Head(t)) = TRUE
    BY <1>2 DEF Adds
  <2>2. Several(Head(t).rule) \/ Loadable(Head(t).rule)
    BY <1>2, NextIsPrepared
  <2> QED
    BY <1>2, <2>1, <2>2 DEF Queried, Over
<1>3. CASE Head(t).verb = "delete"
  <2>1. Adds(Head(t)) = FALSE
    BY <1>3 DEF Adds
  <2> QED
    BY <1>3, <2>1 DEF Queried, Over
<1> QED
  BY <1>1, <1>2, <1>3

(* Nor has one whose command fails: a chain that is not removed is not     *)
(* empty or in use, and detach() has emptied it by then.                   *)
LEMMA FailedIsOver ==
  ASSUME KernelInv, NEW j \in Jobs, NEW t \in Seq(Ops), t # <<>>, Pending(t, j),
         Head(t) \in ChainOps \cup RuleOps, ~Succeeds(Head(t))
  PROVE  Over(Head(t))
<1>1. CASE Head(t).verb = "new_chain"
  BY <1>1 DEF Succeeds, Over
<1>2. CASE Head(t).verb = "add"
  <2>1. Several(Head(t).rule) \/ Loadable(Head(t).rule)
    BY <1>2, NextIsPrepared
  <2> QED
    BY <1>2, <2>1 DEF Succeeds, Over
<1>3. CASE Head(t).verb \in {"delete", "purge_rule"}
  <2>1. ~(Head(t).rule \in Rules(Head(t).chain) /\ Loadable(Head(t).rule))
    BY <1>3 DEF Succeeds
  <2>2. \A c, r : r \in Rules(c) => Loadable(r)
    BY DEF KernelInv, Rules
  <2> QED
    BY <1>3, <2>1, <2>2 DEF Over
<1>4. CASE Head(t).verb = "drop_chain"
  <2>1. 1 \in DOMAIN t /\ Head(t) = t[1] /\ \A k \in DOMAIN t : ~(k < 1)
    BY SplitHead
  <2>2. j.kind = "detach" /\ j.addrs # <<>>
    BY <1>4, <2>1, JobsAssumption DEF Pending, VerbsOf
  <2>3. Head(t).chain \in ChainsOf(j.f)
    BY <1>4, <2>1, <2>2 DEF Pending, OfFirewall
  <2>4. Rules(Head(t).chain) = {}
    BY <1>4, <2>1, <2>2, <2>3 DEF Pending, EmptiesFirst, EmptiedBy
  <2>5. Head(t).chain \in Chains => kernel[Head(t).chain] = <<>>
    <3> SUFFICES ASSUME Head(t).chain \in Chains PROVE kernel[Head(t).chain] = <<>>
      OBVIOUS
    <3>1. PICK s : s = kernel[Head(t).chain]
      OBVIOUS
    <3>2. s \in Seq(Supported) /\ ToSet(s) = {}
      BY <2>4, <3>1 DEF KernelInv, Rules
    <3>3. DOMAIN s = {}
      BY <3>2 DEF ToSet
    <3>4. Len(s) = 0
      BY <3>2, <3>3
    <3> QED
      BY <3>1, <3>2, <3>4
  <2> QED
    BY <1>4, <2>5 DEF Succeeds, Over
<1> QED
  BY <1>1, <1>2, <1>3, <1>4 DEF ChainOps, RuleOps

(* A command that succeeds has its effect and undoes nothing that is done. *)
LEMMA CommandIsOver ==
  ASSUME KernelInv, Agree(direct), NEW op \in ChainOps \cup RuleOps,
         ~Unsupported(op.rule), Succeeds(op), kernel' = AfterCommand(op)
  PROVE  Over(op)'
<1>1. CASE op.verb = "new_chain"
  BY <1>1, NewChain DEF Over
<1>2. CASE op.verb = "add"
  <2>1. op \in RuleOps
    BY <1>2 DEF ChainOps
  <2>2. /\ op.chain \in Chains /\ Chains' = Chains
        /\ ToSet(kernel'[op.chain]) = Rules(op.chain) \cup {op.rule}
    BY <1>2, <2>1, AddRule
  <2>3. op.rule \in Rules(op.chain)'
    BY <2>2 DEF Rules
  <2> QED
    BY <1>2, <2>3 DEF Over
<1>3. CASE op.verb \in {"delete", "purge_rule"}
  <2>1. op \in RuleOps
    BY <1>3 DEF ChainOps
  <2>2. /\ op.chain \in Chains /\ Chains' = Chains
        /\ IsInjective(kernel[op.chain]) => op.rule \notin ToSet(kernel'[op.chain])
    BY <1>3, <2>1, DeleteRule
  <2>3. op.rule \notin Rules(op.chain)'
    BY <2>2 DEF Rules, Agree
  <2> QED
    BY <1>3, <2>3 DEF Over
<1>4. CASE op.verb = "drop_chain"
  <2>1. op \in ChainOps
    BY <1>4 DEF RuleOps
  <2>2. op.chain \notin Chains'
    BY <1>4, <2>1, DropChain
  <2> QED
    BY <1>4, <2>2 DEF Over
<1> QED
  BY <1>1, <1>2, <1>3, <1>4 DEF ChainOps, RuleOps
LEMMA CommandKeepsPending ==
  ASSUME KernelInv, NEW j \in Jobs, NEW t \in Seq(Ops), t # <<>>, Pending(t, j),
         Head(t) \in ChainOps \cup RuleOps,
         ~Unsupported(Head(t).rule), Succeeds(Head(t)), kernel' = AfterCommand(Head(t))
  PROVE  Pending(t, j)'
<1> DEFINE op == Head(t)
           p == Plan(j)
<1>1. /\ 1 \in DOMAIN t /\ op = t[1] /\ \A k \in DOMAIN t : ~(k < 1)
      /\ op.verb \in VerbsOf(j)
  BY SplitHead DEF Pending
<1>2. \A o \in ToSet(p) : /\ o \in Ops /\ o.verb \in VerbsOf(j)
                          /\ o.verb \notin {"purge_rule", "drop_chain"}
  BY PlanVerbs
<1>3. \A o \in ToSet(p) : o \in ToSet(t) \/ Over(o)
  BY DEF Pending, Accounted
<1>4. j.kind \in {"attach", "detach", "attach_rule", "detach_rule"}
  BY JobsAssumption
<1>5. op \in ChainOps \cup RuleOps /\ ~Unsupported(op.rule) /\ Succeeds(op)
      /\ kernel' = AfterCommand(op)
  OBVIOUS
<1> HIDE DEF op, p
<1>6. CASE op.verb = "new_chain"
  <2>1. j.kind \in {"attach", "attach_rule"}
    BY <1>1, <1>4, <1>6 DEF VerbsOf
  <2>2. /\ op.chain \notin Chains /\ Chains' = Chains \cup {op.chain}
        /\ \A c \in Chains : kernel'[c] = kernel[c]
    BY <1>5, <1>6, NewChain
  <2>3. op.chain # FORWARD
    BY <1>5, <1>6, ForwardIsNoFirewalls DEF ChainOps, RuleOps
  <2>4. ASSUME NEW o \in ToSet(p), o.verb = "add", o.chain # FORWARD
        PROVE  o \in ToSet(t)
    <3>1. \E i \in DOMAIN t : t[i] = o
      BY <1>1, <1>6, <2>1, <2>4 DEF Pending, RulesLast, p
    <3> QED
      BY <3>1 DEF ToSet
  <2>5. ASSUME NEW o \in ToSet(p), o \notin ToSet(t) PROVE Over(o)'
    <3>1. Over(o) /\ o.verb \in {"new_chain", "add"}
      BY <1>2, <1>3, <2>1, <2>5 DEF VerbsOf
    <3>2. o.verb = "add" => o.chain = FORWARD
      BY <2>4, <2>5
    <3>3. FORWARD \in Chains /\ Rules(FORWARD)' = Rules(FORWARD)
      BY <2>2 DEF KernelInv, Rules
    <3> QED
      BY <2>2, <3>1, <3>2, <3>3 DEF Over
  <2>6. Accounted(t, j)'
    BY <2>5 DEF Accounted, p
  <2>7. Prepared(t)'
    BY <2>1, <2>2 DEF Pending, Prepared
  <2> QED
    BY <2>1, <2>6, <2>7 DEF Pending, RulesLast
<1>7. CASE op.verb = "add"
  <2>1. j.kind \in {"attach", "attach_rule"}
    BY <1>1, <1>4, <1>7 DEF VerbsOf
  <2>2. /\ op.chain \in Chains /\ Chains' = Chains
        /\ \A c \in Chains : c # op.chain => kernel'[c] = kernel[c]
        /\ ToSet(kernel'[op.chain]) = Rules(op.chain) \cup {op.rule}
    BY <1>5, <1>7, AddRule DEF ChainOps
  <2>3. \A c : Rules(c) \subseteq Rules(c)'
    BY <2>2 DEF Rules
  <2>4. ASSUME NEW o \in ToSet(p), o \notin ToSet(t) PROVE Over(o)'
    <3>1. Over(o) /\ o.verb \in {"new_chain", "add"}
      BY <1>2, <1>3, <2>1, <2>4 DEF VerbsOf
    <3> QED
      BY <2>2, <2>3, <3>1 DEF Over
  <2>5. Accounted(t, j)'
    BY <2>4 DEF Accounted, p
  <2>6. Prepared(t)'
    BY <2>1, <2>2 DEF Pending, Prepared
  <2> QED
    BY <2>1, <2>5, <2>6 DEF Pending, RulesLast
<1>8. CASE op.verb \in {"delete", "purge_rule", "drop_chain"}
  <2>1. j.kind \in {"detach", "detach_rule"}
    BY <1>1, <1>4, <1>8 DEF VerbsOf
  <2>2. /\ Chains' \subseteq Chains
        /\ \A c : Rules(c)' \subseteq Rules(c)
    <3>1. CASE op.verb \in {"delete", "purge_rule"}
      <4>1. /\ op.chain \in Chains /\ Chains' = Chains
            /\ \A c \in Chains : c # op.chain => kernel'[c] = kernel[c]
            /\ ToSet(kernel'[op.chain]) \subseteq Rules(op.chain)
        BY <1>5, <3>1, DeleteRule DEF ChainOps
      <4> QED
        BY <4>1 DEF Rules
    <3>2. CASE op.verb = "drop_chain"
      <4>1. /\ Chains' = Chains \ {op.chain}
            /\ \A c \in Chains' : kernel'[c] = kernel[c]
        BY <1>5, <3>2, DropChain DEF RuleOps
      <4> QED
        BY <4>1 DEF Rules
    <3> QED
      BY <1>8, <3>1, <3>2
  <2>3. ASSUME NEW o \in ToSet(p), o \notin ToSet(t) PROVE Over(o)'
    <3>1. Over(o) /\ o.verb \in {"delete", "purge", "drop"}
      BY <1>2, <1>3, <1>4, <2>1, <2>3 DEF VerbsOf
    <3> QED
      BY <2>2, <3>1 DEF Over
  <2>4. Accounted(t, j)'
    BY <2>3 DEF Accounted, p
  <2>5. ASSUME j.kind = "detach", j.addrs # <<>>
        PROVE  /\ EmptiesFirst(t, j.f)' /\ DropsUnused(t, j.f)'
               /\ DropsLast(t)' /\ OfFirewall(t, j.f)'
    <3>1. /\ EmptiesFirst(t, j.f) /\ DropsUnused(t, j.f)
          /\ DropsLast(t) /\ OfFirewall(t, j.f)
      BY <2>5 DEF Pending
    <3>2. \A c, k : EmptiedBy(t, c, k) => EmptiedBy(t, c, k)'
      BY <2>2 DEF EmptiedBy
    <3>3. EmptiesFirst(t, j.f)'
      BY <3>1, <3>2 DEF EmptiesFirst
    <3>4. DropsUnused(t, j.f)'
      <4>1. CASE op.verb \in {"delete", "purge_rule"}
        BY <1>1, <3>1, <4>1 DEF DropsUnused, DropsLast
      <4>2. CASE op.verb = "drop_chain"
        <5>1. /\ Chains' = Chains \ {op.chain}
              /\ \A c \in Chains' : kernel'[c] = kernel[c]
              /\ kernel[op.chain] = <<>>
          BY <1>5, <4>2, DropChain DEF RuleOps
        <5>2. Rules(op.chain) = {}
          BY <5>1 DEF Rules, ToSet
        <5>3. \A c \in Chains' : Rules(c)' = Rules(c)
          BY <5>1 DEF Rules
        <5>4. \A c : Referenced(c) => Referenced(c)'
          BY <5>1, <5>2, <5>3 DEF Referenced
        <5> QED
          BY <3>1, <5>1, <5>4 DEF DropsUnused
      <4> QED
        BY <1>8, <4>1, <4>2
    <3> QED
      BY <3>1, <3>3, <3>4 DEF DropsLast, OfFirewall
  <2> QED
    BY <2>1, <2>4, <2>5 DEF Pending
<1> QED
  BY <1>5, <1>6, <1>7, <1>8 DEF ChainOps, RuleOps

(* Operations put in the place of the first one.                           *)
InPlace(u, ops, t) ==
  LET l == Len(ops)
  IN  /\ u \in Seq(Ops) /\ l \in Nat /\ Len(t) \in Nat /\ Len(t) >= 1
      /\ DOMAIN t = 1..Len(t) /\ Head(t) = t[1]
      /\ DOMAIN ops = 1..l
      /\ Len(u) = l + Len(t) - 1 /\ DOMAIN u = 1..l + Len(t) - 1
      /\ \A i \in 1..l : i \in DOMAIN u /\ u[i] = ops[i]
      /\ \A i \in 2..Len(t) : l + i - 1 \in DOMAIN u /\ u[l + i - 1] = t[i]
      /\ \A k \in DOMAIN u : k > l => k - l + 1 \in 2..Len(t) /\ u[k] = t[k - l + 1]
      /\ ToSet(t) \subseteq {Head(t)} \cup ToSet(u)

LEMMA Spliced ==
  ASSUME NEW ops \in Seq(Ops), NEW t \in Seq(Ops), t # <<>>
  PROVE  InPlace(ops \o Tail(t), ops, t)
<1> DEFINE v == Tail(t)
           u == ops \o v
           l == Len(ops)
           n == Len(t)
<1>1. /\ n \in Nat /\ n >= 1 /\ DOMAIN t = 1..n /\ Head(t) = t[1] /\ Len(v) = n - 1
      /\ \A i \in 1..n - 1 : v[i] = t[i + 1]
      /\ \A i \in 2..n : i - 1 \in 1..n - 1 /\ v[i - 1] = t[i]
  BY SplitHead
<1>2. v \in Seq(Ops)
  OBVIOUS
<1>3. /\ u \in Seq(Ops) /\ l \in Nat /\ Len(u) = l + Len(v)
      /\ \A i \in 1..l : i \in 1..Len(u) /\ u[i] = ops[i]
      /\ \A i \in 1..Len(v) : l + i \in 1..Len(u) /\ u[l + i] = v[i]
      /\ \A k \in l + 1..Len(u) : k - l \in 1..Len(v) /\ u[k] = v[k - l]
  <2> HIDE DEF v
  <2> QED
    BY <1>2, Concat
<1>4. DOMAIN ops = 1..l
  OBVIOUS
<1>5. DOMAIN u = 1..Len(u)
  BY <1>3
<1> HIDE DEF u, v, l, n
<1>6. Len(u) = l + n - 1 /\ DOMAIN u = 1..l + n - 1
  BY <1>1, <1>3, <1>5
<1>7. ASSUME NEW i \in 2..n PROVE l + i - 1 \in DOMAIN u /\ u[l + i - 1] = t[i]
  <2>1. i - 1 \in 1..Len(v) /\ v[i - 1] = t[i]
    BY <1>1
  <2>2. l + (i - 1) \in 1..Len(u) /\ u[l + (i - 1)] = v[i - 1]
    BY <1>3, <2>1
  <2>3. l + (i - 1) = l + i - 1
    BY <1>3
  <2> QED
    BY <1>5, <2>1, <2>2, <2>3
<1>8. ASSUME NEW k \in DOMAIN u, k > l
      PROVE  k - l + 1 \in 2..n /\ u[k] = t[k - l + 1]
  <2>1. k - l \in 1..Len(v) /\ u[k] = v[k - l]
    BY <1>3, <1>5, <1>8
  <2>2. v[k - l] = t[(k - l) + 1]
    BY <1>1, <2>1
  <2>3. l \in Nat /\ n \in Nat /\ k \in 1..l + n - 1
    BY <1>1, <1>3, <1>6
  <2>4. (k - l) + 1 \in 2..n
    BY <1>8, <2>3
  <2> QED
    BY <2>1, <2>2, <2>4
<1>9. ToSet(t) \subseteq {Head(t)} \cup ToSet(u)
  <2> SUFFICES ASSUME NEW i \in 1..n, i # 1 PROVE t[i] \in ToSet(u)
    BY <1>1 DEF ToSet
  <2>1. i \in 2..n
    BY <1>1
  <2> QED
    BY <1>7, <2>1 DEF ToSet
<1> QED
  BY <1>1, <1>3, <1>4, <1>5, <1>6, <1>7, <1>8, <1>9 DEF InPlace, u, v, l, n

(* The rules found are all that the two chains have.                       *)
LEMMA PurgePending ==
  ASSUME KernelInv, direct \in Configs, Agree(direct),
         NEW j \in Jobs, NEW t \in Seq(Ops), t # <<>>, Pending(t, j),
         Head(t).verb = "purge", NEW ops \in Seq(Ops),
         \A i \in DOMAIN ops : ops[i].verb = "purge_rule",
         \A e \in direct.rules : e.chain \in ChainsOf(Head(t).chain) =>
           \E i \in DOMAIN ops : ops[i] = Op("purge_rule", e.chain, e.rule)
  PROVE  Pending(ops \o Tail(t), j)
<1>0. PICK u : u = ops \o Tail(t)
  OBVIOUS
<1> DEFINE l == Len(ops)
           n == Len(t)
<1>1. /\ u \in Seq(Ops) /\ l \in Nat /\ n \in Nat /\ n >= 1
      /\ DOMAIN t = 1..n /\ Head(t) = t[1] /\ DOMAIN ops = 1..l
      /\ Len(u) = l + n - 1 /\ DOMAIN u = 1..l + n - 1
      /\ \A i \in 1..l : i \in DOMAIN u /\ u[i] = ops[i]
      /\ \A i \in 2..n : l + i - 1 \in DOMAIN u /\ u[l + i - 1] = t[i]
      /\ \A k \in DOMAIN u : k > l => k - l + 1 \in 2..n /\ u[k] = t[k - l + 1]
      /\ ToSet(t) \subseteq {Head(t)} \cup ToSet(u)
  <2>1. InPlace(u, ops, t)
    BY <1>0, Spliced
  <2> QED
    BY <2>1 DEF InPlace
<1> HIDE DEF l, n
<1>2. 1 \in DOMAIN t /\ t[1].verb = "purge"
  <2>1. 1 \in DOMAIN t
    BY <1>1
  <2>2. Head(t) = t[1]
    BY <1>1
  <2> QED
    BY <2>1, <2>2
<1>3. j.kind = "detach" /\ j.addrs # <<>>
  BY <1>2, JobsAssumption DEF Pending, VerbsOf
<1>4. /\ EmptiesFirst(t, j.f) /\ DropsUnused(t, j.f)
      /\ DropsLast(t) /\ OfFirewall(t, j.f)
  BY <1>3 DEF Pending
<1>5. Head(t).chain = j.f
  BY <1>1, <1>2, <1>4 DEF OfFirewall
<1>6. ASSUME NEW k \in DOMAIN u
      PROVE  \/ k <= l /\ u[k].verb = "purge_rule"
             \/ k > l /\ k - l + 1 \in 2..n /\ u[k] = t[k - l + 1]
  <2>1. CASE k <= l
    BY <1>1, <2>1
  <2>2. CASE k > l
    BY <1>1, <2>2
  <2> QED
    BY <1>1, <2>1, <2>2
<1>7. Accounted(u, j)
  <2>1. Over(Head(t))
    BY DEF Over
  <2> QED
    BY <1>1, <2>1 DEF Pending, Accounted
<1>8. \A k \in DOMAIN u : u[k].verb \in VerbsOf(j)
  <2>1. "purge_rule" \in VerbsOf(j)
    BY <1>3 DEF VerbsOf
  <2>2. \A i \in 2..n : t[i].verb \in VerbsOf(j)
    <3>1. 2..n \subseteq DOMAIN t
      BY <1>1
    <3> QED
      BY <3>1 DEF Pending
  <2> QED
    BY <1>6, <2>1, <2>2
<1>9. ASSUME NEW c \in ChainsOf(j.f), NEW k \in Nat, k > l PROVE EmptiedBy(u, c, k)
  <2> SUFFICES ASSUME NEW r \in Rules(c)
               PROVE  \E i \in DOMAIN u : i < k /\ u[i] = Op("purge_rule", c, r)
    BY DEF EmptiedBy
  <2>0. c \in Chains
    BY DEF Rules
  <2>1. Entry(c, r) \in direct.rules
    BY <2>0 DEF Agree
  <2>2. PICK e \in direct.rules : e.chain = c /\ e.rule = r
    BY <2>1 DEF Entry
  <2>3. PICK i \in DOMAIN ops : ops[i] = Op("purge_rule", c, r)
    <3>1. e.chain \in ChainsOf(Head(t).chain)
      BY <1>5, <2>2
    <3>2. \E i \in DOMAIN ops : ops[i] = Op("purge_rule", e.chain, e.rule)
      BY <3>1
    <3> QED
      BY <2>2, <3>2
  <2>4. i \in 1..l /\ i \in DOMAIN u /\ u[i] = ops[i]
    BY <1>1, <2>3
  <2>5. i < k
    BY <1>1, <1>9, <2>4
  <2> QED
    BY <2>3, <2>4, <2>5
<1>10. EmptiesFirst(u, j.f)
  <2>1. Len(u) + 1 > l /\ Len(u) + 1 \in Nat
    BY <1>1
  <2>2. \A k \in DOMAIN u : u[k].verb \in {"drop", "drop_chain"} => k > l /\ k \in Nat
    BY <1>1, <1>6
  <2> QED
    BY <1>9, <2>1, <2>2 DEF EmptiesFirst
<1>11. ASSUME NEW i \in DOMAIN t, t[i].verb # "purge" \/ i > 1
       PROVE  i \in 2..n /\ l + i - 1 \in DOMAIN u /\ u[l + i - 1] = t[i]
  <2>1. i \in 2..n
    BY <1>1, <1>2, <1>11
  <2> QED
    BY <1>1, <2>1
<1>12. DropsUnused(u, j.f)
  <2> SUFFICES ASSUME NEW c \in ChainsOf(j.f), c \in Chains, ~Referenced(c)
               PROVE  \E k \in DOMAIN u :
                        u[k].verb = "drop" \/ u[k] = Op("drop_chain", c, Nothing)
    BY DEF DropsUnused
  <2>1. PICK i \in DOMAIN t : t[i].verb = "drop" \/ t[i] = Op("drop_chain", c, Nothing)
    BY <1>4 DEF DropsUnused
  <2>2. t[i].verb # "purge"
    BY <2>1 DEF Op
  <2> QED
    BY <1>11, <2>1, <2>2
<1>13. DropsLast(u)
  <2> SUFFICES ASSUME NEW k \in DOMAIN u, u[k].verb \in {"delete", "purge", "purge_rule"}
               PROVE  \E m \in DOMAIN u : k < m /\ u[m].verb = "drop"
    BY DEF DropsLast
  <2>1. CASE k <= l
    <3>1. PICK i \in DOMAIN t : 1 < i /\ t[i].verb = "drop"
      BY <1>2, <1>4 DEF DropsLast
    <3>2. i \in 2..n /\ l + i - 1 \in DOMAIN u /\ u[l + i - 1] = t[i]
      BY <1>11, <3>1
    <3>3. k < l + i - 1
      BY <1>1, <2>1, <3>2
    <3> QED
      BY <3>1, <3>2, <3>3
  <2>2. CASE k > l
    <3> DEFINE q == k - l + 1
    <3>1. q \in 2..n /\ u[k] = t[q]
      BY <1>1, <2>2
    <3> HIDE DEF q
    <3>2. q \in DOMAIN t
      BY <1>1, <3>1
    <3>3. PICK i \in DOMAIN t : q < i /\ t[i].verb = "drop"
      BY <1>4, <3>1, <3>2 DEF DropsLast
    <3>4. i \in 2..n /\ l + i - 1 \in DOMAIN u /\ u[l + i - 1] = t[i]
      BY <1>11, <3>3
    <3>5. k < l + i - 1
      BY <1>1, <3>1, <3>3, <3>4 DEF q
    <3> QED
      BY <3>3, <3>4, <3>5
  <2> QED
    BY <1>1, <2>1, <2>2
<1>14. OfFirewall(u, j.f)
  <2> SUFFICES ASSUME NEW k \in DOMAIN u
               PROVE  /\ u[k].verb \in {"purge", "drop"} => u[k].chain = j.f
                      /\ u[k].verb = "drop_chain" => u[k].chain \in ChainsOf(j.f)
    BY DEF OfFirewall
  <2>0. 2..n \subseteq DOMAIN t
    BY <1>1
  <2>1. \A i \in 2..n : /\ t[i].verb \in {"purge", "drop"} => t[i].chain = j.f
                        /\ t[i].verb = "drop_chain" => t[i].chain \in ChainsOf(j.f)
    BY <1>4, <2>0 DEF OfFirewall
  <2> QED
    BY <1>6, <2>1
<1> QED
  BY <1>0, <1>3, <1>7, <1>8, <1>10, <1>12, <1>13, <1>14 DEF Pending

(* The chains found are all that are left; they are empty by now.          *)
LEMMA DropPending ==
  ASSUME KernelInv, direct \in Configs, Agree(direct),
         NEW j \in Jobs, NEW t \in Seq(Ops), t # <<>>, Pending(t, j),
         Head(t).verb = "drop", NEW ops \in Seq(Ops),
         \A i \in DOMAIN ops : ops[i].verb = "drop_chain" /\ ops[i].chain \in ChainsOf(Head(t).chain),
         \A c \in direct.chains \cap ChainsOf(Head(t).chain) :
           \E i \in DOMAIN ops : ops[i] = Op("drop_chain", c, Nothing)
  PROVE  Pending(ops \o Tail(t), j)
<1>0. PICK u : u = ops \o Tail(t)
  OBVIOUS
<1> DEFINE l == Len(ops)
           n == Len(t)
<1>1. /\ u \in Seq(Ops) /\ l \in Nat /\ n \in Nat /\ n >= 1
      /\ DOMAIN t = 1..n /\ Head(t) = t[1] /\ DOMAIN ops = 1..l
      /\ Len(u) = l + n - 1 /\ DOMAIN u = 1..l + n - 1
      /\ \A i \in 1..l : i \in DOMAIN u /\ u[i] = ops[i]
      /\ \A i \in 2..n : l + i - 1 \in DOMAIN u /\ u[l + i - 1] = t[i]
      /\ \A k \in DOMAIN u : k > l => k - l + 1 \in 2..n /\ u[k] = t[k - l + 1]
      /\ ToSet(t) \subseteq {Head(t)} \cup ToSet(u)
  <2>1. InPlace(u, ops, t)
    BY <1>0, Spliced
  <2> QED
    BY <2>1 DEF InPlace
<1> HIDE DEF l, n
<1>2. 1 \in DOMAIN t /\ t[1].verb = "drop" /\ \A i \in DOMAIN t : ~(i < 1)
  <2>1. 1 \in DOMAIN t /\ \A i \in DOMAIN t : ~(i < 1)
    BY <1>1
  <2>2. Head(t) = t[1]
    BY <1>1
  <2> QED
    BY <2>1, <2>2
<1>3. j.kind = "detach" /\ j.addrs # <<>>
  BY <1>2, JobsAssumption DEF Pending, VerbsOf
<1>4. /\ EmptiesFirst(t, j.f) /\ DropsUnused(t, j.f)
      /\ DropsLast(t) /\ OfFirewall(t, j.f)
  BY <1>3 DEF Pending
<1>5. Head(t).chain = j.f
  BY <1>1, <1>2, <1>4 DEF OfFirewall
<1>6. ASSUME NEW k \in DOMAIN u
      PROVE  \/ k <= l /\ u[k].verb = "drop_chain" /\ u[k].chain \in ChainsOf(j.f)
             \/ k > l /\ k - l + 1 \in 2..n /\ u[k] = t[k - l + 1]
  <2>1. CASE k <= l
    BY <1>1, <1>5, <2>1
  <2>2. CASE k > l
    BY <1>1, <2>2
  <2> QED
    BY <1>1, <2>1, <2>2
<1>7. Accounted(u, j)
  <2>1. Over(Head(t))
    BY DEF Over
  <2> QED
    BY <1>1, <2>1 DEF Pending, Accounted
<1>8. \A k \in DOMAIN u : u[k].verb \in VerbsOf(j)
  <2>1. "drop_chain" \in VerbsOf(j)
    BY <1>3 DEF VerbsOf
  <2>2. \A i \in 2..n : t[i].verb \in VerbsOf(j)
    <3>1. 2..n \subseteq DOMAIN t
      BY <1>1
    <3> QED
      BY <3>1 DEF Pending
  <2> QED
    BY <1>6, <2>1, <2>2
<1>9. EmptiesFirst(u, j.f)
  <2>1. \A c \in ChainsOf(j.f) : Rules(c) = {}
    BY <1>2, <1>4 DEF EmptiesFirst, EmptiedBy
  <2> QED
    BY <2>1 DEF EmptiesFirst, EmptiedBy
<1>10. DropsUnused(u, j.f)
  <2> SUFFICES ASSUME NEW c \in ChainsOf(j.f), c \in Chains
               PROVE  \E k \in DOMAIN u : u[k] = Op("drop_chain", c, Nothing)
    BY DEF DropsUnused
  <2>1. c # FORWARD
    BY DEF ChainsOf, In, Out, FORWARD
  <2>2. c \in direct.chains
    BY <2>1 DEF Agree
  <2>3. PICK i \in DOMAIN ops : ops[i] = Op("drop_chain", c, Nothing)
    BY <1>5, <2>2
  <2> QED
    BY <1>1, <2>3
<1>11. DropsLast(u)
  <2> SUFFICES ASSUME NEW k \in DOMAIN u, u[k].verb \in {"delete", "purge", "purge_rule"}
               PROVE  \E m \in DOMAIN u : k < m /\ u[m].verb = "drop"
    BY DEF DropsLast
  <2> DEFINE q == k - l + 1
  <2>1. k > l /\ q \in 2..n /\ u[k] = t[q]
    BY <1>6
  <2> HIDE DEF q
  <2>2. q \in DOMAIN t
    BY <1>1, <2>1
  <2>3. PICK i \in DOMAIN t : q < i /\ t[i].verb = "drop"
    BY <1>4, <2>1, <2>2 DEF DropsLast
  <2>4. i \in 2..n
    BY <1>1, <2>1, <2>3
  <2>5. l + i - 1 \in DOMAIN u /\ u[l + i - 1] = t[i]
    BY <1>1, <2>4
  <2>6. k < l + i - 1
    BY <1>1, <2>1, <2>3, <2>4 DEF q
  <2> QED
    BY <2>3, <2>5, <2>6
<1>12. OfFirewall(u, j.f)
  <2> SUFFICES ASSUME NEW k \in DOMAIN u
               PROVE  /\ u[k].verb \in {"purge", "drop"} => u[k].chain = j.f
                      /\ u[k].verb = "drop_chain" => u[k].chain \in ChainsOf(j.f)
    BY DEF OfFirewall
  <2>0. 2..n \subseteq DOMAIN t
    BY <1>1
  <2>1. \A i \in 2..n : /\ t[i].verb \in {"purge", "drop"} => t[i].chain = j.f
                        /\ t[i].verb = "drop_chain" => t[i].chain \in ChainsOf(j.f)
    BY <1>4, <2>0 DEF OfFirewall
  <2> QED
    BY <1>6, <2>1
<1> QED
  BY <1>0, <1>3, <1>7, <1>8, <1>9, <1>10, <1>11, <1>12 DEF Pending
-----------------------------------------------------------------------------
(* As long as no two handlers were engaged at once and no command failed,  *)
(* what a handler has behind it is done and stays done.                    *)
Progressed(w) ==
  /\ pc[w] = "inside" =>
       /\ Pending(todo[w], job[w])
       /\ HalfDone(w) => Over(Current(w))
       /\ phase[w] = "update" => todo[w] = <<>>
  /\ pc[w] = "unset_open" => Achieved(job[w])

Progress == ~overlapped => \A w \in Workers \ faulty : Progressed(w)

(* What is left of a request by name.                                      *)
LEMMA PendingNamed ==
  ASSUME NEW w, NEW t, NEW j, t = todo'[w], j = job'[w]
  PROVE  Pending(todo[w], job[w])' <=> Pending(t, j)'
<1>1. Accounted(todo[w], job[w])' <=> Accounted(t, j)'
  BY DEF Accounted
<1>2. (\A i \in DOMAIN todo[w] : todo[w][i].verb \in VerbsOf(job[w]))'
        <=> \A i \in DOMAIN t : t[i].verb \in VerbsOf(j)
  BY DEF VerbsOf
<1>3. Prepared(todo[w])' <=> Prepared(t)'
  BY DEF Prepared
<1>4. RulesLast(todo[w], job[w])' <=> RulesLast(t, j)'
  BY DEF RulesLast
<1>5. EmptiesFirst(todo[w], job[w].f)' <=> EmptiesFirst(t, j.f)'
  BY DEF EmptiesFirst, EmptiedBy
<1>6. DropsUnused(todo[w], job[w].f)' <=> DropsUnused(t, j.f)'
  BY DEF DropsUnused
<1>7. DropsLast(todo[w])' <=> DropsLast(t)'
  BY DEF DropsLast
<1>8. OfFirewall(todo[w], job[w].f)' <=> OfFirewall(t, j.f)'
  BY DEF OfFirewall
<1> QED
  BY <1>1, <1>2, <1>3, <1>4, <1>5, <1>6, <1>7, <1>8 DEF Pending

LEMMA OverNamed ==
  ASSUME NEW w, NEW t, t = todo'[w]
  PROVE  Over(Current(w))' <=> Over(Head(t))'
BY DEF Over, Current

LEMMA AchievedNamed ==
  ASSUME NEW w, NEW j, j = job'[w]
  PROVE  Achieved(job[w])' <=> Achieved(j)'
BY DEF Achieved, Installed, Removed, JumpsOf

(* Where iptables is left alone nothing becomes undone.                    *)
LEMMA KernelFrame ==
  ASSUME kernel' = kernel, NEW t, NEW j, NEW o
  PROVE  /\ Over(o)' <=> Over(o)
         /\ Pending(t, j)' <=> Pending(t, j)
         /\ Achieved(j)' <=> Achieved(j)
<1>1. /\ Chains' = Chains
      /\ \A c : Rules(c)' = Rules(c)
  BY DEF Chains, Rules
<1>2. \A c : Referenced(c)' <=> Referenced(c)
  BY <1>1 DEF Referenced
<1>3. \A x : Over(x)' <=> Over(x)
  BY <1>1, <1>2 DEF Over
<1>4. Accounted(t, j)' <=> Accounted(t, j)
  BY <1>3 DEF Accounted
<1>5. Prepared(t)' <=> Prepared(t)
  BY <1>1 DEF Prepared
<1>6. EmptiesFirst(t, j.f)' <=> EmptiesFirst(t, j.f)
  BY <1>1 DEF EmptiesFirst, EmptiedBy
<1>7. DropsUnused(t, j.f)' <=> DropsUnused(t, j.f)
  BY <1>1, <1>2 DEF DropsUnused
<1>8. /\ RulesLast(t, j)' <=> RulesLast(t, j)
      /\ DropsLast(t)' <=> DropsLast(t)
      /\ OfFirewall(t, j.f)' <=> OfFirewall(t, j.f)
  BY DEF RulesLast, DropsLast, OfFirewall
<1>9. Pending(t, j)' <=> Pending(t, j)
  BY <1>4, <1>5, <1>6, <1>7, <1>8 DEF Pending
<1>10. Achieved(j)' <=> Achieved(j)
  BY <1>1, <1>2 DEF Achieved, Installed, Removed
<1> QED
  BY <1>3, <1>9, <1>10

(* A handler that a step leaves alone, iptables included.                  *)
LEMMA LeftAlone ==
  ASSUME NEW v, Progressed(v), kernel' = kernel,
         pc'[v] = pc[v], job'[v] = job[v], todo'[v] = todo[v], phase'[v] = phase[v]
  PROVE  Progressed(v)'
<1>1. PICK t, j : t = todo[v] /\ j = job[v]
  OBVIOUS
<1>2. t = todo'[v] /\ j = job'[v]
  BY <1>1
<1>3. HalfDone(v)' <=> HalfDone(v)
  BY DEF HalfDone
<1>4. pc[v] = "inside" => Pending(t, j) /\ (HalfDone(v) => Over(Head(t)))
  BY <1>1 DEF Progressed, Current
<1>5. pc[v] = "unset_open" => Achieved(j)
  BY <1>1 DEF Progressed
<1>6. pc[v] = "inside" => Pending(t, j)' /\ (HalfDone(v) => Over(Head(t))')
  BY <1>4, KernelFrame
<1>7. pc[v] = "unset_open" => Achieved(j)'
  BY <1>5, KernelFrame
<1>8. pc'[v] = "inside" => Pending(todo[v], job[v])' /\ (HalfDone(v)' => Over(Current(v))')
  BY <1>2, <1>3, <1>6, PendingNamed, OverNamed
<1>9. pc'[v] = "unset_open" => Achieved(job[v])'
  BY <1>2, <1>7, AchievedNamed
<1>10. pc'[v] = "inside" /\ phase'[v] = "update" => todo'[v] = <<>>
  BY DEF Progressed
<1> QED
  BY <1>8, <1>9, <1>10 DEF Progressed

(* A handler that is not in its critical region.                           *)
LEMMA NotEngaged ==
  ASSUME NEW v, pc'[v] \notin {"inside", "unset_open"}
  PROVE  Progressed(v)'
BY DEF Progressed

LEMMA WaitProgress ==
  ASSUME FwBase, NEW w \in Workers, NEW v \in Workers, Progressed(v),
         \/ Wait(w)
         \/ \E j \in Jobs : FwRequest(w, j)
  PROVE  Progressed(v)'
<1>1. /\ kernel' = kernel /\ todo' = todo /\ phase' = phase
      /\ v # w => pc'[v] = pc[v] /\ job'[v] = job[v]
      /\ pc'[w] \notin {"inside", "unset_open"}
  BY DEF Wait, FwRequest, FirstRead, LoopRead, SetOpen, Open, Sleep, Request, Admitted,
         GoTo, FwBase, TypeOK, FwTyping
<1>2. CASE v = w
  BY <1>1, <1>2, NotEngaged
<1>3. CASE v # w
  BY <1>1, <1>3, LeftAlone
<1> QED
  BY <1>2, <1>3

LEMMA EnterProgress ==
  ASSUME FwBase, NEW w \in Workers, NEW v \in Workers, Progressed(v), Enter(w)
  PROVE  Progressed(v)'
<1>1. /\ kernel' = kernel /\ job' = job
      /\ v # w => pc'[v] = pc[v] /\ todo'[v] = todo[v] /\ phase'[v] = phase[v]
      /\ pc'[w] = "inside" /\ todo'[w] = Plan(job[w]) /\ phase'[w] = "query"
  BY DEF Enter, SetClose, GoTo, FwBase, TypeOK, FwTyping
<1>2. job[w] \in Jobs
  BY DEF FwBase, Serving, Enter, SetClose
<1>3. PICK t, j : t = Plan(job[w]) /\ j = job[w]
  OBVIOUS
<1>4. Pending(t, j)
  BY <1>2, <1>3, FirstPending
<1>5. Pending(t, j)'
  BY <1>1, <1>4, KernelFrame
<1>6. Pending(todo[w], job[w])'
  <2>1. t = todo'[w] /\ j = job'[w]
    BY <1>1, <1>3
  <2> QED
    BY <1>5, <2>1, PendingNamed
<1>7. CASE v = w
  BY <1>1, <1>6, <1>7 DEF Progressed, HalfDone
<1>8. CASE v # w
  BY <1>1, <1>8, LeftAlone
<1> QED
  BY <1>7, <1>8

(* While a handler is engaged the others are not, and have no promise.     *)
LEMMA OthersProgress ==
  ASSUME FwBase, CutInv, ~overlapped, NEW w \in Workers, NEW v \in Workers, v # w,
         \/ Query(w) \/ GetAllRules(w) \/ GetAllChains(w) \/ Apply(w)
         \/ QueryCfg(w) \/ ApplyCfg(w) \/ GetSettings(w) \/ CommandFails(w)
         \/ Update(w) \/ Unset(w)
  PROVE  Progressed(v)'
<1>1. pc[w] \in {"inside", "unset_open", "unset_close"} /\ pc'[v] = pc[v]
  <2>1. CASE \/ Query(w) \/ GetAllRules(w) \/ GetAllChains(w) \/ Apply(w)
             \/ QueryCfg(w) \/ ApplyCfg(w) \/ GetSettings(w) \/ CommandFails(w)
    BY <2>1 DEF Query, GetAllRules, GetAllChains, Apply, QueryCfg, ApplyCfg,
                GetSettings, CommandFails, NextOp, Continue, Call, At, stateFileVars
  <2>2. CASE Update(w) \/ Unset(w)
    BY <2>2 DEF Update, Unset, At, Finish, UnsetOpen, Open, UnsetClose, LeaveEngaged,
                GoTo, FwBase, TypeOK
  <2> QED
    BY <2>1, <2>2
<1>2. pc[v] \notin {"inside", "unset_open"}
  BY <1>1, InsideAlone DEF Reading
<1> QED
  BY <1>1, <1>2, NotEngaged

(* The others wait or are idle while a handler is inside.                  *)
LEMMA InsideProgress ==
  ASSUME CutInv, ~overlapped, NEW w \in Workers, pc[w] = "inside", pc' = pc, job' = job,
         NEW t, NEW j, t = todo'[w], j = job[w], Pending(t, j)',
         HalfDone(w)' => Over(Head(t))', phase'[w] = "update" => t = <<>>
  PROVE  \A v \in Workers : Progressed(v)'
<1>1. \A v \in Workers : v # w => pc[v] \notin {"inside", "unset_open"}
  BY InsideAlone DEF Reading
<1>2. ASSUME NEW v \in Workers, v # w PROVE Progressed(v)'
  BY <1>1, <1>2, NotEngaged
<1>3. Pending(todo[w], job[w])' /\ (HalfDone(w)' => Over(Current(w))')
  <2>1. j = job'[w]
    OBVIOUS
  <2> QED
    BY <2>1, PendingNamed, OverNamed
<1>4. Progressed(w)'
  BY <1>3 DEF Progressed
<1> QED
  BY <1>2, <1>4

(* The locals of the handler inside.                                       *)
LEMMA InsideNamed ==
  ASSUME FwBase, NEW w \in Workers, Progressed(w), pc[w] = "inside"
  PROVE  \E t \in Seq(Ops), j \in Jobs :
           /\ t = todo[w] /\ j = job[w] /\ Pending(t, j)
           /\ HalfDone(w) => Over(Head(t))
           /\ t # <<>> => Head(t) = Current(w) /\ Tail(t) \in Seq(Ops)
BY HeadAndTail DEF FwBase, FwTyping, Serving, Progressed, Current

LEMMA QueryProgress ==
  ASSUME FwBase, CutInv, ~overlapped, NEW w \in Workers, Progressed(w), Query(w)
  PROVE  \A v \in Workers : Progressed(v)'
<1>1. /\ pc[w] = "inside" /\ pc' = pc /\ kernel' = kernel /\ job' = job /\ todo[w] # <<>>
      /\ Current(w).verb \notin {"purge", "drop"}
  BY DEF Query, Call, At, NextOp, Continue, stateFileVars
<1>2. PICK t \in Seq(Ops), j \in Jobs :
           /\ t = todo[w] /\ j = job[w] /\ Pending(t, j)
           /\ Head(t) = Current(w) /\ Tail(t) \in Seq(Ops)
  BY <1>1, InsideNamed
<1>3. CASE todo' = todo /\ phase'[w] = "apply"
  <2>1. Pending(t, j)'
    BY <1>1, <1>2, KernelFrame
  <2>2. ~HalfDone(w)' /\ t = todo'[w]
    BY <1>2, <1>3 DEF HalfDone
  <2> QED
    BY <1>1, <1>2, <1>3, <2>1, <2>2, InsideProgress
<1>4. CASE /\ Current(w).verb \notin {"purge_rule", "drop_chain"}
           /\ Queried(Current(w)) = Adds(Current(w))
           /\ todo'[w] = Tail(todo[w]) /\ phase'[w] = "query"
  <2>1. Head(t).verb \in {"new_chain", "add", "delete"}
    <3>1. Head(t) \in Ops
      BY <1>1, <1>2, HeadAndTail
    <3> QED
      BY <1>1, <1>2, <1>4, <3>1 DEF Ops, ChainOps, RuleOps, PassOps
  <2>2. Over(Head(t))
    BY <1>1, <1>2, <1>4, <2>1, SkippedIsOver
  <2>3. PICK u : u = Tail(t)
    OBVIOUS
  <2>4. Pending(u, j)
    BY <1>1, <1>2, <2>2, <2>3, TailPending
  <2>5. Pending(u, j)'
    BY <1>1, <2>4, KernelFrame
  <2>6. ~HalfDone(w)' /\ u = todo'[w] /\ phase'[w] # "update"
    BY <1>2, <1>4, <2>3 DEF HalfDone
  <2> QED
    BY <1>1, <1>2, <2>5, <2>6, InsideProgress
<1> QED
  BY <1>3, <1>4 DEF Query, NextOp, Continue, FwBase, FwTyping

LEMMA ApplyProgress ==
  ASSUME FwBase, CutInv, KernelInv, Agreement, ~overlapped, NEW w \in Workers,
         Progressed(w), Apply(w)
  PROVE  \A v \in Workers : Progressed(v)'
<1>1. /\ pc[w] = "inside" /\ pc' = pc /\ phase[w] = "apply" /\ job' = job /\ todo[w] # <<>>
      /\ Current(w) \in ChainOps \cup RuleOps /\ ~Unsupported(Current(w).rule)
  BY DEF Apply, Call, At, NextOp, Continue, stateFileVars, FwBase, Working, MidOp
<1>2. PICK t \in Seq(Ops), j \in Jobs :
           /\ t = todo[w] /\ j = job[w] /\ Pending(t, j)
           /\ Head(t) = Current(w) /\ Tail(t) \in Seq(Ops)
  BY <1>1, InsideNamed
<1>3. /\ t # <<>>
      /\ Head(t) \in ChainOps \cup RuleOps /\ ~Unsupported(Head(t).rule)
  BY <1>1, <1>2
<1>4. CASE Succeeds(Current(w))
  <2>1. /\ kernel' = AfterCommand(Head(t)) /\ Succeeds(Head(t)) /\ todo' = todo
        /\ phase'[w] # "update"
    BY <1>2, <1>4 DEF Apply, Continue, FwBase, FwTyping
  <2>2. Agree(direct)
    <3>1. ~cut /\ \A v \in Workers : ~HalfDone(v)
      BY <1>1, InsideAlone DEF HalfDone, Reading
    <3> QED
      BY <3>1 DEF Agreement
  <2>3. PICK op : op = Head(t)
    OBVIOUS
  <2>4. Over(op)'
    BY <1>3, <2>1, <2>2, <2>3, CommandIsOver
  <2>5. Over(Head(t))'
    BY <2>3, <2>4 DEF Over
  <2>6. Pending(t, j)'
    BY <1>2, <1>3, <2>1, CommandKeepsPending
  <2>7. t = todo'[w]
    BY <1>2, <2>1
  <2> QED
    BY <1>1, <1>2, <2>1, <2>5, <2>6, <2>7, InsideProgress
<1>5. CASE ~Succeeds(Current(w))
  <2>1. kernel' = kernel /\ todo'[w] = Tail(t) /\ phase'[w] = "query"
    BY <1>2, <1>5 DEF Apply, NextOp, Continue, FwBase, FwTyping
  <2>2. Over(Head(t))
    BY <1>2, <1>3, <1>5, FailedIsOver
  <2>3. PICK u : u = Tail(t)
    OBVIOUS
  <2>4. Pending(u, j)
    <3>1. Head(t).verb \notin {"purge", "drop"}
      BY <1>3 DEF ChainOps, RuleOps
    <3> QED
      BY <1>2, <1>3, <2>2, <2>3, <3>1, TailPending
  <2>5. Pending(u, j)'
    BY <2>1, <2>4, KernelFrame
  <2>6. ~HalfDone(w)' /\ u = todo'[w] /\ phase'[w] # "update"
    BY <2>1, <2>3 DEF HalfDone
  <2> QED
    BY <1>1, <1>2, <2>5, <2>6, InsideProgress
<1> QED
  BY <1>4, <1>5

LEMMA CfgProgress ==
  ASSUME FwBase, CutInv, ~overlapped, NEW w \in Workers, Progressed(w),
         QueryCfg(w) \/ ApplyCfg(w)
  PROVE  \A v \in Workers : Progressed(v)'
<1>1. /\ pc[w] = "inside" /\ pc' = pc /\ HalfDone(w) /\ job' = job /\ todo[w] # <<>>
      /\ kernel' = kernel
      /\ Current(w) \in ChainOps \cup RuleOps
  BY DEF QueryCfg, ApplyCfg, Call, At, NextOp, Continue, stateFileVars, FwBase, Working,
         MidOp, HalfDone
<1>2. PICK t \in Seq(Ops), j \in Jobs :
           /\ t = todo[w] /\ j = job[w] /\ Pending(t, j)
           /\ Head(t) = Current(w) /\ Tail(t) \in Seq(Ops)
           /\ Over(Head(t))
  BY <1>1, InsideNamed
<1>3. CASE todo' = todo /\ phase'[w] = "apply_cfg"
  <2>1. Pending(t, j)' /\ Over(Head(t))'
    BY <1>1, <1>2, KernelFrame
  <2>2. t = todo'[w]
    BY <1>2, <1>3
  <2> QED
    BY <1>1, <1>2, <1>3, <2>1, <2>2, InsideProgress
<1>4. CASE todo'[w] = Tail(todo[w]) /\ phase'[w] = "query"
  <2>1. PICK u : u = Tail(t)
    OBVIOUS
  <2>2. Pending(u, j)
    <3>1. Head(t).verb \notin {"purge", "drop"}
      BY <1>1, <1>2 DEF ChainOps, RuleOps
    <3> QED
      BY <1>1, <1>2, <2>1, <3>1, TailPending
  <2>3. Pending(u, j)'
    BY <1>1, <2>2, KernelFrame
  <2>4. ~HalfDone(w)' /\ u = todo'[w] /\ phase'[w] # "update"
    BY <1>2, <1>4, <2>1 DEF HalfDone
  <2> QED
    BY <1>1, <1>2, <2>3, <2>4, InsideProgress
<1> QED
  BY <1>3, <1>4 DEF QueryCfg, ApplyCfg, NextOp, Continue, FwBase, FwTyping

LEMMA FoundProgress ==
  ASSUME FwBase, CutInv, KernelInv, Agreement, ~overlapped, NEW w \in Workers,
         Progressed(w), GetAllRules(w) \/ GetAllChains(w)
  PROVE  \A v \in Workers : Progressed(v)'
<1>1. /\ pc[w] = "inside" /\ pc' = pc /\ job' = job /\ todo[w] # <<>>
      /\ kernel' = kernel /\ phase[w] = "query" /\ phase'[w] = "query"
  BY DEF GetAllRules, GetAllChains, Call, At, Continue, stateFileVars, FwBase, FwTyping
<1>2. PICK t \in Seq(Ops), j \in Jobs :
           /\ t = todo[w] /\ j = job[w] /\ Pending(t, j)
           /\ Head(t) = Current(w) /\ Tail(t) \in Seq(Ops)
  BY <1>1, InsideNamed
<1>3. Agree(direct) /\ direct \in Configs
  <2>1. ~cut /\ \A v \in Workers : ~HalfDone(v)
    BY <1>1, InsideAlone DEF HalfDone, Reading
  <2> QED
    BY <2>1 DEF Agreement, FwBase, FwTyping
<1>4. CASE GetAllRules(w)
  <2> DEFINE E == {e \in direct.rules : e.chain \in ChainsOf(Current(w).chain)}
  <2>1. IsFiniteSet(E) /\ E \in SUBSET Entries
    BY <1>3, FS_Subset DEF Configs
  <2>2. PICK ops : /\ ops \in Seq(Ops)
                   /\ \A i \in DOMAIN ops :
                        \E e \in E : ops[i] = Op("purge_rule", e.chain, e.rule)
                   /\ \A e \in E :
                        \E i \in DOMAIN ops : ops[i] = Op("purge_rule", e.chain, e.rule)
                   /\ todo' = [todo EXCEPT ![w] = ops \o Tail(@)]
    BY <1>4, <2>1, PurgeOps DEF GetAllRules
  <2>3. Head(t).verb = "purge" /\ t # <<>>
    BY <1>1, <1>2, <1>4 DEF GetAllRules
  <2>4. \A i \in DOMAIN ops : ops[i].verb = "purge_rule"
    BY <2>2 DEF Op
  <2>5. \A e \in direct.rules : e.chain \in ChainsOf(Head(t).chain) =>
           \E i \in DOMAIN ops : ops[i] = Op("purge_rule", e.chain, e.rule)
    BY <1>2, <2>2
  <2>6. PICK u : u = ops \o Tail(t)
    OBVIOUS
  <2>7. Pending(u, j)
    <3>1. Pending(ops \o Tail(t), j)
      BY <1>2, <1>3, <2>2, <2>3, <2>4, <2>5, PurgePending
    <3> QED
      BY <2>6, <3>1
  <2>8. Pending(u, j)'
    BY <1>1, <2>7, KernelFrame
  <2>9. ~HalfDone(w)' /\ u = todo'[w] /\ phase'[w] # "update"
    BY <1>1, <1>2, <2>2, <2>6 DEF HalfDone, FwBase, FwTyping
  <2> QED
    BY <1>1, <1>2, <2>8, <2>9, InsideProgress
<1>5. CASE GetAllChains(w)
  <2> DEFINE C == direct.chains \cap ChainsOf(Current(w).chain)
  <2>1. IsFiniteSet(C) /\ C \in SUBSET FwChains
    BY <1>3, FS_Subset DEF Configs
  <2>2. PICK ops : /\ ops \in Seq(Ops)
                   /\ \A i \in DOMAIN ops :
                        \E c \in C : ops[i] = Op("drop_chain", c, Nothing)
                   /\ \A c \in C :
                        \E i \in DOMAIN ops : ops[i] = Op("drop_chain", c, Nothing)
                   /\ todo' = [todo EXCEPT ![w] = ops \o Tail(@)]
    BY <1>5, <2>1, DropOps DEF GetAllChains
  <2>3. Head(t).verb = "drop" /\ t # <<>>
    BY <1>1, <1>2, <1>5 DEF GetAllChains
  <2>4. \A i \in DOMAIN ops :
          ops[i].verb = "drop_chain" /\ ops[i].chain \in ChainsOf(Head(t).chain)
    BY <1>2, <2>2 DEF Op
  <2>5. \A c \in direct.chains \cap ChainsOf(Head(t).chain) :
           \E i \in DOMAIN ops : ops[i] = Op("drop_chain", c, Nothing)
    BY <1>2, <2>2
  <2>6. PICK u : u = ops \o Tail(t)
    OBVIOUS
  <2>7. Pending(u, j)
    <3>1. Pending(ops \o Tail(t), j)
      BY <1>2, <1>3, <2>2, <2>3, <2>4, <2>5, DropPending
    <3> QED
      BY <2>6, <3>1
  <2>8. Pending(u, j)'
    BY <1>1, <2>7, KernelFrame
  <2>9. ~HalfDone(w)' /\ u = todo'[w] /\ phase'[w] # "update"
    BY <1>1, <1>2, <2>2, <2>6 DEF HalfDone, FwBase, FwTyping
  <2> QED
    BY <1>1, <1>2, <2>8, <2>9, InsideProgress
<1> QED
  BY <1>4, <1>5

LEMMA SaveProgress ==
  ASSUME FwBase, CutInv, KernelInv, ~overlapped, NEW w \in Workers, Progressed(w),
         GetSettings(w) \/ Update(w) \/ Unset(w)
  PROVE  \A v \in Workers : Progressed(v)'
<1>1. CASE GetSettings(w)
  <2>1. /\ pc[w] = "inside" /\ pc' = pc /\ job' = job /\ todo' = todo /\ todo[w] = <<>>
        /\ kernel' = kernel /\ phase'[w] = "update"
    BY <1>1 DEF GetSettings, At, Continue, stateFileVars, FwBase, FwTyping
  <2>2. PICK t \in Seq(Ops), j \in Jobs : t = todo[w] /\ j = job[w] /\ Pending(t, j)
    BY <2>1, InsideNamed
  <2>3. Pending(t, j)'
    BY <2>1, <2>2, KernelFrame
  <2>4. ~HalfDone(w)' /\ t = todo'[w] /\ t = <<>>
    BY <2>1, <2>2 DEF HalfDone
  <2> QED
    BY <2>1, <2>2, <2>3, <2>4, InsideProgress
<1>2. CASE Update(w)
  <2>1. /\ pc[w] = "inside" /\ phase[w] = "update" /\ kernel' = kernel
        /\ pc'[w] = "unset_open" /\ job' = job
        /\ \A v \in Workers : v # w => pc'[v] = pc[v]
    BY <1>2 DEF Update, At, Finish, GoTo, FwBase, TypeOK
  <2>2. PICK t \in Seq(Ops), j \in Jobs :
          t = todo[w] /\ j = job[w] /\ Pending(t, j)
    BY <2>1, InsideNamed
  <2>3. t = <<>>
    BY <2>1, <2>2 DEF Progressed
  <2>4. Achieved(j)
    BY <2>2, <2>3, NothingPending
  <2>5. Achieved(j)'
    BY <2>1, <2>4, KernelFrame
  <2>6. Achieved(job[w])'
    BY <2>1, <2>2, <2>5, AchievedNamed
  <2>7. Progressed(w)'
    BY <2>1, <2>6 DEF Progressed
  <2>8. \A v \in Workers : v # w => pc'[v] \notin {"inside", "unset_open"}
    BY <2>1, InsideAlone DEF Reading
  <2>9. ASSUME NEW v \in Workers, v # w PROVE Progressed(v)'
    BY <2>8, <2>9, NotEngaged
  <2> QED
    BY <2>7, <2>9
<1>3. CASE Unset(w)
  <2>1. /\ pc[w] \in {"unset_open", "unset_close"}
        /\ pc'[w] \in {"unset_close", "idle"}
        /\ \A v \in Workers : v # w => pc'[v] = pc[v]
    BY <1>3 DEF Unset, UnsetOpen, Open, UnsetClose, LeaveEngaged, GoTo, FwBase, TypeOK
  <2>2. \A v \in Workers : v # w => pc[v] \notin {"inside", "unset_open"}
    BY <2>1, InsideAlone DEF Reading
  <2>3. ASSUME NEW v \in Workers PROVE Progressed(v)'
    BY <2>1, <2>2, NotEngaged
  <2> QED
    BY <2>3
<1> QED
  BY <1>1, <1>2, <1>3

LEMMA FailProgress ==
  ASSUME FwBase, CutInv, ~overlapped, NEW w \in Workers, Raise(w) \/ DBusFails(w)
  PROVE  \A v \in Workers : Progressed(v)'
<1>1. /\ pc[w] = "inside" /\ pc'[w] = "idle"
      /\ \A v \in Workers : v # w => pc'[v] = pc[v]
  BY DEF Raise, DBusFails, Abandon, LeaveEngaged, GoTo, FwBase, TypeOK
<1>2. \A v \in Workers : v # w => pc[v] \notin {"inside", "unset_open"}
  BY <1>1, InsideAlone DEF Reading
<1>3. ASSUME NEW v \in Workers PROVE Progressed(v)'
  BY <1>1, <1>2, NotEngaged
<1> QED
  BY <1>3

LEMMA NextProgress ==
  ASSUME FwInv, Progress, [FwNext]_firewallVars
  PROVE  Progress'
<1>1. CASE FwReboot \/ FwCrash
  <2>1. \A v \in Workers : pc'[v] = "idle"
    BY <1>1 DEF FwReboot, Reboot, FwCrash, Crash
  <2>2. ASSUME NEW v \in Workers PROVE Progressed(v)'
    BY <2>1, NotEngaged
  <2> QED
    BY <2>2 DEF Progress
<1>2. CASE UNCHANGED firewallVars
  <2>1. /\ overlapped' = overlapped /\ faulty' = faulty /\ kernel' = kernel
        /\ pc' = pc /\ job' = job /\ todo' = todo /\ phase' = phase
    BY <1>2 DEF firewallVars, fwVars, stateFileVars
  <2>2. ASSUME NEW v \in Workers, Progressed(v) PROVE Progressed(v)'
    BY <2>1, <2>2, LeftAlone
  <2> QED
    BY <2>1, <2>2 DEF Progress
<1>3. ASSUME NEW w \in Workers, FwStep(w) \/ \E j \in Jobs : FwRequest(w, j),
             Recorded, ~overlapped', NEW v \in Workers \ faulty'
      PROVE  Progressed(v)'
  <2>1. /\ ~overlapped /\ FwBase /\ KernelInv /\ CutInv /\ Agreement
        /\ \A u \in Workers \ faulty : Progressed(u)
    BY <1>3 DEF Recorded, FwInv, Progress
  <2>2. CASE v \in faulty
    <3>1. pc'[v] = "idle"
      BY <1>3, <2>2 DEF Recorded
    <3> QED
      BY <3>1, NotEngaged
  <2>3. CASE v \notin faulty
    <3>1. Progressed(v)
      BY <2>1, <2>3
    <3>2. CASE \/ Wait(w) \/ Enter(w) \/ Raise(w) \/ DBusFails(w)
               \/ \E j \in Jobs : FwRequest(w, j)
      BY <2>1, <3>1, <3>2, WaitProgress, EnterProgress, FailProgress
    <3>3. CASE v = w
      BY <1>3, <2>1, <3>1, <3>2, <3>3, QueryProgress, FoundProgress, ApplyProgress,
         CfgProgress, SaveProgress DEF FwStep
    <3>4. CASE v # w
      BY <1>3, <2>1, <3>2, <3>4, OthersProgress DEF FwStep
    <3> QED
      BY <3>3, <3>4
  <2> QED
    BY <2>2, <2>3
<1>4. CASE \E w \in Workers : /\ CommandFails(w) /\ faulty' = faulty \cup {w}
                             /\ UNCHANGED overlapped
  <2>1. PICK w \in Workers : CommandFails(w) /\ faulty' = faulty \cup {w}
                             /\ overlapped' = overlapped
    BY <1>4
  <2>2. ASSUME ~overlapped', NEW v \in Workers \ faulty' PROVE Progressed(v)'
    BY <2>1, <2>2, OthersProgress DEF FwInv
  <2> QED
    BY <2>2 DEF Progress
<1> QED
  BY <1>1, <1>2, <1>3, <1>4 DEF FwNext, Progress

(* A handler that goes on to unset_state() has done what the response says *)
(* unless two handlers were engaged at once or iptables failed under it.   *)
THEOREM Done == FwSpec => []DoneAsReported
<1>1. FwInit => Progress
  BY DEF FwInit, Init, Progress, Progressed
<1>2. FwInv /\ Progress /\ [FwNext]_firewallVars => Progress'
  BY NextProgress
<1>3. Progress => DoneAsReported
  BY DEF Progress, Progressed, DoneAsReported
<1> QED
  BY <1>1, <1>2, <1>3, FwInvariant, PTL DEF FwSpec
=============================================================================
