------------------------------ MODULE FloatingIP ------------------------------
(***************************************************************************)
(* vrtmgr/network.py and vrtmgr/libredirect.py: a floating address is on   *)
(* the external bridge, in the NetworkManager connection of the bridge, in *)
(* the NAT rules of iptables and in firewalld's direct configuration.  The *)
(* handlers attach_ipaddr() and detach_ipaddr() change the four one after  *)
(* the other: the first two before they ask for the state file, the others *)
(* after.                                                                  *)
(*                                                                         *)
(* NM.Client reads its picture of the device and of the connection when    *)
(* the handler makes it, and follows changes only if its event loop runs;  *)
(* nobody runs it, but a blocking call of the library may, so here the     *)
(* picture is brought up to date at any time or never (External).          *)
(*                                                                         *)
(* A request names a floating address a and the fixed address f it is to   *)
(* lead to: the bridge and the connection hold a, the NAT rule is <<a, f>>.*)
(* Nothing compares the f of a detach with that of the attach.             *)
(***************************************************************************)
EXTENDS StateFile

CONSTANTS
  Addresses,    \* floating addresses
  Fixed,        \* fixed addresses
  Jobs,         \* the requests: [kind, a, f]
  MaxRequests   \* bound: requests in a behaviour

ASSUME JobsAssumption ==
  \A j \in Jobs : \/ j.kind = "firewall"
                  \/ j.kind \in {"attach", "detach"} /\ j.a \in Addresses /\ j.f \in Fixed

VARIABLES
  device,     \* the addresses on the bridge
  profile,    \* the addresses in its NetworkManager connection
  nat,        \* the rules <<a, f>> of the chain PREROUTING
  xml,        \* those of firewalld's configuration
  job,        \* job[w]: the request worker w serves
  stage,      \* stage[w]: what it does next
  view,       \* view[w]: the picture of its NM.Client
  snap,       \* snap[w]: what getSettings() returned to save()
  requests,   \* bound: requests so far
  met,        \* history: addresses of the handlers that ran at the same time
  agreed,     \* history: agreed[a]: what the last handler of a leaves in step
  fixed,      \* history: fixed[a]: the f of the last handler that changed a
  astray,     \* history: see Strays
  overlapped, \* history: two handlers were engaged at once
  trouble     \* history: see Troubled

hostVars == <<device, profile, nat, xml>>
fipVars == <<hostVars, job, stage, view, snap, requests, met, agreed, fixed,
             astray>>
floatingIPVars == <<stateFileVars, fipVars, overlapped, trouble>>

NoJob == [kind |-> "none"]
NoView == [device |-> {}, profile |-> {}]

(* A FirewallMgr handler, of which only the state file is of interest.     *)
IsFirewall(w) == job[w].kind = "firewall"
Busy == {w \in Workers : stage[w] # "idle"}
Floating == {w \in Busy : ~IsFirewall(w)}
WorkingOn(a) == {w \in Floating : job[w].a = a}

(* A set of addresses, or of rules, with what the handler of w is to make  *)
(* of it, and with what its rollback makes of it.                          *)
Rule(w) == <<job[w].a, job[w].f>>
With(w, S) == IF job[w].kind = "attach" THEN S \cup {job[w].a}
                                        ELSE S \ {job[w].a}
WithRule(w, S) == IF job[w].kind = "attach" THEN S \cup {Rule(w)}
                                            ELSE S \ {Rule(w)}
Without(w, S) == IF job[w].kind = "attach" THEN S \ {job[w].a}
                                           ELSE S \cup {job[w].a}

At(w, s) == stage[w] = s
GoOn(w, s) == stage' = [stage EXCEPT ![w] = s]

(* What most steps leave alone.                                            *)
Keep == UNCHANGED <<job, requests, met, agreed, fixed, astray>>

-----------------------------------------------------------------------------
FipInit ==
  /\ Init
  /\ device = {} /\ profile = {} /\ nat = {} /\ xml = {}
  /\ job = [w \in Workers |-> NoJob]
  /\ stage = [w \in Workers |-> "idle"]
  /\ view = [w \in Workers |-> NoView]
  /\ snap = [w \in Workers |-> {}]
  /\ requests = 0
  /\ met = [w \in Workers |-> {}]
  /\ agreed = [a \in Addresses |-> "all"]
  /\ fixed = [a \in Addresses |-> "none"]
  /\ astray = {}
  /\ overlapped = FALSE
  /\ trouble = FALSE

(* The handler makes its NetManager.                                       *)
Arrive(w, j) ==
  /\ stage[w] = "idle"
  /\ requests < MaxRequests
  /\ requests' = requests + 1
  /\ job' = [job EXCEPT ![w] = j]
  /\ IF j.kind = "firewall"
     THEN /\ Request(w, "mgr")
          /\ GoOn(w, "lock")
          /\ UNCHANGED <<view, met>>
     ELSE /\ GoOn(w, "iface")
          /\ view' = [view EXCEPT ![w] = [device |-> device, profile |-> profile]]
          /\ met' = [u \in Workers |->
                       IF u = w THEN {job[x].a : x \in Floating}
                       ELSE IF u \in Floating THEN met[u] \cup {j.a} ELSE met[u]]
          /\ UNCHANGED stateFileVars
  /\ UNCHANGED <<hostVars, snap, agreed, fixed, astray>>

(* The stages at which the picture matters.                                *)
Viewing == {"iface", "commit", "lock", "undo_iface", "undo_commit"}

NMRefreshes(w) ==
  /\ w \in Floating
  /\ stage[w] \in Viewing
  /\ view' = [view EXCEPT ![w] = [device |-> device, profile |-> profile]]
  /\ Keep
  /\ UNCHANGED <<stateFileVars, hostVars, stage, snap>>

(* The handler names another fixed address than the last one to change the *)
(* address, whose rule may still be there.                                 *)
Strays(w) ==
  LET a == job[w].a
  IN  /\ job[w].f # fixed[a]
      /\ \/ job[w].kind = "detach"
         \/ overlapped \/ agreed[a] \notin {"all", "live"}
         \/ WorkingOn(a) # {w}

(* The handler goes on with its address.                                   *)
Recorded(w) ==
  /\ fixed' = [fixed EXCEPT ![job[w].a] = job[w].f]
  /\ astray' = IF Strays(w) THEN astray \cup {job[w].a} ELSE astray

(* Mutant: the address may be on the bridge already.                       *)
IfaceAgain(w) ==
  /\ At(w, "iface")
  /\ \/ device' = With(w, device) /\ GoOn(w, "commit") /\ Recorded(w)
     \/ GoOn(w, "rejected") /\ UNCHANGED <<device, fixed, astray>>
  /\ UNCHANGED <<stateFileVars, profile, nat, xml, view, snap>>
  /\ UNCHANGED <<job, requests, met, agreed>>

(* add_iface_addr() and remove_iface_addr() up to the command `ip addr`,   *)
(* which fails when there is nothing to change, or for any other reason.   *)
Iface(w) ==
  /\ At(w, "iface")
  /\ \/ /\ With(w, view[w].device) # view[w].device
        /\ With(w, device) # device
        /\ device' = With(w, device)
        /\ GoOn(w, "commit")
        /\ Recorded(w)
     \/ GoOn(w, "rejected") /\ UNCHANGED <<device, fixed, astray>>
  /\ UNCHANGED <<stateFileVars, profile, nat, xml, view, snap>>
  /\ UNCHANGED <<job, requests, met, agreed>>

(* Mutant: the change of the connection is not committed.                  *)
CommitLocally(w) ==
  /\ At(w, "commit")
  /\ view' = [view EXCEPT ![w].profile = With(w, @)]
  /\ Request(w, "redirect")
  /\ GoOn(w, "lock")
  /\ Keep
  /\ UNCHANGED <<hostVars, snap>>

(* NetManager.add_address() and remove_address(): the whole connection is  *)
(* written back as the client knows it.  Then is_locked() is called.       *)
Commit(w) ==
  /\ At(w, "commit")
  /\ profile' = With(w, view[w].profile)
  /\ view' = [view EXCEPT ![w].profile = profile']
  /\ Request(w, "redirect")
  /\ GoOn(w, "lock")
  /\ Keep
  /\ UNCHANGED <<device, nat, xml, snap>>

(* NetworkManager refuses or does not answer: an exception nobody handles. *)
CommitFails(w) ==
  /\ At(w, "commit") \/ At(w, "undo_commit")
  /\ GoOn(w, "failed")
  /\ Keep
  /\ UNCHANGED <<stateFileVars, hostVars, view, snap>>

-----------------------------------------------------------------------------
(* is_locked() and set_state().                                            *)

Wait(w) ==
  /\ At(w, "lock")
  /\ \/ /\ FirstRead(w) \/ LoopRead(w) \/ ScrubOpen(w) \/ ScrubClose(w) \/ SetOpen(w)
        /\ UNCHANGED stage
     \/ /\ Sleep(w)
        /\ stage' = IF pc'[w] # "idle" THEN stage
                    ELSE [stage EXCEPT ![w] = IF IsFirewall(w) THEN "rejected"
                                              ELSE "undo_iface"]
  /\ Keep
  /\ UNCHANGED <<hostVars, view, snap>>

(* The picture of the NM.Client is not looked at any more.                 *)
Enter(w) ==
  /\ At(w, "lock")
  /\ SetClose(w)
  /\ GoOn(w, IF IsFirewall(w) THEN "work" ELSE "check")
  /\ view' = [view EXCEPT ![w] = NoView]
  /\ Keep
  /\ UNCHANGED <<hostVars, snap>>

(* The other handler's work, done or given up by an exception.             *)
Work(w) ==
  /\ At(w, "work")
  /\ \/ Finish(w) /\ GoOn(w, "unset")
     \/ Abandon(w) /\ GoOn(w, "failed")
  /\ Keep
  /\ UNCHANGED <<hostVars, view, snap>>

-----------------------------------------------------------------------------
(* add_fw_rule(), remove_fw_rule().                                        *)
StayInside(w, s) == GoOn(w, s) /\ UNCHANGED stateFileVars

(* The handler ends as if all was done, without save().                    *)
NothingToDo(w) == GoOn(w, "done") /\ Abandon(w)

(* query_rule() by check_fw_rule(), and again by add_rule() or             *)
(* remove_rule().                                                          *)
AfterQuery(w) == IF At(w, "check") THEN "query" ELSE "apply"

Check(w) ==
  /\ At(w, "check") \/ At(w, "query")
  /\ IF WithRule(w, nat) # nat THEN StayInside(w, AfterQuery(w))
                               ELSE NothingToDo(w)
  /\ Keep
  /\ UNCHANGED <<hostVars, view, snap>>

(* Mutant: the command changes another table.                              *)
ApplyElsewhere(w) ==
  /\ At(w, "apply")
  /\ StayInside(w, "query_xml")
  /\ Keep
  /\ UNCHANGED <<hostVars, view, snap>>

(* iptables -A, which adds a rule that may be there already, or -D.        *)
Apply(w) ==
  /\ At(w, "apply")
  /\ IF job[w].kind = "attach" \/ Rule(w) \in nat
     THEN StayInside(w, "query_xml")
     ELSE NothingToDo(w)
  /\ nat' = WithRule(w, nat)
  /\ Keep
  /\ UNCHANGED <<device, profile, xml, view, snap>>

(* The command iptables fails for a reason of its own.  query_rule() takes *)
(* every exit status but 1 for a rule that is there, and add_rule() and    *)
(* remove_rule() end without a word unless -A or -D exits with 0.          *)
CommandFails(w) ==
  /\ stage[w] \in {"check", "query", "apply"}
  /\ IF job[w].kind = "detach" /\ ~At(w, "apply")
     THEN StayInside(w, AfterQuery(w))
     ELSE GoOn(w, "skipped") /\ Abandon(w)
  /\ Keep
  /\ UNCHANGED <<hostVars, view, snap>>

QueryXML(w) ==
  /\ At(w, "query_xml")
  /\ IF WithRule(w, xml) # xml THEN StayInside(w, "change_xml")
                               ELSE NothingToDo(w)
  /\ Keep
  /\ UNCHANGED <<hostVars, view, snap>>

(* addRule() or removeRule(), which raises if another handler was faster.  *)
ChangeXML(w) ==
  /\ At(w, "change_xml")
  /\ IF WithRule(w, xml) # xml THEN StayInside(w, "save")
                               ELSE Abandon(w) /\ GoOn(w, "failed")
  /\ xml' = WithRule(w, xml)
  /\ Keep
  /\ UNCHANGED <<device, profile, nat, view, snap>>

(* firewalld does not answer.                                              *)
DBusFails(w) ==
  /\ stage[w] \in {"query_xml", "change_xml", "save", "update"}
  /\ Abandon(w)
  /\ GoOn(w, "failed")
  /\ Keep
  /\ UNCHANGED <<hostVars, view, snap>>

(* save(): getSettings(), update(), unset_state().                         *)
GetSettings(w) ==
  /\ At(w, "save")
  /\ StayInside(w, "update")
  /\ snap' = [snap EXCEPT ![w] = xml]
  /\ Keep
  /\ UNCHANGED <<hostVars, view>>

(* Mutant: save() leaves the flag set.                                     *)
UpdateOnly(w) ==
  /\ At(w, "update")
  /\ xml' = snap[w]
  /\ Abandon(w)
  /\ GoOn(w, "done")
  /\ Keep
  /\ UNCHANGED <<device, profile, nat, view, snap>>

Update(w) ==
  /\ At(w, "update")
  /\ xml' = snap[w]
  /\ Finish(w)
  /\ GoOn(w, "unset")
  /\ Keep
  /\ UNCHANGED <<device, profile, nat, view, snap>>

Unset(w) ==
  /\ \/ UnsetOpen(w) /\ UNCHANGED stage
     \/ UnsetClose(w) /\ GoOn(w, "done")
  /\ Keep
  /\ UNCHANGED <<hostVars, view, snap>>

-----------------------------------------------------------------------------
(* The rollback after is_locked() gave up: the same functions again, whose *)
(* result is ignored.                                                      *)
UndoIface(w) ==
  /\ At(w, "undo_iface")
  /\ \/ /\ Without(w, view[w].device) # view[w].device
        /\ Without(w, device) # device
        /\ device' = Without(w, device)
        /\ GoOn(w, "undo_commit")
     \/ GoOn(w, "refused") /\ UNCHANGED device
  /\ Keep
  /\ UNCHANGED <<stateFileVars, profile, nat, xml, view, snap>>

(* Mutant: the rollback forgets the connection.                            *)
UndoNothing(w) ==
  /\ At(w, "undo_commit")
  /\ GoOn(w, "refused")
  /\ Keep
  /\ UNCHANGED <<stateFileVars, hostVars, view, snap>>

UndoCommit(w) ==
  /\ At(w, "undo_commit")
  /\ profile' = Without(w, view[w].profile)
  /\ GoOn(w, "refused")
  /\ Keep
  /\ UNCHANGED <<stateFileVars, device, nat, xml, view, snap>>

-----------------------------------------------------------------------------
(* The answer.  What the handler of address a leaves in step: "all" of the *)
(* four, the "live" ones of the running host, the "iface" ones of the      *)
(* bridge and its connection, or "no" promise.                             *)
Outcome(w) ==
  CASE stage[w] = "done" /\ met[w] = {}            -> "all"
    [] stage[w] = "done" /\ job[w].a \notin met[w] -> "live"
    [] stage[w] = "refused" /\ met[w] = {}         -> "iface"
    [] stage[w] = "rejected"                       -> agreed[job[w].a]
    [] OTHER                                       -> "no"

Idle(w) ==
  /\ GoOn(w, "idle")
  /\ job' = [job EXCEPT ![w] = NoJob]
  /\ view' = [view EXCEPT ![w] = NoView]
  /\ snap' = [snap EXCEPT ![w] = {}]
  /\ met' = [met EXCEPT ![w] = {}]

Answer(w) ==
  /\ stage[w] \in {"done", "skipped", "refused", "rejected", "failed"}
  /\ Idle(w)
  /\ agreed' = IF IsFirewall(w) THEN agreed
               ELSE [agreed EXCEPT ![job[w].a] = Outcome(w)]
  /\ UNCHANGED <<stateFileVars, hostVars, requests, fixed, astray>>

HandlersDie ==
  /\ job' = [w \in Workers |-> NoJob]
  /\ stage' = [w \in Workers |-> "idle"]
  /\ view' = [w \in Workers |-> NoView]
  /\ snap' = [w \in Workers |-> {}]
  /\ met' = [w \in Workers |-> {}]
  /\ UNCHANGED <<requests, fixed, astray>>

FipCrash ==
  /\ Crash
  /\ HandlersDie
  /\ agreed' = [a \in Addresses |-> IF WorkingOn(a) = {} THEN agreed[a] ELSE "no"]
  /\ UNCHANGED <<hostVars, overlapped>>

(* The bridge comes up with the addresses of its connection, the chain     *)
(* with the rules of the configuration.                                    *)
FipReboot ==
  /\ Reboot
  /\ HandlersDie
  /\ device' = profile
  /\ nat' = xml
  /\ agreed' = [a \in Addresses |->
                  IF overlapped \/ WorkingOn(a) # {} \/ agreed[a] = "live"
                  THEN "no" ELSE agreed[a]]
  /\ overlapped' = FALSE
  /\ UNCHANGED <<profile, xml>>

FipStep(w) ==
  \/ Iface(w) \/ Commit(w) \/ CommitFails(w)
  \/ Wait(w) \/ Enter(w) \/ Work(w)
  \/ Check(w) \/ Apply(w) \/ CommandFails(w)
  \/ QueryXML(w) \/ ChangeXML(w) \/ DBusFails(w)
  \/ GetSettings(w) \/ Update(w) \/ Unset(w)
  \/ UndoIface(w) \/ UndoCommit(w) \/ Answer(w)

(* Anything but handlers that succeed, on different addresses if at the    *)
(* same time, never both engaged, and detach what was attached.            *)
Troubled ==
  \/ overlapped
  \/ \E w \in Workers : stage[w] \in {"failed", "refused", "skipped"}
  \/ astray # {}
  \/ \E a \in Addresses :
       agreed[a] \in {"no", "iface"} \/ \E v, w \in WorkingOn(a) : v # w

FipNext ==
  \/ /\ \/ \E w \in Workers, j \in Jobs : Arrive(w, j)
        \/ \E w \in Workers : FipStep(w) \/ NMRefreshes(w)
     /\ overlapped' = (overlapped \/ Crowded')
     /\ trouble' = (trouble \/ Troubled')
  \/ FipCrash /\ trouble' = (trouble \/ Busy # {})
  \/ FipReboot /\ trouble' = Troubled'

FipSpec == FipInit /\ [][FipNext]_floatingIPVars

-----------------------------------------------------------------------------
Ifaces == {"iface", "commit", "undo_iface", "undo_commit"}
Inside == {"work", "check", "query", "apply", "query_xml", "change_xml",
           "save", "update"}
Ends == {"done", "skipped", "refused", "rejected", "failed"}

FipTypeOK ==
  /\ TypeOK
  /\ device \in SUBSET Addresses /\ profile \in SUBSET Addresses
  /\ nat \in SUBSET (Addresses \X Fixed) /\ xml \in SUBSET (Addresses \X Fixed)
  /\ \A w \in Workers :
       /\ job[w] \in Jobs \cup {NoJob}
       /\ stage[w] \in Inside <=> pc[w] = "inside"
       /\ stage[w] \in {"idle"} \cup Ifaces \cup Ends <=> pc[w] = "idle"
       /\ view[w].device \in SUBSET Addresses
       /\ view[w].profile \in SUBSET Addresses
  /\ agreed \in [Addresses -> {"all", "live", "iface", "no"}]
  /\ fixed \in [Addresses -> Fixed \cup {"none"}]
  /\ astray \in SUBSET Addresses

(* A handler that had the host to itself and answers with success leaves   *)
(* the address in the bridge and the connection, and the rule it named in  *)
(* the chain and the configuration, or all four without it; the chain and  *)
(* the configuration have the same rules of the address.  So it is         *)
(* whatever was left out of step before, and a reboot does not change it.  *)
Settled(a) == ~overlapped /\ WorkingOn(a) = {}

RuleInStep(a) ==
  /\ a \in device <=> <<a, fixed[a]>> \in nat
  /\ \A f \in Fixed : <<a, f>> \in nat <=> <<a, f>> \in xml

AllAgree ==
  \A a \in Addresses : Settled(a) /\ agreed[a] = "all" =>
    (a \in device <=> a \in profile) /\ RuleInStep(a)

(* One that shared the host with handlers of other addresses leaves all in *)
(* step but the connection, which the others write back as they read it:   *)
(* until the host reboots the redirect works.                              *)
LiveAgree ==
  \A a \in Addresses : Settled(a) /\ agreed[a] = "live" => RuleInStep(a)

(* One that was refused because the firewall is locked has rolled back the *)
(* address in both places or in none.                                      *)
RefusedAgree ==
  \A a \in Addresses : Settled(a) /\ agreed[a] = "iface" =>
    (a \in device <=> a \in profile)

(* As long as every handler succeeds, those at the same time are for       *)
(* different addresses, each detach names the fixed address of the attach, *)
(* and no reboot brought back a connection that one of them overwrote, a   *)
(* floating address leads to the fixed address it was attached to last and *)
(* to no other, and a detached one leads nowhere.                          *)
OneRule ==
  \A a \in Addresses : ~trouble /\ Settled(a) =>
    {f \in Fixed : <<a, f>> \in nat} = IF a \in device THEN {fixed[a]} ELSE {}

(* add_rule() and remove_rule() free the state file only when they change  *)
(* something.  Under the same conditions that is enough: who finds the     *)
(* address to change finds the rule to change.                             *)
FlagComesFree == ~trouble /\ Engaged = {} => stateFile # "1"

=============================================================================
